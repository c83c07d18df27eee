--------------------------- MODULE MCVirtualMemory ---------------------------
(* Two address spaces of two tables with two pages each; page 0 is the     *)
(* kernel's.                                                               *)
EXTENDS VirtualMemory

MCPrograms == {[first |-> 3, count |-> 2]}

(* States that agree in this have the same futures.  Which frame is which  *)
(* makes no difference, only who owns the same one and how many are used:  *)
(* Supply may choose any.  No step reads failed, and once something has    *)
(* gone wrong it no longer matters whose the blocks are.                   *)
MCView ==
  LET Own == Owning
      Shared(o) == IF o \in Own THEN {p \in Own : FrameOf(p) = FrameOf(o)} ELSE {FrameOf(o)}
  IN  <<Cardinality(used), [o \in Owners |-> Shared(o)], {o \in Own : FrameOf(o) \in used},
        busy, closing, loading,
        faults = {}, faults \ {"misuse"}, IF faults = {} THEN live ELSE {}>>
=============================================================================
