--------------------------- MODULE FrameAllocator ---------------------------
(***************************************************************************)
(* What the physical memory manager promises to its clients, with no word  *)
(* about flags, counters or search order: a set of live blocks that never  *)
(* overlap.  A request is granted with a block that holds the bytes asked  *)
(* for, wherever it lies, and refused only when no run of free frames      *)
(* could serve it; releasing a block gives back that block and no other.   *)
(***************************************************************************)
EXTENDS Integers

CONSTANTS
  Block,       \* the runs <<first, length>> of frames a block may occupy
  FrameSize,   \* bytes in a frame
  Requests,    \* the byte counts clients ask for
  Pointers,    \* the values clients pass as an address
  NoFrame      \* the null pointer

VARIABLES
  live,        \* the blocks handed out and not yet released
  result       \* what the last call returned

avars == <<live, result>>

First(b)  == b[1]
Length(b) == b[2]
Extent(b) == First(b) .. First(b) + Length(b) - 1

Free(b) == \A c \in live : Extent(b) \cap Extent(c) = {}

Placement(bytes) == {b \in Block : Free(b) /\ Length(b) * FrameSize >= bytes}

(* One more frame than the bytes fill: the margin AlignUp adds. *)
Exhausted(bytes) ==
  \A b \in Block : Length(b) * FrameSize >= bytes + FrameSize => ~Free(b)

Grant(bytes) == \E b \in Placement(bytes) :
  /\ live' = live \cup {b}
  /\ result' = First(b)

Refuse(bytes) ==
  /\ Exhausted(bytes)
  /\ result' = NoFrame
  /\ UNCHANGED live

Release(pointer) ==
  \/ \E b \in live :
       /\ First(b) = pointer
       /\ live' = live \ {b}
       /\ result' = Length(b)
  \/ /\ \A b \in live : First(b) # pointer
     /\ result' = 0
     /\ UNCHANGED live

(* The old block survives unless a new one, apart from it, replaces it. *)
Move(pointer, bytes) == \E b \in live, c \in Placement(bytes) :
  /\ First(b) = pointer
  /\ live' = (live \ {b}) \cup {c}
  /\ result' = First(c)

Reject(pointer) ==
  /\ \A b \in live : First(b) # pointer
  /\ result' = NoFrame
  /\ UNCHANGED live

AInit == live = {} /\ result = NoFrame

ANext ==
  \/ \E bytes \in Requests : Grant(bytes) \/ Refuse(bytes)
  \/ \E pointer \in Pointers : Release(pointer) \/ Reject(pointer)
  \/ \E pointer \in Pointers, bytes \in Requests : Move(pointer, bytes)

ASpec == AInit /\ [][ANext]_avars
=============================================================================
