----------------------------- MODULE PathString -----------------------------
(***************************************************************************)
(* How the file system service makes one path of the thread's current path *)
(* and the one it is called with: PerformPathString of kernel.cxx, over    *)
(* the functions of common/string.cxx and common/string-utils.cxx it       *)
(* consists of.                                                            *)
(*                                                                         *)
(* A string is the sequence of its characters, without the zero behind     *)
(* them; offsets count from 0 as they do in the source, so that s[o] is    *)
(* At(s, o).  One step is one pass of a loop that changes the string.      *)
(* There is memory for every String; what a refused one makes of a call    *)
(* (string.cxx:27, 51, 64) and what is never deleted is FileService's.     *)
(***************************************************************************)
EXTENDS Integers, FiniteSetsExt, SequencesExt

CONSTANTS
  CurrentPaths, RawPaths,   \* what PerformPathString is called with
  WRONG_INDEX

VARIABLES
  given,      \* the path put together, before anything is taken out of it
  path,       \* pathString
  pathParts,  \* what Split makes of it
  at          \* the loop it is in

vars == <<given, path, pathParts, at>>
Slash == <<"/">>
Here  == <<".">>
Up    == <<".", ".">>

-----------------------------------------------------------------------------
(* StringUtils and String. *)
At(s, o) == IF o < Len(s) THEN s[o + 1] ELSE "0"
From(s, o) == SubSeq(s, o + 1, Len(s))
Occurs(s, substr, o) == o + Len(substr) <= Len(s) /\ SubSeq(s, o + 1, o + Len(substr)) = substr

FindLastSubstr(s, substr, offset) ==
  LET last   == IF offset = 0 THEN Len(s) - 1 ELSE offset
      places == {o \in 0 .. last : Occurs(s, substr, o)}
  IN  IF places = {} THEN WRONG_INDEX ELSE Max(places)

(* Length 0 asks for the rest. *)
GetSubString(s, start, length) ==
  SubSeq(s, start + 1, start + (IF length = 0 THEN Len(s) - start ELSE length))

(* The part behind is not moved up to the gap. *)
Erase_Mutant(s, position, count) == GetSubString(s, 0, position) \o From(s, position + count + 1)

(* A position or a count past the end is taken for another. *)
Erase(s, position, count) ==
  LET from   == IF position >= Len(s) THEN 0 ELSE position
      erased == IF count >= Len(s) THEN Len(s) - count ELSE count
  IN  GetSubString(s, 0, from) \o From(s, from + erased)

(* String::Split("/"): every slash behind the first character that is none *)
(* begins a part, so that parts can be empty, except for the last.         *)
Split(s) ==
  LET first == Min({o \in 0 .. Len(s) : ~Occurs(s, Slash, o)})
      cuts  == SelectSeq([n \in 1 .. Len(s) + 1 |-> n - 1],
                         LAMBDA o : o = first \/ (o > first /\ Occurs(s, Slash, o)))
      start(n) == IF Occurs(s, Slash, cuts[n]) THEN cuts[n] + 1 ELSE cuts[n]
      stop(n)  == IF n < Len(cuts) THEN cuts[n + 1] ELSE Len(s)
      parts == [n \in DOMAIN cuts |-> [start |-> start(n), length |-> stop(n) - start(n)]]
  IN  IF Last(parts).length = 0 THEN Front(parts) ELSE parts

-----------------------------------------------------------------------------
(* PerformPathString. *)
Part(s, part) == SubSeq(s, part.start + 1, part.start + part.length)

Joined(current, raw) == IF At(raw, 0) # "/" THEN current \o Slash \o raw ELSE raw

(* Where a "." or a ".." is taken out: never the first part, and for ".."  *)
(* not the second either.                                                  *)
Removable(name) ==
  {i \in DOMAIN pathParts : Part(path, pathParts[i]) = name /\ i > Len(name)}

First(name) == Min(Removable(name))

WithoutDot == LET i == First(Here) IN
  IF i = Len(pathParts) THEN GetSubString(path, 0, pathParts[i].start - 1)
  ELSE Erase(path, pathParts[i].start - 1, pathParts[i].length + 1)

WithoutUp ==
  LET i == First(Up)
      previous == FindLastSubstr(path, Slash, pathParts[i].start - 2)
  IN  Erase(path, previous + 1, pathParts[i - 1].length + pathParts[i].length + 1)

(* The loop over the parts starts again after each change. *)
TakeOut(loop, name, without, next) ==
  /\ at = loop
  /\ IF Removable(name) = {} THEN at' = next /\ UNCHANGED <<path, pathParts>>
     ELSE /\ path' = without
          /\ pathParts' = Split(path')
          /\ UNCHANGED at
  /\ UNCHANGED given

RemoveDot == TakeOut("dots", Here, WithoutDot, "ups")
RemoveUp  == TakeOut("ups", Up, WithoutUp, "trim")

(* The slash is kept. *)
Trimmed_Mutant(s) == GetSubString(s, 0, Len(s))

Trimmed(s) == GetSubString(s, 0, Len(s) - 1)

(* The loop that takes the slashes off the end. *)
Trim ==
  /\ at = "trim"
  /\ IF At(path, Len(path) - 1) = "/"
       THEN path' = Trimmed(path) /\ UNCHANGED at
       ELSE at' = "done" /\ UNCHANGED path
  /\ UNCHANGED <<given, pathParts>>

Init ==
  /\ \E current \in CurrentPaths, raw \in RawPaths : given = Joined(current, raw)
  /\ path = given /\ pathParts = Split(given) /\ at = "dots"

(* The service runs with interrupts off: nothing else runs until it is done. *)
Next == RemoveDot \/ RemoveUp \/ Trim
Spec == Init /\ [][Next]_vars /\ WF_vars(Next)

-----------------------------------------------------------------------------
Names(s) == [n \in DOMAIN Split(s) |-> Part(s, Split(s)[n])]
RealNames(s) == SelectSeq(Names(s), LAMBDA name : name # <<>>)

(* What one more name means: ".." goes up, but not above the disk, where   *)
(* it stays in the path.                                                   *)
After(sofar, name) ==
  IF name = <<>> \/ (name = Here /\ sofar # <<>>) THEN sofar
  ELSE IF name = Up /\ Len(sofar) > 1 THEN Front(sofar)
  ELSE Append(sofar, name)

Resolved(names) ==
  LET resolved[n \in 0 .. Len(names)] ==
        IF n = 0 THEN <<>> ELSE After(resolved[n - 1], names[n])
  IN  resolved[Len(names)]

(* No name is empty and no ".." follows another but for dots.              *)
IsPlain(names) ==
  LET moves == SelectSeq(names, LAMBDA name : name # Here)
  IN  \A n \in DOMAIN moves :
        /\ moves[n] # <<>>
        /\ n > 1 => ~(moves[n] = Up /\ moves[n - 1] = Up)

TypeOK ==
  /\ at \in {"dots", "ups", "trim", "done"}
  /\ At(path, 0) = "/" /\ Len(path) <= Len(given)

(* The result is where the names of the path lead to, one after the other, *)
(* for every path without an empty name and without ".." behind "..".      *)
(* Those are read otherwise: taking a name out leaves the slash before and *)
(* the slash behind it, and the next ".." takes out the empty name between *)
(* them.                                                                   *)
ResultIsResolved ==
  at = "done" /\ IsPlain(Names(given)) => RealNames(path) = Resolved(Names(given))

(* Whatever the path, nothing leaves the disk it begins with, and the      *)
(* names left are names given, in their order.                             *)
StaysOnDisk ==
  LET left == RealNames(path)
      all  == RealNames(given)
  IN  /\ all # <<>> => left # <<>> /\ left[1] = all[1]
      /\ at = "done" => \E kept \in SUBSET DOMAIN all :
            left = SelectSeq([n \in DOMAIN all |-> IF n \in kept THEN all[n] ELSE <<>>],
                             LAMBDA name : name # <<>>)

(* PerformPathString returns, except that the root is trimmed for ever:    *)
(* String::GetSubString takes the length 0 for all that is left.           *)
ReturnsUnlessRoot == <>(at = "done" \/ (at = "trim" /\ path = Slash))
=============================================================================
