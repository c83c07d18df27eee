-------------------------------- MODULE Shell --------------------------------
(***************************************************************************)
(* The shell (usermode/programs/shell-tty) at work on the file system      *)
(* calls: which calls a command makes, in which order, and which of the    *)
(* buffers it has been given it gives back.  The model stops when memory   *)
(* that is not the request's has been written or an address that means     *)
(* nothing has been used: from then on nothing holds.                      *)
(***************************************************************************)
EXTENDS FileService

CONSTANT
  MaxCommands   \* a bound on the commands typed

ASSUME CommandsAssumption == MaxCommands \in Nat

VARIABLES
  command,   \* the command being executed
  lines,     \* how many have been typed
  turn,      \* the part of it reached
  text       \* currentPath: the copy of the path it works with

shellVars == <<command, lines, turn, text>>
vars == <<fileVars, shellVars>>

Prompt == "#"
Served == request.step = "idle"
Sound == wild = "no" /\ stray = {}

Continue(part) == turn' = part /\ UNCHANGED <<command, lines>>

(* Nothing outlasts a command in the registers. *)
Finish == command' = Prompt /\ turn' = "typed" /\ answer' = "0" /\ UNCHANGED lines

-----------------------------------------------------------------------------
(* A line that begins with the name of a command that uses memory; the     *)
(* others leave everything here as it is.                                  *)
Type ==
  /\ command = Prompt /\ lines < MaxCommands /\ lines' = lines + 1
  /\ command' \in {"path", "cd", "ls", "info", "txtread", "vmtest"}
  /\ turn' = "typed"
  /\ UNCHANGED <<fileVars, text>>

(* GetCurrentPath: the call and a copy of what it returns, of a page; the  *)
(* 0x2000 bytes of vmtest are three.                                       *)
GetCurrentPath ==
  /\ command \in {"path", "ls", "vmtest"} /\ turn = "typed"
  /\ LET buffer == Allocated(IF command = "vmtest" THEN 3 ELSE 1)
     IN  IF buffer = WrongIndex THEN Stop("memory") /\ UNCHANGED shellVars
         ELSE /\ text' = buffer /\ owner' = Give(owner, PagesOf(buffer), "text")
              /\ Continue(IF command = "ls" THEN "open" ELSE "free")
              /\ UNCHANGED <<path, request, answer, given, histories, wild>>

Call(service, part) ==
  /\ Begin(service) /\ Continue(part) /\ UNCHANGED text

SetCurrentPath == command = "cd" /\ turn = "typed" /\ Call("SetPath", "called")
GetObjectInformation ==
  command = "info" /\ turn = "typed" /\ Call("Describe", "called")
ReadTextFile ==
  command = "txtread" /\ turn = "typed" /\ Call("ReadFile", "called")
CreateDirectoryIterator ==
  command = "ls" /\ turn = "open" /\ Call("OpenDirectory", "listing")

(* The objects are printed until a call finds no other. *)
GetNextObject ==
  /\ command = "ls" /\ turn = "listing" /\ Served
  /\ answer = "1" /\ Call("NextObject", "listing")

EndListing ==
  /\ command = "ls" /\ turn = "listing" /\ Served
  /\ answer = "0" /\ Continue("free") /\ UNCHANGED <<fileVars, text>>

(* delete[] currentPath, or Memory::Free of vmtest's buffer. *)
FreeText ==
  /\ turn = "free" /\ owner' = Give(owner, PagesOf(text), "free")
  /\ text' = NoBuffer /\ Finish
  /\ UNCHANGED <<path, request, given, histories, wild>>

(* What txtread and hexread give back when they have printed the file. *)
Returned_Mutant == IF given = NoBuffer THEN {} ELSE PagesOf(<<given[1]>>)
Returned == PagesOf(given)

EndCommand ==
  /\ command \in {"cd", "info", "txtread"} /\ turn = "called" /\ Served
  /\ owner' = Give(owner, Returned, "free") /\ given' = NoBuffer
  /\ Finish
  /\ UNCHANGED <<path, request, histories, wild, text>>

Init == FileInit /\ lines = 0 /\ command = Prompt /\ turn = "typed" /\ text = NoBuffer

Command ==
  \/ GetCurrentPath \/ SetCurrentPath \/ GetObjectInformation \/ ReadTextFile
  \/ CreateDirectoryIterator \/ GetNextObject \/ EndListing \/ FreeText \/ EndCommand

Next == Sound /\ (Type \/ Command \/ (Serve /\ UNCHANGED shellVars))
Spec == Init /\ [][Next]_vars

-----------------------------------------------------------------------------
TypeOK ==
  /\ owner \in [Frames -> Owners] /\ stray \subseteq Owners /\ unread \subseteq Frames
  /\ Len(path) \in 1 .. 2 /\ Len(text) <= 3 /\ Len(request.buffer) <= MaxPages
  /\ request.service \in Services \cup {"none"} /\ request.written \in 0 .. MaxPages + 1
  /\ refused \in 0 .. LastFrame /\ forgotten \in 0 .. MaxForgotten + 1
  /\ lines \in 0 .. MaxCommands /\ wild \in {"no", "letter", "memory"}
  /\ turn \in {"typed", "called", "open", "listing", "free"}

(* No String, list or copy is made while the one before, of the same name, *)
(* is still there, which would be lost with it (kernel.cxx:518-552).       *)
NothingIsLostSight ==
  \A object \in InHand : \A f, g \in UsedFor(object) : f = g

(* At the prompt memory holds the thread's path and nothing else but what  *)
(* has been lost for good: one frame for each GetSubString and each Erase  *)
(* (string.cxx:109-127) and for each pathParts = Split (list.hxx:103), a   *)
(* device's copy for each channel's refused (kernel.cxx:489), and the      *)
(* buffers of files that could not be read (kernel.cxx:460).               *)
NothingElseIsKept == Sound /\ command = Prompt =>
  /\ \A object \in InHand \cup {"text"} : UsedFor(object) = {}
  /\ UsedFor("path") = PagesOf(path) /\ UsedFor("elsewhere") \in Elsewhere
  /\ Cardinality(UsedFor("lost")) = forgotten
  /\ Cardinality(UsedFor("kept")) = refused
  /\ UsedFor("file") = unread

(* A file is written through the physical address of its buffer's first    *)
(* page (kernel.cxx:446), but a page has a frame of slack behind it.  So   *)
(* no page but the first is where the program will look for it, and other  *)
(* memory is written over exactly when a page that the file reaches is not *)
(* right behind the one before.                                            *)
FilesAreMisplaced ==
  LET buffer == request.buffer
  IN  /\ \A n \in 2 .. Len(buffer) : buffer[n] # buffer[1] + n - 1
      /\ request.step = "release" =>
           (stray # {} <=> \E n \in 2 .. Len(buffer) :
              buffer[n] # buffer[1] + 2 * (n - 1) /\ 2 * (n - 1) < request.written)

(* Only the reading of a file uses a letter that no device has.            *)
OthersKeepToTheTable == wild = "letter" => command = "txtread"
=============================================================================
