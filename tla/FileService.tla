---------------------------- MODULE FileService ----------------------------
(***************************************************************************)
(* The file system calls of kernel.cxx and the memory they go through: the *)
(* strings and lists the path is made of, the copies of a device and its   *)
(* channel, and the pages a file is read into.  From its first step to its *)
(* last a request has the processor: task switching is off whenever        *)
(* interrupts are on (UserModeCalls), so the steps are those between which *)
(* another outcome is possible.                                            *)
(*                                                                         *)
(* Memory is a row of frames, given out lowest first.  A string, a list or *)
(* a copy takes one frame.  A page takes two, one beside the other:        *)
(* AllocateVirtualMemory asks for FrameSize bytes and AlignUp makes them   *)
(* two frames, of which the page table maps the first.  Page tables are    *)
(* left out, and what a path says is PathString's subject.                 *)
(***************************************************************************)
EXTENDS Integers, Sequences, FiniteSets

CONSTANTS
  LastFrame,   \* the frames are 1 .. LastFrame
  MaxPages,    \* of a file, which has at least one
  Elsewhere,   \* the sets of frames others may be keeping: the kernel, programs
  MaxForgotten \* a bound: after as many no path is shortened or looked up

ASSUME FramesAssumption ==
  /\ LastFrame \in Nat /\ LastFrame >= 4
  /\ MaxPages \in Nat \ {0} /\ MaxForgotten \in Nat
  /\ Elsewhere \subseteq SUBSET (5 .. LastFrame)

VARIABLES
  owner,      \* owner[f]: what the frame is used for
  path,       \* CurrentPathStringVirtualAddress: a buffer
  request,    \* the call being served
  answer,     \* AccumulatorRegister: "0", "1", or "buffer"
  given,      \* the buffer it is the address of
  refused,    \* history: how often a channel's copy has been refused
  forgotten,  \* history: how often a string or a list has been left behind
  unread,     \* history: the frames of files that could not be read
  stray,      \* history: the owners of frames written by mistake
  wild        \* history: why an address that means nothing has been used

fileVars == <<owner, path, request, answer, given, refused, forgotten, unread, stray, wild>>
histories == <<refused, forgotten, unread, stray>>

(* What a call holds while it is served, and what outlasts it.             *)
Frames  == 1 .. LastFrame
InHand  == {"string", "full", "temp", "new", "parts",          \* PerformPathString
            "device", "channel", "object", "names", "part"}    \* and LiteFS
Lasting == {"free", "elsewhere", "path", "file", "text", "kept", "lost"}
Owners  == InHand \cup Lasting
Services == {"SetPath", "OpenDirectory", "NextObject", "Describe", "ReadFile"}

NoBuffer == <<>>
WrongIndex == <<0>>   \* what AllocateVirtualMemory returns when memory is out

NoRequest ==
  [service |-> "none", step |-> "idle", found |-> "nothing", buffer |-> NoBuffer, written |-> 0]

-----------------------------------------------------------------------------
(* The kernel's new and delete, with paging off.                           *)
Uses(o, use) == {f \in Frames : o[f] = use}
UsedFor(use) == Uses(owner, use)
Free == UsedFor("free")
Lowest(frames) == CHOOSE f \in frames : \A g \in frames : f <= g
Give(o, frames, use) == [f \in Frames |-> IF f \in frames THEN use ELSE o[f]]

Has(o, use) == Uses(o, use) # {}
New(o, use) ==
  IF Has(o, "free") THEN Give(o, {Lowest(Uses(o, "free"))}, use) ELSE o
Rename(o, use, other) == Give(o, Uses(o, use), other)
Delete(o, use) == Rename(o, use, "free")
DeleteAll(o, uses) == [f \in Frames |-> IF o[f] \in uses THEN "free" ELSE o[f]]

(* AllocateVirtualMemory, page by page. *)
FramesOf(buffer) == UNION {{buffer[n], buffer[n] + 1} : n \in DOMAIN buffer}
PagesOf(buffer) == FramesOf(buffer) \cap Frames
Pairs(frames) == {f \in frames : f + 1 \in frames}

(* One page more, the lowest there is: Taken. *)
OneMore(buffer) ==
  LET pairs == Pairs(Free \ FramesOf(buffer))
  IN  IF buffer = WrongIndex \/ pairs = {} THEN WrongIndex ELSE Append(buffer, Lowest(pairs))

Allocated(pages) ==
  LET taken[n \in 0 .. pages] == IF n = 0 THEN NoBuffer ELSE OneMore(taken[n - 1])
  IN  taken[pages]

-----------------------------------------------------------------------------
(* String and List.  += and = put a new block in the place of the old; if  *)
(* there is none to be had, they do nothing.                               *)
Replace(o, x) ==
  LET n == New(o, "new") IN IF Has(n, "new") THEN Rename(Delete(n, x), "new", x) ELSE o

(* += "/", or the rest of a string: a String is made of it first. *)
AppendText(o, x) ==
  LET t == New(o, "temp")
  IN  IF Has(t, "temp") /\ Has(t, x) THEN Delete(Replace(t, x), "temp") ELSE Delete(t, "temp")

(* GetSubString makes a String of resStr and never deletes resStr. *)
SubString(o, x) == New(New(o, "lost"), x)

(* x = Split("/") for a list that is not there yet. *)
SplitInto(o, x) == Delete(New(New(o, "temp"), x), "temp")

(* How many blocks it takes before a missing one is read or written at     *)
(* address 0: the String it is called for and "/"; resStr; the String      *)
(* erased from, resStr, and the one returned; "/" and both lists.          *)
Needs == [Split |-> 1, SubString |-> 1, Erase |-> 3, SplitAgain |-> 3]
Short(o, operation) == Cardinality(Uses(o, "free")) < Needs[operation]

-----------------------------------------------------------------------------
Goto(step) == request' = [request EXCEPT !.step = step]
Resolving  == request.step \in {"parts", "slashes"}
TakesPath(service) == service # "NextObject"
Stop(reason) ==
  /\ wild' = reason
  /\ UNCHANGED <<owner, path, request, answer, given, histories>>

(* PerformPathString up to its first Split; the path may be relative. *)
Absolute == New(owner, "string")
Relative ==
  LET full == AppendText(New(Absolute, "full"), "full")
  IN  Delete(Replace(Replace(full, "full"), "string"), "full")

Begin(service) ==
  /\ request.step = "idle"
  /\ \E whole \in {Absolute, Relative} :
       IF TakesPath(service) /\ (~Has(whole, "string") \/ Short(whole, "Split"))
       THEN Stop("memory")
       ELSE /\ owner' = IF TakesPath(service) THEN SplitInto(whole, "parts") ELSE owner
            /\ request' = [NoRequest EXCEPT !.service = service, !.step = "parts"]
            /\ UNCHANGED <<path, answer, given, histories, wild>>

(* GetSubString takes a "." off the end. *)
Cut == Delete(Replace(SubString(owner, "full"), "string"), "full")

(* Erase takes a "." or ".." out; it works on a copy of the string. *)
Erased ==
  LET rest == Delete(SubString(New(owner, "temp"), "full"), "temp")
  IN  Delete(Replace(AppendText(rest, "full"), "string"), "full")

Shorten(operation, shortened, step) ==
  IF Short(owner, operation) THEN Stop("memory")
  ELSE /\ forgotten < MaxForgotten /\ forgotten' = forgotten + 1
       /\ owner' = shortened /\ Goto(step)
       /\ UNCHANGED <<path, answer, given, refused, unread, stray, wild>>

TakeName ==
  /\ request.step = "parts" /\ Has(owner, "parts")
  /\ Shorten("SubString", Cut, "split") \/ Shorten("Erase", Erased, "split")

(* pathParts = Split: the assignment of a List forgets the old elements. *)
Split == Rename(New(New(owner, "temp"), "full"), "parts", "lost")

SplitAgain ==
  /\ request.step = "split"
  /\ IF Short(owner, "SplitAgain") THEN Stop("memory")
     ELSE /\ owner' = DeleteAll(New(Split, "parts"), {"temp", "full"})
          /\ forgotten' = forgotten + 1 /\ Goto("parts")
          /\ UNCHANGED <<path, answer, given, refused, unread, stray, wild>>

(* A slash at the end; the root is one that cannot be taken off for good. *)
TakeSlash == Resolving /\ Has(owner, "string") /\ Shorten("SubString", Cut, "slashes")

-----------------------------------------------------------------------------
(* What a letter is to the table of devices: one of it, one between the    *)
(* devices and the end of the table, or one behind that, for which         *)
(* GetIndexByLetter's test, which nothing can fail, lets every byte pass.  *)
Letters == {"device", "unused", "outside"}

(* ReadFile does not compare the index with the count of devices. *)
IsChecked(service) == service # "ReadFile"

Resolved == Delete(owner, "parts")
ReturnNothing(o) == owner' = Delete(o, "string") /\ request' = NoRequest /\ answer' = "0"

(* The letter is refused, or its entry in the table is no device; behind   *)
(* the table anything may look like one.                                   *)
RefuseLetter ==
  /\ Resolving /\ \E letter \in Letters : letter # "device"
  /\ ReturnNothing(Resolved)
  /\ UNCHANGED <<path, given, histories, wild>>

CopyDevice == Resolving /\ \E letter \in Letters :
  /\ letter = "device" \/ (letter = "outside" /\ ~IsChecked(request.service))
  /\ wild' = IF letter = "outside" THEN "letter" ELSE "no"
  /\ IF ~Has(Resolved, "free") THEN ReturnNothing(Resolved)
     ELSE /\ owner' = New(Resolved, "device")
          /\ request' = [request EXCEPT !.step = "channel"]
          /\ UNCHANGED answer
  /\ UNCHANGED <<path, given, histories>>

(* When the second block is refused the first is not released: the         *)
(* StorageDevice that would name it is still unknown.                      *)
CopyChannel ==
  /\ request.step = "channel"
  /\ IF ~Has(owner, "free")
     THEN refused' = refused + 1 /\ ReturnNothing(Rename(owner, "device", "kept"))
     ELSE owner' = New(owner, "channel") /\ Goto("look_up") /\ UNCHANGED <<answer, refused>>
  /\ UNCHANGED <<path, given, forgotten, unread, stray, wild>>

-----------------------------------------------------------------------------
(* What LiteFS does of a look-up with memory: a String of the path, its    *)
(* parts, a GetSubString for each partition and each name compared.  For   *)
(* an iterator's next object it does none of it.  An empty path is not     *)
(* searched for "/", so that only then it does no harm to have no block.   *)
(* ReadFile looks the same path up twice; the second time it wants a name. *)
LookedUp == DeleteAll(owner, {"object", "names", "part"})

StartLookUp ==
  /\ request.step = "look_up" /\ TakesPath(request.service)
  /\ LET object == New(owner, "object")
     IN  \/ (~Has(object, "object") \/ Short(object, "Split")) /\ Stop("memory")
         \/ /\ Has(object, "object")
            /\ owner' = SplitInto(object, "names") /\ Goto("partitions")
            /\ UNCHANGED <<path, answer, given, histories, wild>>

Compares == Has(owner, "names") /\ request.found \in {"nothing", "names"}

ComparePartition ==
  /\ request.step \in {"partitions", "compared"} /\ Compares
  /\ Shorten("SubString", New(owner, "lost"), "compared")

CompareName ==
  /\ request.step \in {"compared", "names"} /\ Compares
  /\ Shorten("SubString", Delete(Replace(SubString(owner, "temp"), "part"), "temp"), "names")

(* The object is not there, not of the kind wanted, or cannot be read. *)
FailLookUp ==
  /\ request.step \in {"look_up", "partitions", "compared", "names"}
  /\ owner' = LookedUp /\ answer' = "0" /\ Goto("release")
  /\ unread' = unread \cup PagesOf(request.buffer)
  /\ UNCHANGED <<path, given, refused, forgotten, stray, wild>>

EndLookUp ==
  /\ \/ request.step \in {"partitions", "compared", "names"}
     \/ request.step = "look_up" /\ ~TakesPath(request.service)
  /\ request.buffer = NoBuffer
  /\ owner' = LookedUp
  /\ IF request.service \in {"SetPath", "ReadFile"}
     THEN /\ request' = [request EXCEPT !.step = "allocate", !.found = request.step]
          /\ UNCHANGED answer
     ELSE Goto("release") /\ answer' = "1"
  /\ UNCHANGED <<path, given, histories, wild>>

-----------------------------------------------------------------------------
(* When a page is refused AllocateVirtualMemory gives the page tables back *)
(* that the program runs with, and WRONG_INDEX, which is taken for a       *)
(* buffer: it is looked for in vain as 0.                                  *)
ChangePath ==
  /\ request.step = "allocate" /\ request.service = "SetPath"
  /\ IF Allocated(1) = WrongIndex THEN Stop("memory")
     ELSE /\ path' = Allocated(1)
          /\ owner' = Give(Delete(owner, "path"), PagesOf(path'), "path")
          /\ answer' = "1" /\ Goto("release")
          /\ UNCHANGED <<given, histories, wild>>

(* The file is looked up again to be read. *)
AllocateFile ==
  /\ request.step = "allocate" /\ request.service = "ReadFile"
  /\ \E pages \in 1 .. MaxPages :
       IF Allocated(pages) = WrongIndex THEN Stop("memory")
       ELSE /\ owner' = Give(owner, PagesOf(Allocated(pages)), "file")
            /\ request' = [request EXCEPT !.step = "look_up", !.buffer = Allocated(pages)]
            /\ UNCHANGED <<path, answer, given, histories, wild>>

(* The file is written from the physical address of the first page on, a   *)
(* whole number of LiteFS's chunks: the last one may pass a frame's end.   *)
Written_Mutant(buffer, count) == buffer[1] .. buffer[1] + count
Written(buffer, count) == buffer[1] .. buffer[1] + count - 1

(* Frames written that are not the buffer's. *)
Missed(buffer, count) == (Written(buffer, count) \cap Frames) \ PagesOf(buffer)

ReadFile ==
  /\ request.step = "names" /\ request.buffer # NoBuffer
  /\ \E count \in 0 .. Len(request.buffer) + 1 :
       /\ request' = [request EXCEPT !.step = "release", !.written = count]
       /\ stray' = {owner[f] : f \in Missed(request.buffer, count)}
  /\ owner' = LookedUp
  /\ \/ answer' = "buffer" /\ given' = request.buffer /\ UNCHANGED unread
     \/ answer' = "0" /\ unread' = unread \cup PagesOf(request.buffer) /\ UNCHANGED given
  /\ UNCHANGED <<path, refused, forgotten, wild>>

(* FreePhysicalStorageDevice, and pathString is destroyed. *)
Released == {"device", "channel", "string"}

Release ==
  /\ request.step = "release"
  /\ owner' = DeleteAll(owner, Released) /\ request' = NoRequest
  /\ UNCHANGED <<path, answer, given, histories, wild>>

Serve ==
  \/ TakeName \/ SplitAgain \/ TakeSlash \/ RefuseLetter \/ CopyDevice \/ CopyChannel
  \/ StartLookUp \/ ComparePartition \/ CompareName \/ FailLookUp \/ EndLookUp
  \/ ChangePath \/ AllocateFile \/ ReadFile \/ Release

(* The thread starts with a path of its own, of MaxPathLength bytes, which *)
(* AlignUp makes two pages.                                                *)
FileInit ==
  /\ path = <<1, 3>>
  /\ \E others \in Elsewhere : owner =
       [f \in Frames |-> IF f \in 1 .. 4 THEN "path" ELSE IF f \in others THEN "elsewhere" ELSE "free"]
  /\ request = NoRequest /\ answer = "0" /\ given = NoBuffer
  /\ refused = 0 /\ forgotten = 0 /\ unread = {}
  /\ stray = {} /\ wild = "no"
=============================================================================
