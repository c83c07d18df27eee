----------------------------- MODULE ThreadTable -----------------------------
(***************************************************************************)
(* The table of threads of library/scheduler/scheduler.cxx: an array that  *)
(* AddThread lets grow and RemoveCurrentThread closes up, linked to a ring *)
(* by pointers into itself.  Scheduler has the switch itself, with a table *)
(* that does not change; here what RemoveCurrentThread and Run do is split *)
(* where the timer can cut in.                                             *)
(*                                                                         *)
(* A pointer is a pair of an array and an index: the array has a new place *)
(* each time it has grown, and the old one is given up.                    *)
(***************************************************************************)
EXTENDS Integers, Sequences

CONSTANTS
  Threads,         \* the threads there may be
  CountAllocate,   \* Scheduler::CountAllocate, 10
  Quantum          \* TICKS_COUNT_USER_PRIORITY, 100

Boot == "boot"

(* Grown by one place at a time a table of two threads would not strand:   *)
(* the first leads into the second array.  And a quantum is more than the  *)
(* ticks that can meet the windows in which the first thread, without      *)
(* running, is CurrentThread_: one for each place of its array.            *)
ThreadTableAssumption ==
  CountAllocate \in Nat \ {0, 1} /\ Quantum \in Nat /\ CountAllocate <= Quantum /\ Boot \notin Threads

(* The window from the call of SwitchThreadNext to its IRET is some twenty *)
(* instructions: the timer meets it at most once.                          *)
WindowTicks == 1

VARIABLES
  threads,      \* Threads_[0 .. ThreadsCount_ - 1], counted from 1
  allocated,    \* AllocatedThreadsCount_
  place,        \* where Threads_ points to; 0 before the first thread
  current,      \* CurrentThread_
  cpu,          \* the context that runs: whose it is, and whether it "runs", or
                \* is in SwitchThreadNext and "leaves" its thread or "loads" another
  met,          \* the ticks that have met the window open now
  astray        \* a pointer has been followed that leads out of the table

tableVars == <<threads, allocated, place>>
vars == <<tableVars, current, cpu, met, astray>>

Context(thread, at) == [of |-> thread, at |-> at]
Pointer(array, index) == [array |-> array, index |-> index]
ThreadsCount == Len(threads)
Present == {threads[n].thread : n \in 1 .. ThreadsCount}
Building == cpu = Context(Boot, "runs")

-----------------------------------------------------------------------------
(* What AddThread makes of the table once it lies at an array: the thread  *)
(* behind the last one, which now leads to it, and itself to the first.    *)
Linked(thread, array) ==
  [n \in 1 .. ThreadsCount + 1 |->
     IF n <= ThreadsCount
     THEN [threads[n] EXCEPT !.next = IF n = ThreadsCount THEN Pointer(array, ThreadsCount) ELSE @]
     ELSE [thread |-> thread, next |-> Pointer(array, 0),
           saved |-> Context(thread, "runs"), ticks |-> Quantum]]

HasRoom == ThreadsCount < allocated

(* Only the boot code adds threads.  Without memory the table stays as it  *)
(* is, and the caller is not told.                                         *)
AddThread(thread) ==
  /\ Building /\ thread \notin Present
  /\ \/ /\ HasRoom
        /\ threads' = Linked(thread, place)
        /\ UNCHANGED <<allocated, place>>
     \/ /\ ~HasRoom
        /\ place' = place + 1
        /\ allocated' = allocated + CountAllocate
        /\ threads' = Linked(thread, place')
     \/ ~HasRoom /\ UNCHANGED tableVars
  /\ UNCHANGED <<current, cpu, met, astray>>

(* The array given up still holds what it held, but Run maps only the new  *)
(* one in the directory of the kernel (scheduler.cxx:18), and with that    *)
(* directory SwitchThreadNext reads the thread it goes to.  Behind any     *)
(* other pointer is no page, or a page of the heap.                        *)
Lies(pointer) == pointer.array = place /\ pointer.index < ThreadsCount

Stray == astray' = TRUE /\ UNCHANGED <<tableVars, cpu, met>>

(* Schedule is the timer's handler from here on. *)
Run ==
  /\ Building
  /\ current' = Pointer(place, 0)
  /\ cpu' = Context(Boot, "leaves")
  /\ met' = 0
  /\ UNCHANGED <<tableVars, astray>>

CurrentEntry == threads[current.index + 1]
InWindow == cpu.at # "runs"

StayOnTick ==
  /\ CurrentEntry.ticks # 0
  /\ threads' = [threads EXCEPT ![current.index + 1].ticks = @ - 1]
  /\ UNCHANGED <<allocated, place, current, cpu, astray>>

(* The quantum is not given again. *)
Used_Mutant == [threads EXCEPT ![current.index + 1].saved = cpu]

(* What runs is saved as the context of CurrentThread_, whosever it is. *)
Used == [threads EXCEPT ![current.index + 1].saved = cpu, ![current.index + 1].ticks = Quantum]

SwitchOnTick ==
  /\ CurrentEntry.ticks = 0
  /\ threads' = Used
  /\ current' = CurrentEntry.next
  /\ IF Lies(current') THEN cpu' = threads'[current'.index + 1].saved /\ UNCHANGED astray
                       ELSE astray' = TRUE /\ UNCHANGED cpu
  /\ UNCHANGED <<allocated, place>>

Schedule ==
  /\ ~Building /\ ~astray
  /\ InWindow => met < WindowTicks
  /\ \/ /\ Lies(current)
        /\ met' = IF InWindow THEN met + 1 ELSE 0
        /\ StayOnTick \/ SwitchOnTick
     \/ ~Lies(current) /\ Stray /\ UNCHANGED current

-----------------------------------------------------------------------------
(* SwitchThreadNext: up to its write of CurrentThread_ ... *)
Leave ==
  /\ cpu.at = "leaves" /\ ~astray
  /\ \/ /\ Lies(current) /\ Lies(CurrentEntry.next)
        /\ current' = CurrentEntry.next
        /\ cpu' = [cpu EXCEPT !.at = "loads"]
        /\ UNCHANGED <<tableVars, met, astray>>
     \/ ~(Lies(current) /\ Lies(CurrentEntry.next)) /\ Stray /\ UNCHANGED current

(* ... and up to its IRET.  What was in the processor is not saved. *)
Load ==
  /\ cpu.at = "loads" /\ ~astray
  /\ cpu' = CurrentEntry.saved
  /\ met' = 0
  /\ UNCHANGED <<tableVars, current, astray>>

SwitchThreadNext == Leave \/ Load

(* The last thread leads to the first. *)
Closed(table) == [table EXCEPT ![Len(table)].next = Pointer(place, 0)]

(* Those behind move up by one and are linked anew. *)
Without(index) ==
  Closed([n \in 1 .. ThreadsCount - 1 |->
            IF n < index THEN threads[n]
            ELSE [threads[n + 1] EXCEPT !.next = Pointer(place, n)]])

(* The first thread is not removable. *)
MayRemove == current.index > 0

(* Interrupts are on again before SwitchThreadNext is called, while         *)
(* CurrentThread_ is already the first thread.                             *)
RemoveCurrentThread ==
  /\ cpu.at = "runs" /\ ~Building /\ ~astray /\ MayRemove
  /\ threads' = Without(current.index + 1)
  /\ current' = Pointer(place, 0)
  /\ cpu' = Context(cpu.of, "leaves")
  /\ met' = 0
  /\ UNCHANGED <<allocated, place, astray>>

-----------------------------------------------------------------------------
Init ==
  /\ threads = <<>> /\ allocated = 0 /\ place = 0
  /\ current = Pointer(0, 0) /\ cpu = Context(Boot, "runs")
  /\ met = 0 /\ astray = FALSE

Next ==
  \/ \E thread \in Threads : AddThread(thread)
  \/ Run \/ Schedule \/ SwitchThreadNext \/ RemoveCurrentThread

Spec == Init /\ [][Next]_vars

(* The timer goes on, and what is called returns. *)
FairSpec == Spec /\ WF_vars(Schedule) /\ WF_vars(SwitchThreadNext)

-----------------------------------------------------------------------------
TypeOK ==
  /\ ThreadsCount <= allocated
  /\ \A n \in 1 .. ThreadsCount :
       threads[n].next.index \in 0 .. allocated /\ threads[n].ticks \in 0 .. Quantum
  /\ cpu.of \in Threads \cup {Boot} /\ cpu.at \in {"runs", "leaves", "loads"}
  /\ met \in 0 .. WindowTicks

(* As long as the table has not grown a second time it is a ring of all    *)
(* its threads, whatever was added and removed, and CurrentThread_ points  *)
(* into it.                                                                *)
RingIsWhole == place < 2 =>
  /\ \A n \in 1 .. ThreadsCount :
       threads[n].next = Pointer(place, IF n = ThreadsCount THEN 0 ELSE n)
  /\ ~Building /\ ThreadsCount > 0 => Lies(current) /\ ~astray

(* Once it has, the threads added before, all but the last of them, still  *)
(* lead into the array given up: the first switch follows such a pointer,  *)
(* to where the kernel's directory does not map the table, and no thread   *)
(* is ever run.                                                            *)
GrownTableStrands ==
  /\ place > 1 => cpu.of = Boot /\ cpu.at # "loads"
  /\ cpu.of = Boot => \A n \in 1 .. ThreadsCount - 1 :
       threads[n].next = Pointer((n \div CountAllocate) + 1, n)

(* A thread's saved context is its own, and who runs is CurrentThread_'s   *)
(* thread: a tick in the window of a removed thread finds ticks left to    *)
(* the thread CurrentThread_ already points to, and saves nothing there.   *)
ContextsAreOwn ==
  /\ \A n \in 1 .. ThreadsCount : threads[n].saved = Context(threads[n].thread, "runs")
  /\ cpu.of # Boot /\ ~InWindow => CurrentEntry.thread = cpu.of

(* A thread in the ring runs again and again, even while others are        *)
(* removed.                                                                *)
RingTurns == \A thread \in Threads :
  [](cpu.of # Boot /\ thread \in Present =>
       <>(cpu = Context(thread, "runs") \/ thread \notin Present))
=============================================================================
