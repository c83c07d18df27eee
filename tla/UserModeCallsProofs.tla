------------------------- MODULE UserModeCallsProofs -------------------------
(***************************************************************************)
(* Theorems about Tasks: about UserModeCalls, for any number of threads    *)
(* and any quantum length, and about the table of ThreadTable, for any     *)
(* threads and any growth.  Of the inductive invariants the first tells,   *)
(* place by place, how the three switches that guard a call stand:         *)
(* interrupts, task switching, paging; the second how many ticks each      *)
(* thread has had; the third where each thread of the table leads to.      *)
(***************************************************************************)
EXTENDS Tasks, Sequences, TLAPS

(* Where the execution stands determines how the switches stand. *)
SwitchesByPlace ==
  /\ cpu.at \in {"boot", "user"} => cpu.interrupts /\ taskSwitchingEnabled /\ paging
  /\ cpu.at = "dispatch" => ~cpu.interrupts /\ taskSwitchingEnabled /\ ~paging
  /\ cpu.at \in {"guarded", "closing"} => ~cpu.interrupts /\ ~taskSwitchingEnabled /\ ~paging
  /\ cpu.at = "window" => cpu.interrupts /\ ~taskSwitchingEnabled /\ ~paging

(* The boot code owns the processor until the first switch, and the ticks  *)
(* it meets cannot use up the quantum of Threads_[0].                      *)
BootInv ==
  cpu.at = "boot" =>
    /\ ticksCount <= BootTicks
    /\ ticksBefore[currentThread] = Quantum - ticksCount

OwnersInv ==
  /\ \A t \in Thread : saved[t] = NewContext(t)
  /\ cpu.at # "boot" => cpu.thread = currentThread /\ directory = currentThread
  /\ ~paging => virtualStack = cpu.thread

IInv == TypeOK /\ SwitchesByPlace /\ BootInv /\ OwnersInv

Machine == [thread : Thread \cup {Boot}, at : Places, interrupts : BOOLEAN]

LEMMA Constants ==
  /\ Threads \in Nat \ {0} /\ Quantum \in Nat /\ BootTicks \in 0 .. Quantum
  /\ BootTicks < Word /\ Word \in Nat \ {0} /\ MaxKeys \in Nat \ {0}
  /\ Callers \subseteq Thread
BY SchedulerAssumption, WordAssumption, CallerAssumption

LEMMA RingInThread == \A t \in Thread : NextOf(t) \in Thread
BY Constants DEF Thread, NextOf

LEMMA NewContextIsMachine == \A t \in Thread : NewContext(t) \in Machine
BY DEF NewContext, Context, Machine, Places

LEMMA TicksStayInWord ==
  ASSUME NEW n \in SizeT
  PROVE  /\ (n + 1) % Word \in SizeT
         /\ n + 1 < Word => (n + 1) % Word = n + 1
BY Constants DEF SizeT

LEMMA InitInv == Init => IInv
<1> SUFFICES ASSUME Init PROVE IInv
  OBVIOUS
<1> USE Constants DEF Init, SchedulerInit
<1>1. 0 \in Thread /\ 0 \in SizeT
  BY DEF Thread, SizeT
<1>2. cpu \in Machine /\ cpu.at = "boot" /\ cpu.interrupts
  BY DEF Context, Machine, Places
<1>3. saved \in [Thread -> Machine]
  BY NewContextIsMachine
<1>4. TypeOK
  <2>1. ticksBefore \in [Thread -> 0 .. Quantum] /\ workedTicks \in [Thread -> SizeT]
    BY <1>1
  <2>2. ticksCount \in SizeT /\ keys \in 0 .. MaxKeys /\ request = NoRequest
    BY <1>1
  <2>3. cpu \in Machine /\ paging = TRUE /\ taskSwitchingEnabled = TRUE
        /\ directory = Boot /\ virtualStack = Boot /\ currentThread = 0
    BY <1>2
  <2> HIDE DEF Init, SchedulerInit
  <2>4. QED
    BY <1>1, <1>3, <2>1, <2>2, <2>3 DEF TypeOK, Machine
<1>5. SwitchesByPlace
  BY <1>2 DEF SwitchesByPlace
<1>6. BootInv
  BY <1>1 DEF BootInv
<1>7. OwnersInv
  BY <1>2 DEF OwnersInv
<1>8. QED
  BY <1>4, <1>5, <1>6, <1>7 DEF IInv

(* A tick: either a switch from user code to user code, or no switch. *)
LEMMA ScheduleInv ==
  ASSUME IInv, Schedule, UNCHANGED callVars
  PROVE  IInv'
<1> USE Constants DEF IInv
<1>1. currentThread \in Thread /\ saved \in [Thread -> Machine] /\ cpu \in Machine
      /\ ticksBefore \in [Thread -> 0 .. Quantum] /\ workedTicks \in [Thread -> SizeT]
      /\ ticksCount \in SizeT
  BY DEF TypeOK, Machine
<1>2. ticksCount' \in SizeT /\ (cpu.at = "boot" => ticksCount' = ticksCount + 1)
  BY <1>1, TicksStayInWord DEF Schedule, SizeT
<1>3. UNCHANGED <<paging, taskSwitchingEnabled, request, virtualStack, keys>>
  BY DEF Schedule, callVars
<1>4. CASE ~MayAccount
  <2>1. UNCHANGED <<cpu, threadVars>>
    BY <1>4 DEF Schedule
  <2>2. cpu.at # "boot"
    BY <1>4 DEF MayAccount, SwitchesByPlace
  <2>3. TypeOK'
    BY <1>2, <1>3, <2>1 DEF TypeOK, threadVars
  <2>4. SwitchesByPlace' /\ BootInv' /\ OwnersInv'
    BY <1>3, <2>1, <2>2 DEF SwitchesByPlace, BootInv, OwnersInv, threadVars
  <2>5. QED
    BY <2>3, <2>4
<1>5. CASE MayAccount
  <2>1. cpu.at \in {"boot", "user"} /\ cpu.interrupts /\ taskSwitchingEnabled /\ paging
    BY <1>5 DEF MayAccount, Schedule, SwitchesByPlace, TypeOK, Places
  <2>2. workedTicks' \in [Thread -> SizeT]
    BY <1>1, <1>5, TicksStayInWord DEF Schedule
  <2>3. CASE SwitchOnTick
    <3>1. cpu.at = "user"
      BY <1>1, <2>1, <2>3 DEF SwitchOnTick, BootInv, Schedule, SizeT
    <3>2. cpu = NewContext(currentThread)
      BY <1>1, <2>1, <3>1 DEF OwnersInv, Machine, NewContext, Context
    <3>3. saved' \in [Thread -> Machine] /\ \A t \in Thread : saved'[t] = NewContext(t)
      BY <1>1, <2>3, <3>2 DEF SwitchOnTick, OwnersInv
    <3>4. currentThread' \in Thread /\ directory' = currentThread' /\ cpu' = NewContext(currentThread')
      BY <1>1, <2>3, <3>3, RingInThread DEF SwitchOnTick, Resume
    <3>5. cpu' \in Machine /\ cpu'.at = "user" /\ cpu'.interrupts /\ cpu'.thread = currentThread'
      BY <3>4, NewContextIsMachine DEF NewContext, Context
    <3>6. ticksBefore' \in [Thread -> 0 .. Quantum]
      BY <1>1, <2>3 DEF SwitchOnTick
    <3>7. TypeOK'
      BY <1>2, <1>3, <2>2, <3>3, <3>4, <3>5, <3>6 DEF TypeOK, Machine
    <3>8. SwitchesByPlace' /\ BootInv' /\ OwnersInv'
      BY <1>3, <2>1, <3>3, <3>4, <3>5 DEF SwitchesByPlace, BootInv, OwnersInv
    <3>9. QED
      BY <3>7, <3>8
  <2>4. CASE StayOnTick
    <3>1. UNCHANGED <<currentThread, directory, saved, cpu>>
      BY <2>4 DEF StayOnTick
    <3>2. ticksBefore' \in [Thread -> 0 .. Quantum]
          /\ ticksBefore'[currentThread] = ticksBefore[currentThread] - 1
      BY <1>1, <2>4 DEF StayOnTick
    <3>3. TypeOK'
      BY <1>2, <1>3, <2>2, <3>1, <3>2 DEF TypeOK
    <3>4. SwitchesByPlace' /\ OwnersInv'
      BY <1>3, <3>1 DEF SwitchesByPlace, OwnersInv
    <3>5. cpu.at = "boot" => ticksCount < BootTicks
      BY DEF Schedule
    <3>6. BootInv'
      BY <1>1, <1>2, <3>1, <3>2, <3>5 DEF BootInv, SizeT
    <3>7. QED
      BY <3>3, <3>4, <3>6
  <2>5. QED
    BY <1>5, <2>3, <2>4 DEF Schedule
<1>6. QED
  BY <1>4, <1>5

LEMMA StartInv ==
  ASSUME IInv, Start
  PROVE  IInv'
<1> USE Constants DEF IInv, Start
<1>1. currentThread' \in Thread /\ directory' = currentThread' /\ cpu' = NewContext(currentThread')
  BY RingInThread DEF SwitchThreadNext, Resume, OwnersInv, TypeOK
<1>2. cpu' \in Machine /\ cpu'.at = "user" /\ cpu'.interrupts /\ cpu'.thread = currentThread'
  BY <1>1, NewContextIsMachine DEF NewContext, Context
<1>3. UNCHANGED <<paging, saved, ticksBefore, workedTicks, ticksCount, taskSwitchingEnabled,
                  request, virtualStack, keys>>
  BY DEF SwitchThreadNext, callVars
<1>4. TypeOK'
  BY <1>1, <1>2, <1>3 DEF TypeOK, Machine
<1>5. taskSwitchingEnabled /\ paging
  BY DEF SwitchThreadNext, SwitchesByPlace
<1>6. SwitchesByPlace' /\ BootInv' /\ OwnersInv'
  BY <1>1, <1>2, <1>3, <1>5 DEF SwitchesByPlace, BootInv, OwnersInv
<1>7. QED
  BY <1>4, <1>6

(* Steps that leave the threads and the clock alone and move the running   *)
(* thread to another place.                                                *)
LEMMA MoveInv ==
  ASSUME IInv, UNCHANGED <<threadVars, ticksCount>>, cpu.at # "boot",
         cpu' \in Machine, cpu'.thread = cpu.thread, cpu'.at # "boot",
         SwitchesByPlace',
         paging' \in BOOLEAN, taskSwitchingEnabled' \in BOOLEAN, keys' \in 0 .. MaxKeys,
         request' \in Requests \cup {NoRequest} \cup [service : {"keyboard", "filesystem"}, windows : 0 .. 2],
         virtualStack' \in Thread \cup {Boot},
         ~paging' => virtualStack' = cpu.thread
  PROVE  IInv'
<1>1. TypeOK'
  BY DEF IInv, TypeOK, Machine, threadVars
<1>2. BootInv' /\ OwnersInv'
  BY DEF IInv, BootInv, OwnersInv, threadVars
<1>3. QED
  BY <1>1, <1>2 DEF IInv

LEMMA GotoIsMachine ==
  ASSUME TypeOK, NEW where \in Places, NEW interrupts \in BOOLEAN, Goto(where, interrupts)
  PROVE  /\ cpu' \in Machine
         /\ cpu'.thread = cpu.thread /\ cpu'.at = where /\ cpu'.interrupts = interrupts
BY DEF Goto, TypeOK, Machine

LEMMA CallInv ==
  ASSUME IInv, Call
  PROVE  IInv'
<1>1. cpu' \in Machine /\ cpu'.thread = cpu.thread /\ cpu'.at = "dispatch" /\ cpu'.interrupts = FALSE
  BY GotoIsMachine DEF IInv, Call, Places
<1>2. SwitchesByPlace'
  BY <1>1 DEF IInv, Call, SwitchesByPlace
<1>3. QED
  BY <1>1, <1>2, MoveInv, Constants DEF IInv, Call, TypeOK

LEMMA DisableInv ==
  ASSUME IInv, DisableTaskSwitching
  PROVE  IInv'
<1>1. cpu' \in Machine /\ cpu'.thread = cpu.thread /\ cpu'.at = "guarded" /\ cpu'.interrupts = FALSE
  BY GotoIsMachine DEF IInv, DisableTaskSwitching, Places
<1>2. SwitchesByPlace'
  BY <1>1 DEF IInv, DisableTaskSwitching, SwitchesByPlace
<1>3. QED
  BY <1>1, <1>2, MoveInv DEF IInv, DisableTaskSwitching, TypeOK, callVars, OwnersInv

LEMMA OpenInv ==
  ASSUME IInv, OpenWindow
  PROVE  IInv'
<1>1. cpu' \in Machine /\ cpu'.thread = cpu.thread /\ cpu'.at = "window" /\ cpu'.interrupts = TRUE
  BY GotoIsMachine DEF IInv, OpenWindow, Places
<1>2. SwitchesByPlace'
  BY <1>1 DEF IInv, OpenWindow, SwitchesByPlace
<1>3. QED
  BY <1>1, <1>2, MoveInv DEF IInv, OpenWindow, TypeOK, callVars, OwnersInv

LEMMA CloseInv ==
  ASSUME IInv, CloseWindow
  PROVE  IInv'
<1>1. cpu' \in Machine /\ cpu'.thread = cpu.thread /\ cpu'.at = "closing" /\ cpu'.interrupts = FALSE
  BY GotoIsMachine DEF IInv, CloseWindow, Places
<1>2. SwitchesByPlace'
  BY <1>1 DEF IInv, CloseWindow, SwitchesByPlace
<1>3. keys' \in 0 .. MaxKeys
  BY Constants DEF IInv, CloseWindow, TypeOK
<1>4. QED
  BY <1>1, <1>2, <1>3, MoveInv DEF IInv, CloseWindow, TypeOK, OwnersInv

LEMMA EnableInv ==
  ASSUME IInv, EnableTaskSwitching
  PROVE  IInv'
<1>1. cpu' \in Machine /\ cpu'.thread = cpu.thread /\ cpu'.at = "dispatch" /\ cpu'.interrupts = FALSE
  BY GotoIsMachine DEF IInv, EnableTaskSwitching, Places
<1>2. SwitchesByPlace'
  BY <1>1 DEF IInv, EnableTaskSwitching, SwitchesByPlace
<1>3. request' \in Requests \cup {NoRequest} \cup [service : {"keyboard", "filesystem"}, windows : 0 .. 2]
  <2>1. PICK w \in 0 .. request.windows - 1 : request' = [request EXCEPT !.windows = w]
    BY DEF EnableTaskSwitching
  <2>2. request \in [service : {"keyboard", "filesystem"}, windows : 0 .. 2]
    BY <2>1 DEF IInv, TypeOK, Requests, NoRequest
  <2>3. QED
    BY <2>1, <2>2
<1>4. QED
  BY <1>1, <1>2, <1>3, MoveInv DEF IInv, EnableTaskSwitching, TypeOK, OwnersInv

LEMMA ReturnInv ==
  ASSUME IInv, Return
  PROVE  IInv'
<1>1. virtualStack = cpu.thread /\ cpu.thread \in Thread
  BY DEF IInv, OwnersInv, Return, SwitchesByPlace, TypeOK
<1>2. cpu' = NewContext(cpu.thread)
  BY <1>1 DEF Return, NewContext
<1>3. cpu' \in Machine /\ cpu'.thread = cpu.thread /\ cpu'.at = "user" /\ cpu'.interrupts = TRUE
  BY <1>1, <1>2, NewContextIsMachine DEF NewContext, Context
<1>4. SwitchesByPlace'
  BY <1>3 DEF IInv, Return, SwitchesByPlace
<1>5. QED
  BY <1>3, <1>4, MoveInv DEF IInv, Return, TypeOK

LEMMA NextInv ==
  ASSUME IInv, [Next]_vars
  PROVE  IInv'
<1>1. CASE Timer
  BY <1>1, ScheduleInv DEF Timer
<1>2. CASE KeyInterrupt
  BY <1>2, Constants DEF KeyInterrupt, IInv, TypeOK, SwitchesByPlace, BootInv, OwnersInv, threadVars
<1>3. CASE TakeKey
  BY <1>3, Constants DEF TakeKey, IInv, TypeOK, SwitchesByPlace, BootInv, OwnersInv, threadVars
<1>4. CASE UNCHANGED vars
  BY <1>4 DEF vars, IInv, TypeOK, SwitchesByPlace, BootInv, OwnersInv, threadVars, callVars
<1>5. QED
  BY <1>1, <1>2, <1>3, <1>4, StartInv, CallInv, DisableInv, OpenInv, CloseInv, EnableInv, ReturnInv
     DEF Next, Handler

LEMMA InvAlways == Spec => []IInv
<1>1. Init => IInv
  BY InitInv
<1>2. IInv /\ [Next]_vars => IInv'
  BY NextInv
<1>3. QED
  BY <1>1, <1>2, PTL DEF Spec

-----------------------------------------------------------------------------
(* Every variable of the scheduler and of the call handler keeps its range. *)
THEOREM TypeCorrect == Spec => []TypeOK
<1>1. IInv => TypeOK
  BY DEF IInv
<1>2. QED
  BY <1>1, InvAlways, PTL

(* However many threads there are and whenever the timer ticks, the        *)
(* registers Schedule has saved for a thread are that thread's own, taken  *)
(* in user code, and the running thread runs under its own directory.      *)
THEOREM ContextsIntactAlways == Spec => []ContextsIntact
<1>1. IInv => ContextsIntact
  BY DEF IInv, OwnersInv, ContextsIntact
<1>2. QED
  BY <1>1, InvAlways, PTL

(* A call runs with paging off from its first to its last instruction and  *)
(* no context switch is possible meanwhile.                                *)
THEOREM PagingOffIsShieldedAlways == Spec => []PagingOffIsShielded
<1>1. IInv => PagingOffIsShielded
  BY DEF IInv, TypeOK, Places, SwitchesByPlace, PagingOffIsShielded
<1>2. QED
  BY <1>1, InvAlways, PTL

(* The handler's globals are never overwritten by another thread's call.   *)
THEOREM StackOfCallerAlways == Spec => []StackOfCaller
<1>1. IInv => StackOfCaller
  BY DEF IInv, OwnersInv, StackOfCaller
<1>2. QED
  BY <1>1, InvAlways, PTL

(* Every path through a service restores interrupts and task switching.    *)
THEOREM UserCodeIsPreemptibleAlways == Spec => []UserCodeIsPreemptible
<1>1. IInv => UserCodeIsPreemptible
  BY DEF IInv, SwitchesByPlace, UserCodeIsPreemptible
<1>2. QED
  BY <1>1, InvAlways, PTL

(* The three together.                                                     *)
THEOREM CallsAreShieldedAlways == Spec => []CallsAreShielded
<1>1. PagingOffIsShielded /\ StackOfCaller /\ UserCodeIsPreemptible => CallsAreShielded
  BY DEF CallsAreShielded
<1>2. QED
  BY <1>1, PagingOffIsShieldedAlways, StackOfCallerAlways, UserCodeIsPreemptibleAlways, PTL

(* The processor changes hands only in user code, to the next of the ring. *)
THEOREM SwitchesInUserCodeAlways == Spec => SwitchesInUserCode
<1> DEFINE A == currentThread' # currentThread =>
                  /\ cpu.at \in {"boot", "user"} /\ cpu'.at = "user"
                  /\ currentThread' = (currentThread + 1) % Threads
<1>1. IInv /\ [Next]_vars => [A]_vars
  <2> SUFFICES ASSUME IInv, [Next]_vars, currentThread' # currentThread
               PROVE  A
    OBVIOUS
  <2>1. ~UNCHANGED threadVars
    BY DEF threadVars
  <2>2. Start \/ Timer
    BY <2>1 DEF Next, Handler, KeyInterrupt, Call, DisableTaskSwitching, OpenWindow, TakeKey,
       CloseWindow, EnableTaskSwitching, Return, vars
  <2>3. cpu.at \in {"boot", "user"} /\ currentThread' = NextOf(currentThread)
        /\ currentThread \in Thread
    BY <2>1, <2>2 DEF Start, SwitchThreadNext, Timer, Schedule, MayAccount, SwitchOnTick,
       StayOnTick, Resume, IInv, SwitchesByPlace, TypeOK, Places
  <2>4. currentThread' \in Thread
    BY <2>3, RingInThread
  <2>5. cpu' = NewContext(currentThread')
    <3>1. saved' = [t \in Thread |-> saved'[t]] /\ \A t \in Thread : saved'[t] = NewContext(t)
      BY NextInv DEF IInv, OwnersInv, TypeOK
    <3>2. cpu' = saved'[currentThread']
      BY <2>1, <2>2 DEF Start, SwitchThreadNext, Timer, Schedule, SwitchOnTick, StayOnTick, Resume
    <3>3. QED
      BY <2>4, <3>1, <3>2
  <2>6. cpu'.at = "user"
    BY <2>5 DEF NewContext, Context
  <2>7. QED
    BY <2>3, <2>6 DEF NextOf
<1>2. QED
  BY <1>1, InvAlways, PTL DEF Spec, SwitchesInUserCode

-----------------------------------------------------------------------------
(* How the ticks are shared: turn by turn around the ring, which the thread *)
(* after Threads_[0] begins and Threads_[0] ends.  A full turn is one tick *)
(* more than the quantum, and the ticks of the boot code belong to the     *)
(* first turn of Threads_[0].                                              *)
Turn(t) == IF t = 0 THEN Threads ELSE t
Done(t) == cpu.at # "boot" /\ Turn(t) < Turn(currentThread)

(* The ticks a thread has worked when the others had so many before this   *)
(* round of turns; its counter has left out a number of full words.        *)
Worked(before, t) == before + (IF Done(t) THEN Quantum + 1 ELSE 0) + (Quantum - ticksBefore[t])

SharesFrom(before) == \A t \in Thread :
  /\ Done(t) => ticksBefore[t] = Quantum
  /\ \E wraps \in Int : workedTicks[t] + Word * wraps = Worked(before, t)

FairInv ==
  /\ cpu.at = "boot" => currentThread = 0
  /\ \E before \in Int : SharesFrom(before)

LEMMA TicksAreNumbers ==
  ASSUME TypeOK
  PROVE  /\ currentThread \in Thread
         /\ \A t \in Thread : ticksBefore[t] \in 0 .. Quantum /\ workedTicks[t] \in 0 .. Word - 1
         /\ DOMAIN ticksBefore = Thread /\ DOMAIN workedTicks = Thread
BY Constants DEF TypeOK, SizeT

(* A counter that goes on by one wraps around or does not. *)
LEMMA OneMoreTick ==
  ASSUME NEW ticks \in 0 .. Word - 1, NEW wraps \in Int, NEW real \in Int, ticks + Word * wraps = real
  PROVE  \E more \in Int : ((ticks + 1) % Word) + Word * more = real + 1
<1>1. CASE ticks + 1 < Word
  <2>1. (ticks + 1) % Word = ticks + 1
    BY <1>1, Constants
  <2>2. Word * wraps \in Int
    BY Constants
  <2>3. (ticks + 1) + Word * wraps = real + 1
    BY <2>2, Constants
  <2>4. QED
    BY <2>1, <2>3
<1>2. CASE ticks + 1 = Word
  <2>1. (ticks + 1) % Word = 0
    BY <1>2, Constants
  <2>2. Word * (wraps + 1) = Word * wraps + Word /\ Word * wraps \in Int /\ wraps + 1 \in Int
    BY Constants
  <2>3. 0 + Word * (wraps + 1) = real + 1
    BY <1>2, <2>2, Constants
  <2>4. QED
    BY <2>1, <2>2, <2>3
<1>3. QED
  BY <1>1, <1>2, Constants

LEMMA FairInitially == Init => FairInv
<1> SUFFICES ASSUME Init
             PROVE  SharesFrom(0)
  BY DEF FairInv, Init, SchedulerInit, Context
<1>1. /\ cpu.at = "boot" /\ \A t \in Thread : ticksBefore[t] = Quantum /\ workedTicks[t] = 0
  BY DEF Init, SchedulerInit, Context
<1>2. ASSUME NEW t \in Thread PROVE workedTicks[t] + Word * 0 = Worked(0, t)
  BY <1>1, Constants DEF Worked, Done
<1>3. QED
  BY <1>1, <1>2 DEF SharesFrom, Done

(* The thread that comes next in the ring has the next turn, or the first. *)
LEMMA NextTurn ==
  ASSUME NEW t \in Thread
  PROVE  Turn(NextOf(t)) = IF t = 0 THEN 1 ELSE Turn(t) + 1
<1>1. CASE t + 1 < Threads
  <2>1. (t + 1) % Threads = t + 1
    BY <1>1, Constants DEF Thread
  <2>2. QED
    BY <2>1, Constants DEF Thread, NextOf, Turn
<1>2. CASE t + 1 = Threads
  <2>1. (t + 1) % Threads = 0
    BY <1>2, Constants DEF Thread
  <2>2. QED
    BY <1>2, <2>1, Constants DEF Thread, NextOf, Turn
<1>3. QED
  BY <1>1, <1>2, Constants DEF Thread

LEMMA TurnsAreNumbers == \A t \in Thread : Turn(t) \in 1 .. Threads
BY Constants DEF Thread, Turn

LEMMA FairStart == IInv /\ FairInv /\ Start => FairInv'
<1> SUFFICES ASSUME IInv, FairInv, Start
             PROVE  FairInv'
  OBVIOUS
<1>1. /\ cpu.at = "boot" /\ currentThread' = NextOf(currentThread)
      /\ ticksBefore' = ticksBefore /\ workedTicks' = workedTicks
  BY DEF Start, SwitchThreadNext, Resume
<1>2. PICK before \in Int : SharesFrom(before)
  BY DEF FairInv
<1>3. currentThread = 0 /\ 0 \in Thread
  BY <1>1, Constants DEF FairInv, Thread
<1>4. cpu'.at = "user"
  <2>1. cpu' = saved[NextOf(currentThread)] /\ NextOf(currentThread) \in Thread
    BY RingInThread DEF IInv, TypeOK, Start, SwitchThreadNext, Resume
  <2>2. cpu' = NewContext(NextOf(currentThread))
    BY <2>1 DEF IInv, OwnersInv
  <2>3. QED
    BY <2>2 DEF NewContext, Context
<1>5. Turn(currentThread') = 1
  BY <1>1, <1>3, NextTurn
<1>6. \A t \in Thread : ~Done(t) /\ ~Done(t)'
  BY <1>1, <1>5, TurnsAreNumbers, Constants DEF Done, Turn
<1>7. SharesFrom(before)'
  BY <1>1, <1>2, <1>6 DEF SharesFrom, Worked
<1>8. QED
  BY <1>4, <1>7 DEF FairInv

(* A tick for the thread that runs, as its turn goes on. *)
LEMMA FairStay ==
  ASSUME IInv, FairInv, StayOnTick, cpu.at \in {"boot", "user", "window"},
         workedTicks' = [workedTicks EXCEPT ![currentThread] = (@ + 1) % Word]
  PROVE  FairInv'
<1>1. PICK before \in Int : SharesFrom(before)
  BY DEF FairInv
<1>2. PICK c \in Thread : c = currentThread
  BY TicksAreNumbers DEF IInv
<1>3. /\ ticksBefore[c] \in 1 .. Quantum /\ ticksBefore'[c] = ticksBefore[c] - 1
      /\ \A t \in Thread : t # c => ticksBefore'[t] = ticksBefore[t]
      /\ UNCHANGED <<currentThread, cpu>>
  BY <1>2, TicksAreNumbers, Constants DEF IInv, StayOnTick
<1>4. workedTicks'[c] = (workedTicks[c] + 1) % Word /\ \A t \in Thread : t # c => workedTicks'[t] = workedTicks[t]
  BY <1>2, TicksAreNumbers DEF IInv
<1>5. \A t \in Thread : Done(t)' = Done(t)
  BY <1>3 DEF Done, Turn
<1>6. ~Done(c)
  BY <1>2, TurnsAreNumbers DEF Done
<1>7. Worked(before, c)' = Worked(before, c) + 1 /\ Worked(before, c) \in Int
  BY <1>3, <1>5, <1>6, Constants DEF Worked
<1>8. \E wraps \in Int : workedTicks'[c] + Word * wraps = Worked(before, c)'
  <2>1. PICK wraps \in Int : workedTicks[c] + Word * wraps = Worked(before, c)
    BY <1>1 DEF SharesFrom
  <2>2. workedTicks[c] \in 0 .. Word - 1
    BY TicksAreNumbers DEF IInv
  <2>3. QED
    BY <1>4, <1>7, <2>1, <2>2, OneMoreTick
<1>9. ASSUME NEW t \in Thread, t # c
      PROVE  /\ Done(t)' => ticksBefore'[t] = Quantum
             /\ \E wraps \in Int : workedTicks'[t] + Word * wraps = Worked(before, t)'
  BY <1>1, <1>3, <1>4, <1>5, <1>9 DEF SharesFrom, Worked
<1>10. SharesFrom(before)'
  BY <1>5, <1>6, <1>8, <1>9 DEF SharesFrom
<1>11. QED
  BY <1>3, <1>10 DEF FairInv

(* The last tick of a turn.  With that of Threads_[0] a round ends. *)
LEMMA FairSwitch ==
  ASSUME IInv, FairInv, SwitchOnTick, cpu.at # "boot", cpu'.at # "boot",
         workedTicks' = [workedTicks EXCEPT ![currentThread] = (@ + 1) % Word]
  PROVE  FairInv'
<1>1. PICK before \in Int : SharesFrom(before)
  BY DEF FairInv
<1>2. PICK c \in Thread : c = currentThread
  BY TicksAreNumbers DEF IInv
<1>3. /\ ticksBefore[c] = 0 /\ ticksBefore'[c] = Quantum
      /\ \A t \in Thread : t # c => ticksBefore'[t] = ticksBefore[t]
      /\ currentThread' = NextOf(c)
  BY <1>2, TicksAreNumbers DEF IInv, SwitchOnTick, Resume
<1>4. workedTicks'[c] = (workedTicks[c] + 1) % Word /\ \A t \in Thread : t # c => workedTicks'[t] = workedTicks[t]
  BY <1>2, TicksAreNumbers DEF IInv
<1>5. ~Done(c)
  BY <1>2, TurnsAreNumbers DEF Done
<1>6. Worked(before, c) = before + Quantum /\ Worked(before, c) \in Int
  BY <1>3, <1>5, Constants DEF Worked
<1>7. \E wraps \in Int : workedTicks'[c] + Word * wraps = before + Quantum + 1
  <2>1. PICK wraps \in Int : workedTicks[c] + Word * wraps = Worked(before, c)
    BY <1>1 DEF SharesFrom
  <2>2. workedTicks[c] \in 0 .. Word - 1
    BY TicksAreNumbers DEF IInv
  <2>3. QED
    BY <1>4, <1>6, <2>1, <2>2, OneMoreTick
<1>8. \A t \in Thread : t # c =>
        \E wraps \in Int : workedTicks'[t] + Word * wraps = Worked(before, t)
  BY <1>1, <1>4 DEF SharesFrom
<1>9. \A t \in Thread : t # c /\ Done(t) => ticksBefore[t] = Quantum
  BY <1>1 DEF SharesFrom
<1>turns. \A t \in Thread : Done(t)' <=> Turn(t) < Turn(currentThread')
  BY DEF Done, Turn
<1>10. CASE c # 0
  <2>1. Turn(currentThread') = Turn(c) + 1
    BY <1>3, <1>10, NextTurn
  <2>2. \A t \in Thread : t # c => Turn(t) # Turn(c)
    BY <1>10, Constants DEF Turn, Thread
  <2>3. \A t \in Thread : t # c => Done(t)' = Done(t)
    BY <1>turns, <1>2, <2>1, <2>2, TurnsAreNumbers, Constants DEF Done
  <2>4. Done(c)'
    BY <1>turns, <2>1, TurnsAreNumbers, Constants
  <2>5. Worked(before, c)' = before + Quantum + 1
    BY <1>3, <2>4, Constants DEF Worked
  <2>6. ASSUME NEW t \in Thread, t # c PROVE Worked(before, t)' = Worked(before, t)
    BY <1>3, <2>3, <2>6 DEF Worked
  <2>7. SharesFrom(before)'
    BY <1>3, <1>7, <1>8, <1>9, <2>3, <2>5, <2>6 DEF SharesFrom
  <2>8. QED
    BY <2>7 DEF FairInv
<1>11. CASE c = 0
  <2>1. Turn(currentThread') = 1
    BY <1>3, <1>11, NextTurn
  <2>2. \A t \in Thread : ~Done(t)'
    BY <1>turns, <2>1, TurnsAreNumbers, Constants
  <2>3. \A t \in Thread : t # c => Done(t)
    BY <1>2, <1>11, Constants DEF Done, Turn, Thread
  <2>4. PICK later \in Int : later = before + Quantum + 1
    BY Constants
  <2>5. Worked(later, c)' = before + Quantum + 1
    BY <1>3, <2>2, <2>4, Constants DEF Worked
  <2>6. ASSUME NEW t \in Thread, t # c PROVE Worked(later, t)' = Worked(before, t)
    BY <1>3, <1>9, <2>2, <2>3, <2>4, <2>6, Constants DEF Worked
  <2>7. SharesFrom(later)'
    BY <1>7, <1>8, <2>2, <2>5, <2>6 DEF SharesFrom
  <2>8. QED
    BY <2>7 DEF FairInv
<1>12. QED
  BY <1>10, <1>11

(* Steps that no tick is counted in. *)
LEMMA FairMove ==
  ASSUME FairInv, UNCHANGED threadVars, (cpu'.at = "boot") <=> (cpu.at = "boot")
  PROVE  FairInv'
<1>1. \A t \in Thread : Done(t)' = Done(t)
  BY DEF Done, Turn, threadVars
<1>2. \A before \in Int : SharesFrom(before) => SharesFrom(before)'
  BY <1>1 DEF SharesFrom, Worked, threadVars
<1>3. QED
  BY <1>2 DEF FairInv, threadVars

LEMMA FairTimer == IInv /\ FairInv /\ Timer => FairInv'
<1> SUFFICES ASSUME IInv, FairInv, Timer
             PROVE  FairInv'
  OBVIOUS
<1>1. CASE ~taskSwitchingEnabled
  BY <1>1, FairMove DEF Timer, Schedule, MayAccount
<1>2. CASE taskSwitchingEnabled
  <2>1. /\ workedTicks' = [workedTicks EXCEPT ![currentThread] = (@ + 1) % Word]
        /\ SwitchOnTick \/ StayOnTick
        /\ cpu.at = "boot" => ticksCount < BootTicks
        /\ cpu.interrupts
    BY <1>2 DEF Timer, Schedule, MayAccount
  <2>2. cpu.at \in {"boot", "user", "window"}
    BY <2>1 DEF IInv, SwitchesByPlace, TypeOK, Places
  <2>3. CASE StayOnTick
    BY <2>1, <2>2, <2>3, FairStay
  <2>4. CASE SwitchOnTick
    <3>1. cpu.at # "boot"
      <4>1. ticksBefore[currentThread] = 0 /\ ticksCount \in Nat
        BY <2>4, Constants DEF SwitchOnTick, IInv, TypeOK, SizeT
      <4>2. cpu.at = "boot" => ticksBefore[currentThread] > 0
        BY <2>1, <4>1, Constants DEF IInv, BootInv
      <4>3. QED
        BY <4>1, <4>2
    <3>2. cpu' = saved'[NextOf(currentThread)] /\ NextOf(currentThread) \in Thread
      BY <2>4, RingInThread DEF IInv, TypeOK, SwitchOnTick, Resume
    <3>3. IInv'
      BY NextInv DEF Next
    <3>4. cpu' = NewContext(NextOf(currentThread))
      BY <3>2, <3>3 DEF IInv, OwnersInv
    <3>5. cpu'.at # "boot"
      BY <3>4 DEF NewContext, Context
    <3>6. QED
      BY <2>1, <2>4, <3>1, <3>5, FairSwitch
  <2>5. QED
    BY <2>1, <2>3, <2>4
<1>3. QED
  BY <1>1, <1>2

LEMMA FairStep == IInv /\ FairInv /\ [Next]_vars => FairInv'
<1> SUFFICES ASSUME IInv, FairInv, [Next]_vars
             PROVE  FairInv'
  OBVIOUS
<1>1. CASE Start
  BY <1>1, FairStart
<1>2. CASE Timer
  BY <1>2, FairTimer
<1>3. CASE KeyInterrupt
  BY <1>3, FairMove DEF KeyInterrupt
<1>4. CASE Call
  <2>1. cpu'.at = "dispatch"
    BY <1>4, GotoIsMachine DEF IInv, Call, Places
  <2>2. QED
    BY <1>4, <2>1, FairMove DEF Call
<1>5. CASE Handler
  <2>1. ASSUME NEW where \in {"guarded", "window", "closing", "dispatch"}, NEW interrupts \in BOOLEAN,
               cpu.at # "boot", Goto(where, interrupts), UNCHANGED threadVars
        PROVE  FairInv'
    <3>1. cpu'.at = where
      BY <2>1, GotoIsMachine DEF IInv, Places
    <3>2. QED
      BY <2>1, <3>1, FairMove
  <2>2. CASE DisableTaskSwitching \/ OpenWindow \/ CloseWindow \/ EnableTaskSwitching
    BY <2>1, <2>2 DEF DisableTaskSwitching, OpenWindow, CloseWindow, EnableTaskSwitching
  <2>3. CASE TakeKey
    BY <2>3, FairMove DEF TakeKey
  <2>4. CASE Return
    BY <2>4, FairMove DEF Return, Context
  <2>5. QED
    BY <1>5, <2>2, <2>3, <2>4 DEF Handler
<1>6. CASE UNCHANGED vars
  BY <1>6, FairMove DEF vars
<1>7. QED
  BY <1>1, <1>2, <1>3, <1>4, <1>5, <1>6 DEF Next

(* Two counters that have left out full words differ by what the ticks do, *)
(* up to a word.                                                           *)
LEMMA LeadOfCounters ==
  ASSUME NEW x \in 0 .. Word - 1, NEW y \in 0 .. Word - 1, NEW lead \in Int, NEW most \in Nat,
         NEW k \in Int, NEW l \in Int, (x + Word * k) - (y + Word * l) = lead,
         0 - most <= lead, lead <= most
  PROVE  (x - y) % Word <= most \/ (x - y) % Word >= Word - most
<1>1. PICK m \in Int : m = l - k
  OBVIOUS
<1>2. Word * m = Word * l - Word * k /\ Word * l \in Int /\ Word * k \in Int
  BY <1>1, Constants
<1>3. x - y = lead + Word * m
  BY <1>2, Constants
<1>4. (x - y) % Word = IF x >= y THEN x - y ELSE x - y + Word
  <2>1. CASE x >= y
    BY <2>1, Constants
  <2>2. CASE x < y
    <3>1. x - y + Word \in 0 .. Word - 1
      BY <2>2, Constants
    <3>2. (x - y) % Word = x - y + Word
      BY <2>2, <3>1, Constants
    <3>3. QED
      BY <2>2, <3>2
  <2>3. QED
    BY <2>1, <2>2
<1>5. CASE most >= Word
  BY <1>4, <1>5, Constants
<1>6. CASE most < Word
  <2>1. m < 2 /\ m > -2
    <3>1. Word * m < Word * 2 /\ Word * m > Word * (-2)
      BY <1>2, <1>3, <1>6, Constants
    <3>2. QED
      BY <3>1, Constants
  <2>2. m \in {-1, 0, 1}
    BY <2>1
  <2>3. Word * (-1) = -Word /\ Word * 0 = 0 /\ Word * 1 = Word
    BY Constants
  <2>4. QED
    BY <1>3, <1>4, <1>6, <2>2, <2>3, Constants
<1>7. QED
  BY <1>5, <1>6, Constants

LEMMA FairInvShares ==
  ASSUME IInv, FairInv
  PROVE  FairShare
<1>1. PICK before \in Int : SharesFrom(before)
  BY DEF FairInv
<1>2. SUFFICES ASSUME NEW t \in Thread, NEW u \in Thread
               PROVE  \/ (workedTicks[t] - workedTicks[u]) % Word <= Quantum + 1
                      \/ (workedTicks[t] - workedTicks[u]) % Word >= Word - (Quantum + 1)
  BY DEF FairShare
<1>3. \A s \in Thread : /\ Worked(before, s) \in Int
                        /\ before <= Worked(before, s) /\ Worked(before, s) <= before + Quantum + 1
  <2> SUFFICES ASSUME NEW s \in Thread
               PROVE  /\ Worked(before, s) \in Int
                      /\ before <= Worked(before, s) /\ Worked(before, s) <= before + Quantum + 1
    OBVIOUS
  <2>1. ticksBefore[s] \in 0 .. Quantum /\ (Done(s) => ticksBefore[s] = Quantum)
    BY <1>1, TicksAreNumbers DEF IInv, SharesFrom
  <2>2. QED
    BY <2>1, Constants DEF Worked
<1>4. PICK k \in Int : workedTicks[t] + Word * k = Worked(before, t)
  BY <1>1 DEF SharesFrom
<1>5. PICK l \in Int : workedTicks[u] + Word * l = Worked(before, u)
  BY <1>1 DEF SharesFrom
<1>6. PICK lead \in Int : lead = Worked(before, t) - Worked(before, u)
  BY <1>3
<1>7. 0 - (Quantum + 1) <= lead /\ lead <= Quantum + 1 /\ Quantum + 1 \in Nat
  BY <1>3, <1>6, Constants
<1>8. workedTicks[t] \in 0 .. Word - 1 /\ workedTicks[u] \in 0 .. Word - 1
  BY TicksAreNumbers DEF IInv
<1>9. (workedTicks[t] + Word * k) - (workedTicks[u] + Word * l) = lead
  BY <1>4, <1>5, <1>6
<1>10. QED
  BY <1>7, <1>8, <1>9, LeadOfCounters

(* Whatever the quantum, however many threads share the processor, however *)
(* long it runs and whichever calls keep the accounting out: no thread's   *)
(* counter WorkedTicksCount leads another's by more than a quantum and a   *)
(* tick, seen modulo the word the counters wrap around at (Schedule).      *)
THEOREM FairShareAlways == Spec => []FairShare
<1>1. Init => FairInv
  BY FairInitially
<1>2. IInv /\ FairInv /\ [Next]_vars => FairInv'
  BY FairStep
<1>3. IInv /\ FairInv => FairShare
  BY FairInvShares
<1>4. QED
  BY <1>1, <1>2, <1>3, InvAlways, PTL DEF Spec

-----------------------------------------------------------------------------
(* The other way to meet threads: ThreadTable.  What the boot code builds  *)
(* is told apart from what threads then run in: the ring of one array.     *)
Stages   == {"runs", "leaves", "loads"}
Pointers == [array : Nat, index : Nat]
Contexts == [of : Candidates, at : Stages]
Entry    == [thread : Candidates, next : Pointers, saved : Contexts, ticks : 0 .. TableQuantum]

TableTypes ==
  /\ place \in Nat /\ allocated = place * CountAllocate
  /\ threads \in Seq(Entry) /\ Len(threads) <= allocated
  /\ current \in Pointers
  /\ running \in [of : Candidates \cup {Table!Boot}, at : Stages]
  /\ met \in 0 .. 1 /\ astray \in BOOLEAN

(* The n-th thread has found the array that was there when it was added,   *)
(* and the array grows only when it is full.                               *)
LeadsOn(table, n) == table[n].next = Table!Pointer((n \div CountAllocate) + 1, n)
LeadsBack(table, array) == table[Len(table)].next = Table!Pointer(array, 0)
IsOwn(table, n) == table[n].saved = Table!Context(table[n].thread, "runs")

(* A table that lies at an array, as the boot code has built it. *)
Built(table, array) ==
  /\ (array - 1) * CountAllocate < Len(table)
  /\ \A n \in 1 .. Len(table) - 1 : LeadsOn(table, n)
  /\ table # <<>> => LeadsBack(table, array)
  /\ \A n \in 1 .. Len(table) : IsOwn(table, n)

(* A tick may have met the window at the end of Run. *)
Fresh(table, ticks) == \A n \in 1 .. Len(table) : table[n].ticks + ticks >= TableQuantum

BuiltByBoot == running.of = Table!Boot =>
  /\ Built(threads, place)
  /\ running.at = "runs" => ~astray /\ Fresh(threads, 0)

(* Run finds no table, or one that has moved: its first switch goes astray. *)
Strands == running.of = Table!Boot /\ running.at # "runs" /\ place # 1 =>
  /\ running.at = "leaves"
  /\ ~astray => current = Table!Pointer(place, 0) /\ Fresh(threads, met)

(* A table in its first array, all around which its threads lead. *)
Ring(table) ==
  \A n \in 1 .. Len(table) : table[n].next = Table!Pointer(1, IF n = Len(table) THEN 0 ELSE n)

(* The contexts in it. *)
Kept(table) == \A n \in 1 .. Len(table) : IsOwn(table, n)

(* CurrentThread_ points into the ring, and to the thread that runs. *)
Runs(pointer, context, table) ==
  /\ pointer.array = 1 /\ pointer.index < Len(table)
  /\ context.at = "runs" => table[pointer.index + 1].thread = context.of

(* A thread that waits has lost at most one tick to each window there has  *)
(* been: the one at the end of Run and one for each thread removed.        *)
Spent(table, context, ticks) ==
  CountAllocate - Len(table) + (IF context.at = "runs" THEN 1 ELSE ticks)

Rested(pointer, context, table, ticks) ==
  \A n \in 1 .. Len(table) :
    \/ context.at = "runs" /\ n = pointer.index + 1
    \/ table[n].ticks + Spent(table, context, ticks) >= TableQuantum

Turns(pointer, context, table, ticks) ==
  /\ Ring(table) /\ Kept(table)
  /\ Runs(pointer, context, table) /\ Rested(pointer, context, table, ticks)

TurnsInRing == ~(running.of = Table!Boot /\ (running.at = "runs" \/ place # 1)) =>
  place = 1 /\ ~astray /\ Turns(current, running, threads, met)

RingInv == TableTypes /\ BuiltByBoot /\ Strands /\ TurnsInRing

LEMMA TableConstants ==
  /\ CountAllocate \in Nat /\ CountAllocate > 1 /\ Table!Boot \notin Candidates
  /\ TableQuantum \in Nat /\ CountAllocate <= TableQuantum
BY TasksAssumption DEF Table!ThreadTableAssumption

(* The array an index falls into. *)
LEMMA ArrayOf ==
  ASSUME NEW n \in Nat, NEW a \in Nat, a * CountAllocate <= n, n < (a + 1) * CountAllocate
  PROVE  n \div CountAllocate = a
<1>1. /\ n \div CountAllocate \in Int
      /\ CountAllocate * (n \div CountAllocate) <= n
      /\ n < CountAllocate * (n \div CountAllocate) + CountAllocate
  BY TableConstants, SMT
<1>2. PICK q \in Int : q = n \div CountAllocate
  BY <1>1
<1>3. CountAllocate * q <= n /\ n < CountAllocate * q + CountAllocate
  BY <1>1, <1>2
<1>4. CASE q < a
  <2>1. CountAllocate * (q + 1) <= CountAllocate * a
    BY <1>4, TableConstants, SMT
  <2>2. QED
    BY <1>3, <2>1, TableConstants, SMT
<1>5. CASE q > a
  <2>1. CountAllocate * (a + 1) <= CountAllocate * q
    BY <1>5, TableConstants, SMT
  <2>2. QED
    BY <1>3, <2>1, TableConstants, SMT
<1>6. QED
  BY <1>2, <1>4, <1>5, SMT

(* A context is known by whose it is and where it stands. *)
LEMMA BuildingIs ==
  ASSUME TableTypes
  PROVE  Table!Building <=> running.of = Table!Boot /\ running.at = "runs"
<1>1. Table!Building <=> running = [of |-> Table!Boot, at |-> "runs"]
  BY DEF Table!Building, Table!Context
<1>2. QED
  BY <1>1 DEF TableTypes

LEMMA RingInitially == Table!Init => RingInv
<1> SUFFICES ASSUME Table!Init
             PROVE  RingInv
  OBVIOUS
<1>1. /\ threads = <<>> /\ allocated = 0 /\ place = 0
      /\ current = [array |-> 0, index |-> 0] /\ running = [of |-> Table!Boot, at |-> "runs"]
      /\ met = 0 /\ astray = FALSE
  BY DEF Table!Init, Table!Pointer, Table!Context
<1>2. TableTypes
  <2>1. place * CountAllocate = 0
    BY <1>1, TableConstants
  <2>2. threads \in Seq(Entry)
    BY <1>1
  <2>3. Len(threads) <= allocated /\ place \in Nat /\ current \in Pointers
    BY <1>1 DEF Pointers
  <2>4. running \in [of : Candidates \cup {Table!Boot}, at : Stages]
    BY <1>1 DEF Stages
  <2>5. met \in 0 .. 1 /\ astray \in BOOLEAN
    <3>1. met = 0
      BY <1>1
    <3>2. met \in 0 .. 1
      BY <3>1
    <3>3. astray \in BOOLEAN
      BY <1>1
    <3>4. QED
      BY <3>2, <3>3
  <2>6. allocated = place * CountAllocate
    BY <1>1, <2>1, Zenon
  <2>7. QED
    BY <2>2, <2>3, <2>4, <2>5, <2>6 DEF TableTypes
<1>3. Built(threads, place) /\ Fresh(threads, 0)
  BY <1>1, TableConstants DEF Built, Fresh
<1>4. QED
  BY <1>1, <1>2, <1>3 DEF RingInv, BuiltByBoot, Strands, TurnsInRing

(* What AddThread makes of the table, wherever it then lies: at the array  *)
(* it had room in, or at the next one, when it had none.                   *)
LEMMA LinkedIsBuilt ==
  ASSUME TableTypes, Built(threads, place), Fresh(threads, 0), NEW thread \in Candidates,
         NEW array \in Nat, array # 0,
         (array - 1) * CountAllocate <= Len(threads), Len(threads) < array * CountAllocate
  PROVE  /\ Table!Linked(thread, array) \in Seq(Entry)
         /\ Len(Table!Linked(thread, array)) = Len(threads) + 1
         /\ Built(Table!Linked(thread, array), array)
         /\ Fresh(Table!Linked(thread, array), 0)
<1> DEFINE linked == Table!Linked(thread, array)
           c == Len(threads)
<1>0. c = Len(threads) /\ c \in Nat
  BY DEF TableTypes
<1>1. c \in Nat /\ threads \in [1 .. c -> Entry]
  BY DEF TableTypes
<1>2. linked = [n \in 1 .. c + 1 |->
                  IF n <= c
                  THEN [threads[n] EXCEPT !.next = IF n = c THEN Table!Pointer(array, c) ELSE @]
                  ELSE [thread |-> thread, next |-> Table!Pointer(array, 0),
                        saved |-> Table!Context(thread, "runs"), ticks |-> TableQuantum]]
  BY DEF Table!Linked, Table!ThreadsCount
<1> HIDE DEF linked, c
<1>3. /\ Table!Pointer(array, c) \in Pointers /\ Table!Pointer(array, 0) \in Pointers
      /\ Table!Context(thread, "runs") \in Contexts /\ TableQuantum \in 0 .. TableQuantum
  BY <1>1, TableConstants DEF Table!Pointer, Pointers, Table!Context, Contexts, Stages
<1>4. ASSUME NEW n \in 1 .. c
      PROVE  /\ linked[n] \in Entry
             /\ linked[n].thread = threads[n].thread /\ linked[n].saved = threads[n].saved
             /\ linked[n].ticks = threads[n].ticks
             /\ linked[n].next = IF n = c THEN Table!Pointer(array, c) ELSE threads[n].next
  <2>1. threads[n] \in Entry
    BY <1>1
  <2>2. linked[n] = [threads[n] EXCEPT !.next = IF n = c THEN Table!Pointer(array, c) ELSE threads[n].next]
    BY <1>1, <1>2 DEF Table!Context, Table!Pointer
  <2>3. QED
    BY <1>3, <2>1, <2>2 DEF Entry, Table!Context, Table!Pointer
<1>5. /\ linked[c + 1] \in Entry /\ linked[c + 1].thread = thread
      /\ linked[c + 1].next = Table!Pointer(array, 0) /\ linked[c + 1].saved = Table!Context(thread, "runs")
      /\ linked[c + 1].ticks = TableQuantum
  <2>1. linked[c + 1] = [thread |-> thread, next |-> Table!Pointer(array, 0),
                         saved |-> Table!Context(thread, "runs"), ticks |-> TableQuantum]
    <3>1. c + 1 \in 1 .. c + 1 /\ ~(c + 1 <= c)
      BY <1>1
    <3>2. QED
      BY <1>2, <3>1, Zenon
  <2>2. QED
    BY <1>3, <2>1 DEF Entry, Table!Context, Table!Pointer
<1>6. linked \in Seq(Entry) /\ Len(linked) = c + 1
  <2>1. \A n \in 1 .. c + 1 : linked[n] \in Entry
    BY <1>1, <1>4, <1>5
  <2>2. linked \in [1 .. c + 1 -> Entry]
    BY <1>2, <2>1
  <2>3. QED
    BY <1>1, <2>2
<1>7. ASSUME NEW n \in 1 .. c PROVE LeadsOn(linked, n)
  <2>1. CASE n = c
    <3>1. PICK a \in Nat : array = a + 1
      OBVIOUS
    <3>2. c \div CountAllocate = a
      BY <1>1, <3>1, ArrayOf
    <3>3. QED
      BY <1>4, <2>1, <3>1, <3>2 DEF LeadsOn
  <2>2. CASE n # c
    <3>1. n \in 1 .. Len(threads) - 1
      BY <1>0, <2>2
    <3>2. LeadsOn(threads, n)
      BY <3>1 DEF Built
    <3>3. QED
      BY <1>4, <2>2, <3>2 DEF LeadsOn
  <2>3. QED
    BY <2>1, <2>2
<1>8. \A n \in 1 .. c + 1 : IsOwn(linked, n)
  <2>1. \A n \in 1 .. c : IsOwn(linked, n)
    BY <1>1, <1>4 DEF IsOwn, Built, Table!Context, c
  <2>2. QED
    <3>1. IsOwn(linked, c + 1)
      BY <1>5, Zenon DEF IsOwn
    <3>2. \A n \in 1 .. c + 1 : n \in 1 .. c \/ n = c + 1
      BY <1>1
    <3>3. QED
      BY <2>1, <3>1, <3>2
<1>9. LeadsBack(linked, array)
  BY <1>5, <1>6 DEF LeadsBack
<1>10. (array - 1) * CountAllocate < Len(linked)
  BY <1>1, <1>6, TableConstants, SMT DEF c
<1>11. Built(linked, array)
  BY <1>1, <1>6, <1>7, <1>8, <1>9, <1>10 DEF Built
<1>12. Fresh(linked, 0)
  <2> SUFFICES ASSUME NEW n \in 1 .. c + 1 PROVE linked[n].ticks + 0 >= TableQuantum
    BY <1>6 DEF Fresh
  <2>1. CASE n \in 1 .. c
    BY <1>4, <2>1 DEF Fresh, c
  <2>2. CASE n = c + 1
    BY <1>5, <2>2, TableConstants
  <2>3. QED
    BY <1>1, <2>1, <2>2
<1>13. QED
  BY <1>6, <1>11, <1>12 DEF linked, c

(* In one array that is all there is to the ring. *)
LEMMA BuiltIsRing ==
  ASSUME TableTypes, Built(threads, place), place = 1
  PROVE  Ring(threads)
<1>1. Len(threads) \in Nat /\ Len(threads) <= CountAllocate
  BY TableConstants DEF TableTypes
<1>2. ASSUME NEW n \in 1 .. Len(threads) - 1
      PROVE  threads[n].next = Table!Pointer(1, n)
  <2>1. n \in Nat /\ 0 * CountAllocate <= n /\ n < (0 + 1) * CountAllocate
    BY <1>1, TableConstants
  <2>2. n \div CountAllocate = 0
    BY <2>1, ArrayOf
  <2>3. QED
    BY <2>2 DEF Built, LeadsOn
<1>3. threads # <<>> => threads[Len(threads)].next = Table!Pointer(1, 0)
  BY DEF Built, LeadsBack
<1>4. QED
  BY <1>1, <1>2, <1>3 DEF Ring

LEMMA AddThreadStep ==
  ASSUME RingInv, NEW thread \in Candidates, Table!AddThread(thread)
  PROVE  RingInv'
<1>1. /\ TableTypes /\ Built(threads, place) /\ Fresh(threads, 0)
      /\ running.of = Table!Boot /\ running.at = "runs" /\ ~astray
      /\ UNCHANGED <<current, running, met, astray>>
  BY BuildingIs DEF RingInv, BuiltByBoot, Table!AddThread
<1>2. Len(threads) \in Nat /\ place \in Nat /\ allocated = place * CountAllocate /\ Len(threads) <= allocated
  BY <1>1 DEF TableTypes
<1>3. ASSUME TableTypes', Built(threads, place)', Fresh(threads, 0)' PROVE RingInv'
  BY <1>1, <1>3 DEF RingInv, BuiltByBoot, Strands, TurnsInRing
<1>4. CASE UNCHANGED <<threads, allocated, place>>
  <2>1. TableTypes' /\ Built(threads, place)' /\ Fresh(threads, 0)'
    BY <1>1, <1>4 DEF TableTypes, Built, LeadsOn, LeadsBack, IsOwn, Fresh
  <2>2. QED
    BY <1>3, <2>1
<1>5. ASSUME NEW array \in Nat, array # 0,
             (array - 1) * CountAllocate <= Len(threads), Len(threads) < array * CountAllocate,
             threads' = Table!Linked(thread, array), place' = array, allocated' = array * CountAllocate
      PROVE  RingInv'
  <2>1. /\ threads' \in Seq(Entry) /\ Len(threads') = Len(threads) + 1
        /\ Built(threads', array) /\ Fresh(threads', 0)
    BY <1>1, <1>5, LinkedIsBuilt
  <2>2. Len(threads') <= allocated'
    BY <1>2, <1>5, <2>1, TableConstants
  <2>3. TableTypes'
    BY <1>1, <1>5, <2>1, <2>2 DEF TableTypes
  <2>4. Built(threads, place)' /\ Fresh(threads, 0)'
    BY <1>5, <2>1 DEF Built, LeadsOn, LeadsBack, IsOwn, Fresh
  <2>5. QED
    BY <1>3, <2>3, <2>4
<1>6. CASE Table!HasRoom /\ threads' = Table!Linked(thread, place) /\ UNCHANGED <<allocated, place>>
  <2>1. Len(threads) < place * CountAllocate /\ place # 0
    BY <1>2, <1>6, TableConstants DEF Table!HasRoom, Table!ThreadsCount
  <2>2. (place - 1) * CountAllocate < Len(threads)
    BY <1>1 DEF Built
  <2>3. (place - 1) * CountAllocate <= Len(threads)
    BY <1>2, <2>2, TableConstants
  <2>4. QED
    BY <1>2, <1>5, <1>6, <2>1, <2>3
<1>7. CASE /\ ~Table!HasRoom /\ place' = place + 1 /\ allocated' = allocated + CountAllocate
           /\ threads' = Table!Linked(thread, place')
  <2>1. PICK array \in Nat : array = place + 1
    BY <1>2
  <2>2. array # 0 /\ array - 1 = place /\ place * CountAllocate = Len(threads)
    BY <1>2, <1>7, <2>1 DEF Table!HasRoom, Table!ThreadsCount
  <2>3. array * CountAllocate = place * CountAllocate + CountAllocate
    BY <1>2, <2>1, TableConstants
  <2>4. allocated' = array * CountAllocate /\ Len(threads) < array * CountAllocate
    BY <1>2, <1>7, <2>2, <2>3, TableConstants
  <2>5. QED
    BY <1>2, <1>5, <1>7, <2>1, <2>2, <2>4
<1>8. QED
  BY <1>4, <1>6, <1>7 DEF Table!AddThread, Table!tableVars

-----------------------------------------------------------------------------
(* What a window or a running thread finds in the first array. *)
LEMMA InRing ==
  ASSUME RingInv, ~Table!Building, place = 1 \/ running.of # Table!Boot
  PROVE  /\ TableTypes /\ place = 1 /\ astray = FALSE /\ allocated = CountAllocate
         /\ Turns(current, running, threads, met)
         /\ Len(threads) \in Nat /\ current.index \in 0 .. Len(threads) - 1
         /\ threads \in [1 .. Len(threads) -> Entry] /\ Len(threads) <= CountAllocate
         /\ Table!Lies(current)
<1>1. current.index \in Nat /\ TableTypes /\ astray \in BOOLEAN
  BY DEF RingInv, TableTypes, Pointers
<1>2. place = 1 /\ ~astray /\ Turns(current, running, threads, met)
  BY <1>1, BuildingIs DEF RingInv, TurnsInRing
<1>3. current.array = 1 /\ current.index < Len(threads)
  BY <1>2 DEF Turns, Runs
<1>4. QED
  BY <1>1, <1>2, <1>3, TableConstants DEF TableTypes, Table!Lies, Table!ThreadsCount

(* Whoever runs next in a ring, it is a ring still. *)
LEMMA RingGoesOn ==
  ASSUME TableTypes, place = 1, place' = place, allocated' = allocated,
         threads' \in Seq(Entry), Len(threads') <= allocated', current' \in Pointers,
         running' \in Contexts, met' \in 0 .. 1, astray' = FALSE,
         Turns(current', running', threads', met')
  PROVE  RingInv'
<1>1. running'.of # Table!Boot /\ running' \in [of : Candidates \cup {Table!Boot}, at : Stages]
  BY TableConstants DEF Contexts
<1>2. TableTypes'
  BY <1>1 DEF TableTypes
<1>3. Turns(current, running, threads, met)'
  BY DEF Turns, Ring, Kept, Runs, Rested, Spent, IsOwn
<1>4. QED
  BY <1>1, <1>2, <1>3 DEF RingInv, BuiltByBoot, Strands, TurnsInRing

(* While the boot code is in its window the links and contexts stay. *)
LEMMA WindowGoesOn ==
  ASSUME TableTypes, place' = place, allocated' = allocated,
         threads' \in Seq(Entry), Len(threads') <= allocated', current' \in Pointers,
         running'.of = Table!Boot, running'.at \in {"leaves", "loads"},
         running' \in [of : Candidates \cup {Table!Boot}, at : Stages],
         met' \in 0 .. 1, astray' \in BOOLEAN, Built(threads', place),
         \/ place = 1 /\ astray' = FALSE /\ Turns(current', running', threads', met')
         \/ place # 1 /\ running'.at = "leaves" /\ astray' = TRUE
         \/ place # 1 /\ running'.at = "leaves" /\ current' = Table!Pointer(place, 0) /\ Fresh(threads', met')
  PROVE  RingInv'
<1>1. TableTypes'
  BY DEF TableTypes
<1>2. Built(threads, place)'
  BY DEF Built, LeadsOn, LeadsBack, IsOwn
<1>3. Turns(current', running', threads', met') => Turns(current, running, threads, met)'
  BY DEF Turns, Ring, Kept, Runs, Rested, Spent, IsOwn
<1>4. Fresh(threads', met') => Fresh(threads, met)'
  BY DEF Fresh
<1>5. BuiltByBoot'
  BY <1>2 DEF BuiltByBoot
<1>6. Strands'
  BY <1>4 DEF Strands, Table!Pointer
<1>7. TurnsInRing'
  BY <1>3 DEF TurnsInRing
<1>8. QED
  BY <1>1, <1>5, <1>6, <1>7 DEF RingInv

(* Where the pointers of a ring lead to. *)
LEMMA NextInRing ==
  ASSUME NEW table \in Seq(Entry), Ring(table), NEW index \in 0 .. Len(table) - 1
  PROVE  \E following \in 0 .. Len(table) - 1 : table[index + 1].next = Table!Pointer(1, following)
<1>1. PICK n \in 1 .. Len(table) : n = index + 1
  OBVIOUS
<1>2. PICK following \in 0 .. Len(table) - 1 : following = IF n = Len(table) THEN 0 ELSE n
  OBVIOUS
<1>3. table[n].next = Table!Pointer(1, following)
  BY <1>2 DEF Ring
<1>4. QED
  BY <1>1, <1>3

LEMMA RunStep == RingInv /\ Table!Run => RingInv'
<1> SUFFICES ASSUME RingInv, Table!Run
             PROVE  RingInv'
  OBVIOUS
<1>1. /\ TableTypes /\ Built(threads, place) /\ Fresh(threads, 0) /\ astray = FALSE
      /\ UNCHANGED <<threads, allocated, place, astray>> /\ met' = 0
  BY BuildingIs DEF RingInv, BuiltByBoot, Table!Run, Table!tableVars, TableTypes
<1>2. current' = Table!Pointer(place, 0) /\ running' = [of |-> Table!Boot, at |-> "leaves"]
  BY DEF Table!Run, Table!Context
<1>3. /\ threads \in Seq(Entry) /\ Len(threads) \in Nat /\ place \in Nat
      /\ allocated = place * CountAllocate /\ Len(threads) <= allocated
  BY <1>1 DEF TableTypes
<1>4. /\ current' \in Pointers /\ running' \in [of : Candidates \cup {Table!Boot}, at : Stages]
      /\ current'.array = place /\ current'.index = 0
  BY <1>2, <1>3 DEF Pointers, Stages, Table!Pointer
<1>5. CASE place = 1
  <2>1. Ring(threads) /\ Kept(threads) /\ Len(threads) > 0 /\ Len(threads) <= CountAllocate
    BY <1>1, <1>3, <1>5, BuiltIsRing, TableConstants DEF Built, Kept
  <2>2. Runs(current', running', threads')
    BY <1>1, <1>2, <1>4, <1>5, <2>1 DEF Runs
  <2>3. Rested(current', running', threads', met')
    <3> SUFFICES ASSUME NEW n \in 1 .. Len(threads)
                 PROVE  threads[n].ticks + (CountAllocate - Len(threads) + 0) >= TableQuantum
      BY <1>1, <1>2 DEF Rested, Spent
    <3>1. threads[n].ticks \in Nat
      <4>1. threads[n] \in Entry
        BY <1>3
      <4>2. QED
        BY <4>1, TableConstants DEF Entry
    <3>2. threads[n].ticks + 0 >= TableQuantum
      BY <1>1 DEF Fresh
    <3>3. QED
      BY <1>3, <2>1, <3>1, <3>2, TableConstants
  <2>4. Turns(current', running', threads', met')
    BY <1>1, <2>1, <2>2, <2>3 DEF Turns
  <2>5. running'.of = Table!Boot /\ running'.at \in {"leaves", "loads"} /\ met' \in 0 .. 1
    BY <1>1, <1>2
  <2>6. threads' \in Seq(Entry) /\ Len(threads') <= allocated' /\ Built(threads', place)
    BY <1>1, <1>3
  <2>7. QED
    BY <1>1, <1>4, <1>5, <2>4, <2>5, <2>6, WindowGoesOn
<1>6. CASE place # 1
  <2>1. Fresh(threads', met')
    BY <1>1
  <2>2. running'.of = Table!Boot /\ running'.at = "leaves" /\ met' \in 0 .. 1
    BY <1>1, <1>2
  <2>3. threads' \in Seq(Entry) /\ Len(threads') <= allocated' /\ Built(threads', place)
    BY <1>1, <1>3
  <2>4. QED
    BY <1>1, <1>2, <1>4, <1>6, <2>1, <2>2, <2>3, WindowGoesOn
<1>7. QED
  BY <1>5, <1>6

(* A tick that leaves the processor where it is costs the current thread a *)
(* tick, and nothing else.                                                 *)
LEMMA TickIsTaken ==
  ASSUME TableTypes, NEW m \in 1 .. Len(threads), m = current.index + 1, Table!StayOnTick
  PROVE  /\ threads' \in Seq(Entry) /\ Len(threads') = Len(threads)
         /\ \A n \in 1 .. Len(threads) :
              /\ threads'[n].thread = threads[n].thread /\ threads'[n].next = threads[n].next
              /\ threads'[n].saved = threads[n].saved
              /\ threads'[n].ticks = IF n = m THEN threads[n].ticks - 1 ELSE threads[n].ticks
<1>1. threads \in [1 .. Len(threads) -> Entry] /\ Len(threads) \in Nat
  BY DEF TableTypes
<1>2. threads' = [threads EXCEPT ![m].ticks = @ - 1] /\ threads[m].ticks # 0
  BY DEF Table!StayOnTick, Table!CurrentEntry
<1>3. ASSUME NEW n \in 1 .. Len(threads)
      PROVE  /\ threads'[n] \in Entry
             /\ threads'[n].thread = threads[n].thread /\ threads'[n].next = threads[n].next
             /\ threads'[n].saved = threads[n].saved
             /\ threads'[n].ticks = IF n = m THEN threads[n].ticks - 1 ELSE threads[n].ticks
  <2>1. threads[n] \in Entry
    BY <1>1
  <2>2. threads'[n] = IF n = m THEN [threads[n] EXCEPT !.ticks = @ - 1] ELSE threads[n]
    BY <1>1, <1>2
  <2>3. n = m => threads[n].ticks - 1 \in 0 .. TableQuantum
    BY <1>2, <2>1, TableConstants DEF Entry
  <2>4. QED
    BY <2>1, <2>2, <2>3 DEF Entry
<1>4. threads' \in Seq(Entry) /\ Len(threads') = Len(threads)
  <2>1. threads' \in [1 .. Len(threads) -> Entry]
    BY <1>1, <1>2, <1>3
  <2>2. QED
    BY <1>1, <2>1
<1>5. QED
  BY <1>3, <1>4

(* What a table is does not depend on its ticks. *)
LEMMA AsBefore ==
  ASSUME TableTypes, threads' \in Seq(Entry), Len(threads') = Len(threads),
         \A n \in 1 .. Len(threads) :
           /\ threads'[n].thread = threads[n].thread /\ threads'[n].next = threads[n].next
           /\ threads'[n].saved = threads[n].saved
  PROVE  /\ Built(threads, place) => Built(threads', place)
         /\ Ring(threads) => Ring(threads')
         /\ Kept(threads) => Kept(threads')
<1>1. Len(threads) \in Nat /\ (threads = <<>> <=> Len(threads) = 0) /\ (threads' = <<>> <=> Len(threads') = 0)
  BY DEF TableTypes
<1>2. \A n \in 1 .. Len(threads) : IsOwn(threads, n) => IsOwn(threads', n)
  BY DEF IsOwn
<1>3. \A n \in 1 .. Len(threads) - 1 : LeadsOn(threads, n) => LeadsOn(threads', n)
  BY <1>1 DEF LeadsOn
<1>4. threads # <<>> /\ LeadsBack(threads, place) => LeadsBack(threads', place)
  BY <1>1 DEF LeadsBack
<1>5. Ring(threads) => Ring(threads')
  BY DEF Ring
<1>6. QED
  BY <1>1, <1>2, <1>3, <1>4, <1>5 DEF Built, Kept

(* The tick of a window, and any tick before the quantum is used up.       *)
LEMMA StayStep ==
  ASSUME RingInv, Table!Schedule, Table!Lies(current), Table!StayOnTick,
         met' = IF Table!InWindow THEN met + 1 ELSE 0
  PROVE  RingInv'
<1>1. /\ TableTypes /\ astray = FALSE /\ met \in 0 .. 1 /\ ~Table!Building
      /\ running.at # "runs" => met = 0
      /\ UNCHANGED <<allocated, place, current, running, astray>>
  BY DEF Table!Schedule, Table!StayOnTick, RingInv, TableTypes, Table!InWindow, Table!WindowTicks
<1>2. Len(threads) \in Nat /\ Len(threads) <= allocated /\ current \in Pointers
  BY <1>1 DEF TableTypes
<1>3. PICK m \in 1 .. Len(threads) : m = current.index + 1
  BY <1>2 DEF Table!Lies, Table!ThreadsCount, Pointers
<1>4. /\ threads' \in Seq(Entry) /\ Len(threads') = Len(threads)
      /\ \A n \in 1 .. Len(threads) :
           /\ threads'[n].thread = threads[n].thread /\ threads'[n].next = threads[n].next
           /\ threads'[n].saved = threads[n].saved
           /\ threads'[n].ticks = IF n = m THEN threads[n].ticks - 1 ELSE threads[n].ticks
  BY <1>1, <1>3, TickIsTaken
<1>5. /\ Built(threads, place) => Built(threads', place)
      /\ Ring(threads) => Ring(threads')
      /\ Kept(threads) => Kept(threads')
  BY <1>1, <1>4, AsBefore
<1>6. \A n \in 1 .. Len(threads) : threads[n].ticks \in Nat /\ threads'[n].ticks \in Nat
  <2> TAKE n \in 1 .. Len(threads)
  <2>1. threads[n] \in Entry /\ threads'[n] \in Entry
    BY <1>1, <1>4 DEF TableTypes
  <2>2. QED
    BY <2>1, TableConstants DEF Entry
<1>7. met' \in 0 .. 1 /\ (running.at # "runs" => met' = 1)
  BY <1>1 DEF Table!InWindow
<1>8. CASE place = 1 \/ running.of # Table!Boot
  <2>1. place = 1 /\ Turns(current, running, threads, met) /\ Len(threads) <= CountAllocate
    BY <1>1, <1>8, InRing
  <2>2. Runs(current', running', threads')
    BY <1>1, <1>3, <1>4, <2>1 DEF Turns, Runs
  <2>3. Rested(current', running', threads', met')
    <3> SUFFICES ASSUME NEW n \in 1 .. Len(threads), ~(running.at = "runs" /\ n = current.index + 1)
                 PROVE  threads'[n].ticks + Spent(threads', running, met') >= TableQuantum
      BY <1>1, <1>4 DEF Rested
    <3>1. threads[n].ticks + Spent(threads, running, met) >= TableQuantum
      BY <2>1 DEF Turns, Rested
    <3>2. CASE running.at = "runs"
      <4>1. Spent(threads', running, met') = Spent(threads, running, met) /\ n # m
        BY <1>3, <1>4, <3>2 DEF Spent
      <4>2. threads'[n].ticks = threads[n].ticks
        BY <1>4, <4>1
      <4>3. QED
        BY <3>1, <4>1, <4>2
    <3>3. CASE running.at # "runs"
      <4>1. /\ Spent(threads, running, met) = CountAllocate - Len(threads)
            /\ Spent(threads', running, met') = CountAllocate - Len(threads) + 1
        BY <1>1, <1>2, <1>4, <1>7, <3>3, TableConstants DEF Spent
      <4>2. threads'[n].ticks + 1 >= threads[n].ticks
        BY <1>4, <1>6
      <4>3. QED
        BY <1>2, <1>6, <3>1, <4>1, <4>2, TableConstants
    <3>4. QED
      BY <3>2, <3>3
  <2>4. Turns(current', running', threads', met')
    BY <1>5, <2>1, <2>2, <2>3 DEF Turns
  <2>5. CASE running.of # Table!Boot
    <3>1. running \in Contexts
      BY <1>1, <2>5 DEF TableTypes, Contexts
    <3>2. QED
      BY <1>1, <1>2, <1>4, <1>7, <2>1, <2>4, <3>1, RingGoesOn
  <2>6. CASE running.of = Table!Boot
    <3>1. running.at \in {"leaves", "loads"}
      BY <1>1, <2>6, BuildingIs DEF TableTypes, Stages
    <3>2. Built(threads', place)
      BY <1>5, <2>6 DEF RingInv, BuiltByBoot
    <3>3. running \in [of : Candidates \cup {Table!Boot}, at : Stages]
      BY <1>1 DEF TableTypes
    <3>4. QED
      BY <1>1, <1>2, <1>4, <1>7, <2>1, <2>4, <2>6, <3>1, <3>2, <3>3, WindowGoesOn
  <2>7. QED
    BY <2>5, <2>6
<1>9. CASE place # 1 /\ running.of = Table!Boot
  <2>1. running.at # "runs"
    BY <1>1, <1>9, BuildingIs
  <2>2. running.at = "leaves" /\ current = Table!Pointer(place, 0) /\ Fresh(threads, met)
    BY <1>1, <1>9, <2>1 DEF RingInv, Strands
  <2>3. Fresh(threads', met')
    <3> SUFFICES ASSUME NEW n \in 1 .. Len(threads)
                 PROVE  threads'[n].ticks + 1 >= TableQuantum
      BY <1>4, <1>7, <2>1 DEF Fresh
    <3>1. threads[n].ticks + 0 >= TableQuantum
      BY <1>1, <2>1, <2>2 DEF Fresh
    <3>2. threads'[n].ticks + 1 >= threads[n].ticks
      BY <1>4, <1>6
    <3>3. QED
      BY <1>6, <3>1, <3>2, TableConstants
  <2>4. Built(threads', place)
    BY <1>5, <1>9 DEF RingInv, BuiltByBoot
  <2>5. running \in [of : Candidates \cup {Table!Boot}, at : Stages]
    BY <1>1 DEF TableTypes
  <2>6. QED
    BY <1>1, <1>2, <1>4, <1>7, <1>9, <2>2, <2>3, <2>4, <2>5, WindowGoesOn
<1>10. QED
  BY <1>8, <1>9

(* In a window there are ticks left. *)
LEMMA NoSwitchInWindow ==
  ASSUME RingInv, Table!Schedule, Table!Lies(current), running.at # "runs"
  PROVE  Table!CurrentEntry.ticks # 0
<1>1. /\ TableTypes /\ astray = FALSE /\ met = 0 /\ ~Table!Building
  BY DEF Table!Schedule, RingInv, TableTypes, Table!InWindow, Table!WindowTicks
<1>2. Len(threads) \in Nat /\ current.index \in Nat /\ current.index < Len(threads)
  BY <1>1 DEF TableTypes, Table!Lies, Table!ThreadsCount, Pointers
<1>3. PICK m \in 1 .. Len(threads) : m = current.index + 1
  BY <1>2
<1>4. threads[m].ticks \in Nat
  <2>1. threads[m] \in Entry
    BY <1>1 DEF TableTypes
  <2>2. QED
    BY <2>1, TableConstants DEF Entry
<1>5. CASE place = 1 \/ running.of # Table!Boot
  <2>1. Turns(current, running, threads, met) /\ Len(threads) <= CountAllocate
    BY <1>1, <1>5, InRing
  <2>2. threads[m].ticks + (CountAllocate - Len(threads) + 0) >= TableQuantum
    BY <1>1, <2>1 DEF Turns, Rested, Spent
  <2>3. threads[m].ticks # 0
    BY <1>2, <1>4, <2>2, TableConstants
  <2>4. QED
    BY <1>3, <2>3 DEF Table!CurrentEntry
<1>6. CASE place # 1 /\ running.of = Table!Boot
  <2>1. Fresh(threads, 0)
    BY <1>1, <1>6 DEF RingInv, Strands
  <2>2. threads[m].ticks + 0 >= TableQuantum
    BY <2>1 DEF Fresh
  <2>3. threads[m].ticks # 0
    BY <1>4, <2>2, TableConstants
  <2>4. QED
    BY <1>3, <2>3 DEF Table!CurrentEntry
<1>7. QED
  BY <1>5, <1>6

(* The thread that has used up its quantum gets another, and its context   *)
(* is saved: its own.                                                      *)
LEMMA UsedStays ==
  ASSUME RingInv, ~Table!Building, running.at = "runs"
  PROVE  /\ Table!Used \in Seq(Entry) /\ Len(Table!Used) = Len(threads)
         /\ Ring(Table!Used) /\ Kept(Table!Used)
         /\ \A n \in 1 .. Len(threads) : Table!Used[n].ticks + Spent(threads, running, met) >= TableQuantum
<1>1. running.of # Table!Boot /\ TableTypes
  BY BuildingIs DEF RingInv
<1>2. /\ Len(threads) \in Nat /\ current.index \in 0 .. Len(threads) - 1
      /\ threads \in [1 .. Len(threads) -> Entry] /\ Turns(current, running, threads, met)
      /\ Len(threads) <= CountAllocate
  BY <1>1, InRing
<1>3. PICK m \in 1 .. Len(threads) : m = current.index + 1
  BY <1>2
<1>4. running = [of |-> threads[m].thread, at |-> "runs"] /\ running \in Contexts
  <2>1. threads[m].thread = running.of
    BY <1>2, <1>3 DEF Turns, Runs
  <2>2. QED
    BY <1>1, <2>1 DEF TableTypes, Contexts
<1>5. PICK table : table = [threads EXCEPT ![m].saved = running, ![m].ticks = TableQuantum]
  OBVIOUS
<1>6. ASSUME NEW n \in 1 .. Len(threads)
      PROVE  /\ table[n] \in Entry /\ table[n].thread = threads[n].thread /\ table[n].next = threads[n].next
             /\ table[n].saved = IF n = m THEN running ELSE threads[n].saved
             /\ table[n].ticks = IF n = m THEN TableQuantum ELSE threads[n].ticks
  <2>1. threads[n] \in Entry /\ TableQuantum \in 0 .. TableQuantum
    BY <1>2, TableConstants
  <2>2. table[n] = IF n = m THEN [threads[n] EXCEPT !.saved = running, !.ticks = TableQuantum] ELSE threads[n]
    BY <1>2, <1>5
  <2>3. QED
    BY <1>4, <2>1, <2>2 DEF Entry
<1>7. table \in Seq(Entry) /\ Len(table) = Len(threads)
  <2>1. table \in [1 .. Len(threads) -> Entry]
    BY <1>2, <1>5, <1>6
  <2>2. QED
    BY <1>2, <2>1
<1>8. Ring(table)
  BY <1>2, <1>6, <1>7 DEF Ring, Turns
<1>9. ASSUME NEW n \in 1 .. Len(threads) PROVE IsOwn(table, n)
  <2>1. CASE n # m
    BY <1>2, <1>6, <2>1 DEF IsOwn, Turns, Kept
  <2>2. CASE n = m
    BY <1>4, <1>6, <2>2 DEF IsOwn, Table!Context
  <2>3. QED
    BY <2>1, <2>2
<1>10. ASSUME NEW n \in 1 .. Len(threads)
       PROVE  table[n].ticks + Spent(threads, running, met) >= TableQuantum
  <2>1. CASE n # m
    BY <1>2, <1>3, <1>6, <2>1 DEF Turns, Rested
  <2>2. CASE n = m
    <3>1. Spent(threads, running, met) = CountAllocate - Len(threads) + 1
      BY DEF Spent
    <3>2. QED
      BY <1>2, <1>6, <2>2, <3>1, TableConstants
  <2>3. QED
    BY <2>1, <2>2
<1>11. Table!Used = table
  BY <1>3, <1>5 DEF Table!Used
<1>12. QED
  BY <1>7, <1>8, <1>9, <1>10, <1>11 DEF Kept

(* To load a thread of the ring is to go on with its context. *)
LEMMA LoadedRuns ==
  ASSUME NEW table \in Seq(Entry), NEW index \in 0 .. Len(table) - 1, NEW context,
         Ring(table), Kept(table), context = table[index + 1].saved,
         Len(table) <= CountAllocate,
         NEW ticks, \A n \in 1 .. Len(table) : table[n].ticks + (CountAllocate - Len(table) + 1) >= TableQuantum
  PROVE  context \in Contexts /\ Turns(Table!Pointer(1, index), context, table, ticks)
<1>1. PICK n \in 1 .. Len(table) : n = index + 1
  OBVIOUS
<1>2. table[n] \in Entry
  OBVIOUS
<1>3. context = [of |-> table[n].thread, at |-> "runs"]
  BY <1>1 DEF Kept, IsOwn, Table!Context
<1>4. context \in Contexts
  BY <1>2, <1>3 DEF Entry, Contexts, Stages
<1>5. Runs(Table!Pointer(1, index), context, table)
  BY <1>1, <1>3 DEF Runs, Table!Pointer
<1>6. context.at = "runs"
  BY <1>3
<1>7. Rested(Table!Pointer(1, index), context, table, ticks)
  BY <1>6 DEF Rested, Spent
<1>8. QED
  BY <1>4, <1>5, <1>7 DEF Turns

LEMMA SwitchOnTickStep ==
  ASSUME RingInv, Table!Schedule, Table!Lies(current), Table!SwitchOnTick,
         met' = IF Table!InWindow THEN met + 1 ELSE 0
  PROVE  RingInv'
<1>1. ~Table!Building /\ running.at = "runs" /\ met' = 0
  BY NoSwitchInWindow DEF Table!Schedule, Table!SwitchOnTick, Table!InWindow
<1>2. running.of # Table!Boot /\ TableTypes
  BY <1>1, BuildingIs DEF RingInv
<1>3. /\ place = 1 /\ astray = FALSE /\ allocated = CountAllocate /\ Turns(current, running, threads, met)
      /\ Len(threads) \in Nat /\ current.index \in 0 .. Len(threads) - 1 /\ Len(threads) <= CountAllocate
  BY <1>1, <1>2, InRing
<1>4. threads' = Table!Used /\ UNCHANGED <<allocated, place>>
  BY DEF Table!SwitchOnTick
<1>5. /\ threads' \in Seq(Entry) /\ Len(threads') = Len(threads) /\ Ring(threads') /\ Kept(threads')
      /\ \A n \in 1 .. Len(threads) : threads'[n].ticks + (CountAllocate - Len(threads) + 1) >= TableQuantum
  BY <1>1, <1>4, UsedStays DEF Spent
<1>6. PICK following \in 0 .. Len(threads) - 1 : threads[current.index + 1].next = Table!Pointer(1, following)
  BY <1>2, <1>3, NextInRing DEF TableTypes, Turns
<1>7. current' = Table!Pointer(1, following)
  BY <1>6 DEF Table!SwitchOnTick, Table!CurrentEntry
<1>8. current'.array = 1 /\ current'.index = following /\ current' \in Pointers
  BY <1>7 DEF Table!Pointer, Pointers
<1>9. (Table!Lies(current'))
  BY <1>3, <1>8 DEF Table!Lies, Table!ThreadsCount
<1>10. running' = threads'[following + 1].saved /\ astray' = FALSE
  BY <1>3, <1>8, <1>9 DEF Table!SwitchOnTick
<1>11. running' \in Contexts /\ Turns(current', running', threads', met')
  BY <1>3, <1>5, <1>7, <1>10, LoadedRuns
<1>12. Len(threads') <= allocated' /\ place' = place /\ allocated' = allocated /\ met' \in 0 .. 1
  BY <1>1, <1>3, <1>4, <1>5
<1>13. QED
  BY <1>2, <1>3, <1>5, <1>8, <1>10, <1>11, <1>12, RingGoesOn

(* A boot code that finds no table has its tick go astray as well. *)
LEMMA StrayStep ==
  ASSUME RingInv, ~Table!Building, running.of = Table!Boot, place # 1, running.at = "leaves",
         Table!Stray, UNCHANGED current
  PROVE  RingInv'
<1>1. TableTypes /\ Built(threads, place)
  BY DEF RingInv, BuiltByBoot
<1>2. astray' = TRUE /\ UNCHANGED <<threads, allocated, place, running, met, current>>
  BY DEF Table!Stray, Table!tableVars
<1>3. QED
  BY <1>1, <1>2, WindowGoesOn DEF TableTypes

LEMMA ScheduleStep == RingInv /\ Table!Schedule => RingInv'
<1> SUFFICES ASSUME RingInv, Table!Schedule
             PROVE  RingInv'
  OBVIOUS
<1>1. CASE /\ Table!Lies(current)
           /\ met' = IF Table!InWindow THEN met + 1 ELSE 0
           /\ Table!StayOnTick \/ Table!SwitchOnTick
  BY <1>1, StayStep, SwitchOnTickStep
<1>2. CASE ~Table!Lies(current) /\ Table!Stray /\ UNCHANGED current
  <2>1. ~Table!Building /\ astray # TRUE
    BY DEF Table!Schedule
  <2>2. place # 1 /\ running.of = Table!Boot
    BY <1>2, <2>1, InRing
  <2>3. running.at = "leaves"
    BY <2>1, <2>2, BuildingIs DEF RingInv, Strands
  <2>4. QED
    BY <1>2, <2>1, <2>2, <2>3, StrayStep
<1>3. QED
  BY <1>1, <1>2 DEF Table!Schedule

LEMMA LeaveStep == RingInv /\ Table!Leave => RingInv'
<1> SUFFICES ASSUME RingInv, Table!Leave
             PROVE  RingInv'
  OBVIOUS
<1>1. TableTypes /\ running.at = "leaves" /\ ~Table!Building /\ astray = FALSE
  BY BuildingIs DEF Table!Leave, RingInv, TableTypes
<1>2. CASE place = 1 \/ running.of # Table!Boot
  <2>1. /\ place = 1 /\ allocated = CountAllocate /\ Turns(current, running, threads, met)
        /\ Len(threads) \in Nat /\ current.index \in 0 .. Len(threads) - 1
        /\ threads \in Seq(Entry) /\ Len(threads) <= CountAllocate /\ Table!Lies(current)
    BY <1>1, <1>2, InRing DEF TableTypes
  <2>2. PICK following \in 0 .. Len(threads) - 1 : threads[current.index + 1].next = Table!Pointer(1, following)
    BY <2>1, NextInRing DEF Turns
  <2>3. Table!Lies(Table!CurrentEntry.next)
    BY <2>1, <2>2 DEF Table!Lies, Table!ThreadsCount, Table!CurrentEntry, Table!Pointer
  <2>4. /\ current' = Table!Pointer(1, following) /\ running' = [running EXCEPT !.at = "loads"]
        /\ UNCHANGED <<threads, allocated, place, met, astray>>
    BY <2>1, <2>2, <2>3 DEF Table!Leave, Table!CurrentEntry, Table!tableVars
  <2>5. /\ running'.of = running.of /\ running'.at = "loads" /\ current' \in Pointers
        /\ current'.array = 1 /\ current'.index = following
        /\ running' \in [of : Candidates \cup {Table!Boot}, at : Stages]
    BY <1>1, <2>4 DEF TableTypes, Stages, Table!Pointer, Pointers
  <2>6. Turns(current', running', threads', met')
    <3>1. Runs(current', running', threads')
      BY <2>1, <2>4, <2>5 DEF Runs
    <3>2. Rested(current', running', threads', met')
      BY <1>1, <2>1, <2>4, <2>5 DEF Turns, Rested, Spent
    <3>3. QED
      BY <2>1, <2>4, <3>1, <3>2 DEF Turns
  <2>7. met' \in 0 .. 1 /\ Len(threads') <= allocated' /\ threads' \in Seq(Entry) /\ astray' = FALSE
    BY <1>1, <2>1, <2>4 DEF TableTypes
  <2>8. CASE running.of # Table!Boot
    <3>1. running' \in Contexts
      BY <2>5, <2>8 DEF Contexts
    <3>2. QED
      BY <1>1, <2>1, <2>4, <2>5, <2>6, <2>7, <3>1, RingGoesOn
  <2>9. CASE running.of = Table!Boot
    <3>1. Built(threads', place)
      BY <2>4, <2>9 DEF RingInv, BuiltByBoot
    <3>2. QED
      BY <1>1, <2>1, <2>4, <2>5, <2>6, <2>7, <2>9, <3>1, WindowGoesOn
  <2>10. QED
    BY <2>8, <2>9
<1>3. CASE place # 1 /\ running.of = Table!Boot
  <2>1. Built(threads, place) /\ current = Table!Pointer(place, 0)
    BY <1>1, <1>3 DEF RingInv, BuiltByBoot, Strands
  <2>2. ~(Table!Lies(current) /\ Table!Lies(Table!CurrentEntry.next))
    <3> SUFFICES ASSUME Table!Lies(current), Table!Lies(Table!CurrentEntry.next)
                 PROVE  FALSE
      OBVIOUS
    <3>1. /\ Len(threads) \in Nat /\ place \in Nat /\ Len(threads) <= place * CountAllocate /\ Len(threads) > 0
          /\ current.index = 0
      BY <1>1, <2>1 DEF TableTypes, Table!Lies, Table!ThreadsCount, Table!Pointer
    <3>2. place > 1
      BY <1>3, <3>1, TableConstants
    <3>3. CountAllocate <= (place - 1) * CountAllocate
      BY <3>1, <3>2, TableConstants
    <3>4. (place - 1) * CountAllocate < Len(threads) /\ (place - 1) * CountAllocate \in Int
      BY <2>1, <3>1, TableConstants DEF Built
    <3>5. 1 \in 1 .. Len(threads) - 1
      BY <3>1, <3>3, <3>4, TableConstants
    <3>6. 1 \div CountAllocate = 0
      BY ArrayOf, TableConstants
    <3>7. threads[1].next = [array |-> 1, index |-> 1]
      BY <2>1, <3>5, <3>6 DEF Built, LeadsOn, Table!Pointer
    <3>8. Table!CurrentEntry.next = [array |-> 1, index |-> 1]
      BY <3>1, <3>7 DEF Table!CurrentEntry
    <3>9. QED
      BY <3>2, <3>8 DEF Table!Lies
  <2>3. Table!Stray /\ UNCHANGED current
    BY <2>2 DEF Table!Leave
  <2>4. QED
    BY <1>1, <1>3, <2>3, StrayStep
<1>4. QED
  BY <1>2, <1>3

LEMMA LoadStep == RingInv /\ Table!Load => RingInv'
<1> SUFFICES ASSUME RingInv, Table!Load
             PROVE  RingInv'
  OBVIOUS
<1>1. /\ TableTypes /\ running.at = "loads" /\ ~Table!Building /\ astray = FALSE /\ met \in 0 .. 1
      /\ running' = threads[current.index + 1].saved /\ met' = 0
      /\ UNCHANGED <<threads, allocated, place, current, astray>>
  BY BuildingIs DEF Table!Load, RingInv, TableTypes, Table!tableVars, Table!CurrentEntry
<1>2. place = 1 \/ running.of # Table!Boot
  BY <1>1 DEF RingInv, Strands
<1>3. /\ place = 1 /\ allocated = CountAllocate /\ Turns(current, running, threads, met)
      /\ Len(threads) \in Nat /\ current.index \in 0 .. Len(threads) - 1
      /\ threads \in Seq(Entry) /\ Len(threads) <= CountAllocate
  BY <1>1, <1>2, InRing DEF TableTypes
<1>4. current = Table!Pointer(1, current.index) /\ current \in Pointers
  BY <1>1, <1>3 DEF TableTypes, Turns, Runs, Pointers, Table!Pointer
<1>5. \A n \in 1 .. Len(threads) : threads[n].ticks + (CountAllocate - Len(threads) + 1) >= TableQuantum
  <2> TAKE n \in 1 .. Len(threads)
  <2>1. threads[n] \in Entry
    BY <1>3
  <2>2. threads[n].ticks \in Nat
    BY <2>1, TableConstants DEF Entry
  <2>3. threads[n].ticks + (CountAllocate - Len(threads) + met) >= TableQuantum
    BY <1>1, <1>3 DEF Turns, Rested, Spent
  <2>4. QED
    BY <1>1, <1>3, <2>2, <2>3, TableConstants
<1>6. Ring(threads) /\ Kept(threads)
  BY <1>3 DEF Turns
<1>7. PICK index \in 0 .. Len(threads) - 1 : index = current.index
  BY <1>3
<1>8. running' \in Contexts /\ Turns(Table!Pointer(1, index), running', threads, met')
  BY <1>1, <1>3, <1>5, <1>6, <1>7, LoadedRuns
<1>9. Turns(current', running', threads', met')
  BY <1>1, <1>4, <1>7, <1>8
<1>10. /\ threads' \in Seq(Entry) /\ Len(threads') <= allocated' /\ place' = place /\ allocated' = allocated
       /\ met' \in 0 .. 1 /\ current' \in Pointers /\ astray' = FALSE
  BY <1>1, <1>3, <1>4
<1>11. QED
  BY <1>1, <1>3, <1>8, <1>9, <1>10, RingGoesOn

(* The table without the thread CurrentThread_ points to, never the first. *)
LEMMA WithoutStays ==
  ASSUME RingInv, ~Table!Building, running.at = "runs", Table!MayRemove
  PROVE  /\ Table!Without(current.index + 1) \in Seq(Entry)
         /\ Len(Table!Without(current.index + 1)) = Len(threads) - 1 /\ Len(threads) > 1
         /\ Ring(Table!Without(current.index + 1)) /\ Kept(Table!Without(current.index + 1))
         /\ \A n \in 1 .. Len(threads) - 1 :
              Table!Without(current.index + 1)[n].ticks + (CountAllocate - Len(threads) + 1) >= TableQuantum
<1>0. /\ TableTypes /\ place = 1 /\ Turns(current, running, threads, met) /\ Len(threads) \in Nat
      /\ current.index \in 0 .. Len(threads) - 1 /\ threads \in [1 .. Len(threads) -> Entry]
  BY BuildingIs, InRing DEF RingInv
<1>1. PICK m \in 1 .. Len(threads) : m = current.index + 1
  BY <1>0
<1>2. Len(threads) > 1 /\ m > 1
  BY <1>0, <1>1 DEF Table!MayRemove
<1>3. PICK c \in Nat : Len(threads) = c + 1 /\ c > 0
  <2>1. Len(threads) - 1 \in Nat /\ Len(threads) = (Len(threads) - 1) + 1 /\ Len(threads) - 1 > 0
    BY <1>0, <1>2
  <2>2. QED
    BY <2>1
<1> DEFINE Up(n) == [threads[n + 1] EXCEPT !.next = Table!Pointer(1, n)]
           moved == [n \in 1 .. c |-> IF n < m THEN threads[n] ELSE Up(n)]
           closed == [moved EXCEPT ![c].next = Table!Pointer(1, 0)]
<1>4. ASSUME NEW n \in 1 .. c
      PROVE  \E k \in 1 .. Len(threads) :
               /\ k # m
               /\ moved[n] \in Entry /\ moved[n].thread = threads[k].thread /\ moved[n].saved = threads[k].saved
               /\ moved[n].ticks = threads[k].ticks
               /\ n < c => moved[n].next = Table!Pointer(1, n)
  <2>1. CASE n < m
    <3>1. n \in 1 .. Len(threads) /\ moved[n] = threads[n] /\ n # m
      BY <1>0, <1>3, <2>1
    <3>2. threads[n] \in Entry
      BY <1>0, <3>1
    <3>3. n < c => threads[n].next = Table!Pointer(1, n)
      BY <1>0, <1>3, <3>1 DEF Turns, Ring
    <3>4. QED
      BY <3>1, <3>2, <3>3
  <2>2. CASE ~(n < m)
    <3>1. PICK k \in 1 .. Len(threads) : k = n + 1
      BY <1>3
    <3>2. threads[k] \in Entry /\ Table!Pointer(1, n) \in Pointers
      BY <1>0, <3>1 DEF Table!Pointer, Pointers
    <3>3. moved[n] = [threads[k] EXCEPT !.next = Table!Pointer(1, n)]
      BY <2>2, <3>1
    <3>4. /\ moved[n] \in Entry /\ moved[n].thread = threads[k].thread /\ moved[n].saved = threads[k].saved
          /\ moved[n].ticks = threads[k].ticks /\ moved[n].next = Table!Pointer(1, n)
      BY <3>2, <3>3 DEF Entry
    <3>5. k # m
      BY <1>0, <2>2, <3>1
    <3>6. QED
      BY <3>4, <3>5
  <2>3. QED
    BY <2>1, <2>2
<1>5. Len(moved) = c /\ moved \in [1 .. c -> Entry]
  BY <1>4
<1>6. Table!Without(current.index + 1) = closed
  <2>1. Len(threads) - 1 = c /\ place = 1 /\ current.index + 1 = m
    BY <1>0, <1>1, <1>3
  <2>2. Table!Without(m) = Table!Closed(moved)
    BY <2>1 DEF Table!Without, Table!ThreadsCount
  <2>3. Table!Closed(moved) = closed
    BY <2>1, <1>5 DEF Table!Closed
  <2>4. QED
    BY <2>1, <2>2, <2>3
<1> HIDE DEF moved
<1>7. ASSUME NEW n \in 1 .. c
      PROVE  /\ closed[n] \in Entry /\ closed[n].thread = moved[n].thread /\ closed[n].saved = moved[n].saved
             /\ closed[n].ticks = moved[n].ticks
             /\ closed[n].next = IF n = c THEN Table!Pointer(1, 0) ELSE moved[n].next
  <2>1. moved[n] \in Entry /\ Table!Pointer(1, 0) \in Pointers
    BY <1>5 DEF Table!Pointer, Pointers
  <2>2. closed[n] = IF n = c THEN [moved[n] EXCEPT !.next = Table!Pointer(1, 0)] ELSE moved[n]
    BY <1>5
  <2>3. QED
    BY <2>1, <2>2 DEF Entry
<1>8. closed \in [1 .. c -> Entry]
  <2>1. DOMAIN closed = 1 .. c
    BY <1>5
  <2>2. QED
    BY <1>5, <1>7, <2>1
<1> HIDE DEF closed
<1>9. closed \in Seq(Entry) /\ Len(closed) = c
  BY <1>3, <1>8
<1>10. Ring(closed)
  <2> SUFFICES ASSUME NEW n \in 1 .. c
               PROVE  closed[n].next = Table!Pointer(1, IF n = c THEN 0 ELSE n)
    BY <1>9 DEF Ring
  <2>1. n < c => moved[n].next = Table!Pointer(1, n)
    BY <1>4
  <2>2. QED
    BY <1>7, <2>1
<1>11. ASSUME NEW n \in 1 .. c
       PROVE  /\ IsOwn(closed, n)
              /\ closed[n].ticks + (CountAllocate - Len(threads) + 1) >= TableQuantum
  <2>1. PICK k \in 1 .. Len(threads) :
          /\ k # m /\ moved[n].ticks = threads[k].ticks
          /\ moved[n].thread = threads[k].thread /\ moved[n].saved = threads[k].saved
    BY <1>4
  <2>2. IsOwn(threads, k) /\ threads[k].ticks + (CountAllocate - Len(threads) + 1) >= TableQuantum
    BY <1>0, <1>1, <2>1 DEF Turns, Kept, Rested, Spent
  <2>3. /\ closed[n].thread = threads[k].thread /\ closed[n].saved = threads[k].saved
        /\ closed[n].ticks = threads[k].ticks
    BY <1>7, <2>1
  <2>4. QED
    BY <2>2, <2>3 DEF IsOwn
<1>12. Kept(closed)
  BY <1>9, <1>11 DEF Kept
<1>13. Len(closed) = Len(threads) - 1 /\ Len(threads) - 1 = c
  BY <1>3, <1>9
<1>14. QED
  BY <1>2, <1>6, <1>9, <1>10, <1>11, <1>12, <1>13

LEMMA RemoveStep == RingInv /\ Table!RemoveCurrentThread => RingInv'
<1> SUFFICES ASSUME RingInv, Table!RemoveCurrentThread
             PROVE  RingInv'
  OBVIOUS
<1>1. /\ running.at = "runs" /\ ~Table!Building /\ Table!MayRemove
      /\ threads' = Table!Without(current.index + 1)
      /\ current' = Table!Pointer(place, 0) /\ running' = Table!Context(running.of, "leaves") /\ met' = 0
      /\ UNCHANGED <<allocated, place, astray>>
  BY DEF Table!RemoveCurrentThread
<1>2. running.of \in Candidates /\ TableTypes
  BY <1>1, BuildingIs DEF RingInv, TableTypes
<1>3. /\ place = 1 /\ astray = FALSE /\ allocated = CountAllocate /\ Len(threads) \in Nat
      /\ Len(threads) <= CountAllocate
  BY <1>1, <1>2, InRing, TableConstants
<1>4. /\ threads' \in Seq(Entry) /\ Len(threads') = Len(threads) - 1 /\ Len(threads) > 1
      /\ Ring(threads') /\ Kept(threads')
      /\ \A n \in 1 .. Len(threads) - 1 : threads'[n].ticks + (CountAllocate - Len(threads) + 1) >= TableQuantum
  BY <1>1, WithoutStays
<1>5. current' = [array |-> 1, index |-> 0] /\ running' = [of |-> running.of, at |-> "leaves"]
  BY <1>1, <1>3 DEF Table!Pointer, Table!Context
<1>6. current' \in Pointers /\ running' \in Contexts /\ running'.at = "leaves"
  BY <1>2, <1>5 DEF Pointers, Contexts, Stages
<1>7. Runs(current', running', threads')
  BY <1>3, <1>4, <1>5, <1>6 DEF Runs
<1>8. Rested(current', running', threads', met')
  <2>1. Spent(threads', running', met') = CountAllocate - Len(threads) + 1
    BY <1>1, <1>3, <1>4, <1>6, TableConstants DEF Spent
  <2>2. QED
    BY <1>4, <2>1 DEF Rested
<1>9. Turns(current', running', threads', met')
  BY <1>4, <1>7, <1>8 DEF Turns
<1>10. Len(threads') <= allocated' /\ met' \in 0 .. 1 /\ astray' = FALSE
  BY <1>1, <1>3, <1>4, TableConstants
<1>11. QED
  BY <1>1, <1>2, <1>3, <1>4, <1>6, <1>9, <1>10, RingGoesOn

LEMMA RingStep == RingInv /\ [TasksNext]_taskVars => RingInv'
<1> SUFFICES ASSUME RingInv, [TasksNext]_taskVars
             PROVE  RingInv'
  OBVIOUS
<1>1. CASE UNCHANGED tableVars
  BY <1>1 DEF tableVars, RingInv, TableTypes, BuiltByBoot, Strands, TurnsInRing, Turns, Built, LeadsOn, LeadsBack,
     IsOwn, Fresh, Ring, Kept, Runs, Rested, Spent
<1>2. CASE Manage
  BY <1>2, AddThreadStep, RunStep, ScheduleStep, LeaveStep, LoadStep, RemoveStep
     DEF Manage, Table!Next, Table!SwitchThreadNext
<1>3. QED
  BY <1>1, <1>2 DEF TasksNext, Serve, GoAstray, taskVars

LEMMA RingAlways == TasksSpec => []RingInv
<1>1. TasksInit => RingInv
  BY RingInitially DEF TasksInit
<1>2. QED
  BY <1>1, RingStep, PTL DEF TasksSpec

(* What the table is at any time, in the words of its properties. *)
LEMMA TableHasType == RingInv => Table!TypeOK
<1> SUFFICES ASSUME RingInv PROVE Table!TypeOK
  OBVIOUS
<1>1. TableTypes /\ threads \in [1 .. Len(threads) -> Entry] /\ place \in Nat
  BY DEF RingInv, TableTypes
<1>2. Len(threads) \in Nat /\ Len(threads) <= allocated /\ allocated \in Nat
  BY <1>1, TableConstants DEF TableTypes
<1>3. ASSUME NEW n \in 1 .. Len(threads)
      PROVE  threads[n].next.index \in 0 .. allocated /\ threads[n].ticks \in 0 .. TableQuantum
  <2>1. threads[n].ticks \in 0 .. TableQuantum
    <3>1. threads[n] \in Entry
      BY <1>1
    <3>2. QED
      BY <3>1 DEF Entry
  <2>2. CASE running.of = Table!Boot
    <3>1. Built(threads, place) /\ threads # <<>>
      BY <1>2, <2>2 DEF RingInv, BuiltByBoot
    <3>2. CASE n = Len(threads)
      <4>1. threads[n].next = [array |-> place, index |-> 0]
        BY <3>1, <3>2 DEF Built, LeadsBack, Table!Pointer
      <4>2. threads[n].next.index = 0
        BY <4>1
      <4>3. QED
        BY <1>2, <2>1, <4>2
    <3>3. CASE n # Len(threads)
      <4>1. n \in 1 .. Len(threads) - 1
        BY <1>2, <3>3
      <4>2. PICK array : threads[n].next = [array |-> array, index |-> n]
        BY <3>1, <4>1 DEF Built, LeadsOn, Table!Pointer
      <4>3. threads[n].next.index = n
        BY <4>2
      <4>4. QED
        BY <1>2, <2>1, <4>1, <4>3
    <3>4. QED
      BY <3>2, <3>3
  <2>3. CASE running.of # Table!Boot
    <3>1. Ring(threads)
      BY <1>1, <2>3, BuildingIs, InRing DEF Turns
    <3>2. PICK index \in 0 .. Len(threads) : threads[n].next = [array |-> 1, index |-> index]
      <4>1. threads[n].next = Table!Pointer(1, IF n = Len(threads) THEN 0 ELSE n)
        BY <3>1 DEF Ring
      <4>2. PICK index \in 0 .. Len(threads) : index = IF n = Len(threads) THEN 0 ELSE n
        BY <1>2
      <4>3. QED
        BY <4>1, <4>2 DEF Table!Pointer
    <3>3. threads[n].next.index = index
      BY <3>2
    <3>4. QED
      BY <1>2, <2>1, <3>3
  <2>4. QED
    BY <2>2, <2>3
<1>4. QED
  BY <1>1, <1>2, <1>3 DEF Table!TypeOK, Table!ThreadsCount, Table!WindowTicks, TableTypes, Stages

LEMMA RingIsProper == RingInv => Table!RingIsWhole
<1> SUFFICES ASSUME RingInv, place < 2 PROVE
       /\ \A n \in 1 .. Len(threads) : threads[n].next = Table!Pointer(place, IF n = Len(threads) THEN 0 ELSE n)
       /\ ~Table!Building /\ Len(threads) > 0 => Table!Lies(current) /\ ~astray
  BY DEF Table!RingIsWhole, Table!ThreadsCount
<1>1. TableTypes /\ Len(threads) \in Nat /\ place \in Nat
  BY DEF RingInv, TableTypes
<1>2. CASE place = 0
  <2>1. Len(threads) <= 0
    BY <1>1, <1>2, TableConstants DEF TableTypes
  <2>2. QED
    BY <1>1, <2>1
<1>3. CASE place = 1
  <2>1. CASE Table!Building
    <3>1. Built(threads, place)
      BY <1>1, <2>1, BuildingIs DEF RingInv, BuiltByBoot
    <3>2. QED
      BY <1>1, <1>3, <2>1, <3>1, BuiltIsRing DEF Ring
  <2>2. CASE ~Table!Building
    BY <1>3, <2>2, InRing DEF Turns, Ring
  <2>3. QED
    BY <2>1, <2>2
<1>4. QED
  BY <1>1, <1>2, <1>3

LEMMA ContextsStayOwn == RingInv => Table!ContextsAreOwn
<1> SUFFICES ASSUME RingInv PROVE
       /\ Kept(threads)
       /\ running.of # Table!Boot /\ running.at = "runs" => threads[current.index + 1].thread = running.of
  BY DEF Table!ContextsAreOwn, Table!ThreadsCount, Table!InWindow, Table!CurrentEntry, Kept, IsOwn
<1>1. CASE running.of = Table!Boot
  BY <1>1 DEF RingInv, BuiltByBoot, Built, Kept
<1>2. CASE running.of # Table!Boot
  BY <1>2, BuildingIs, InRing DEF Turns, Runs, RingInv
<1>3. QED
  BY <1>1, <1>2

LEMMA GrownStrands == RingInv => Table!GrownTableStrands
<1> SUFFICES ASSUME RingInv PROVE
       /\ place > 1 => running.of = Table!Boot /\ running.at # "loads"
       /\ running.of = Table!Boot => \A n \in 1 .. Len(threads) - 1 : LeadsOn(threads, n)
  BY DEF Table!GrownTableStrands, Table!ThreadsCount, LeadsOn
<1>1. ASSUME place > 1 PROVE running.of = Table!Boot /\ running.at # "loads"
  <2>1. place # 1
    BY <1>1
  <2>2. running.of = Table!Boot
    BY <2>1 DEF RingInv, TurnsInRing
  <2>3. QED
    BY <2>1, <2>2 DEF RingInv, Strands
<1>2. ASSUME running.of = Table!Boot PROVE \A n \in 1 .. Len(threads) - 1 : LeadsOn(threads, n)
  BY <1>2 DEF RingInv, BuiltByBoot, Built
<1>3. QED
  BY <1>1, <1>2

(* Whatever threads are added and removed, with an array that grows by any *)
(* number of places, wherever the timer cuts in, even into the switch of a *)
(* thread that removes itself: in its first array the table is one ring of *)
(* all its threads, each with its own context, and no thread runs once the *)
(* array has moved (AddThread, Run, RemoveCurrentThread, Schedule,         *)
(* SwitchThreadNext).                                                      *)
THEOREM TableIsRingAlways == TasksSpec => []TableIsRing
<1>1. RingInv => TableIsRing
  BY TableHasType, RingIsProper, ContextsStayOwn, GrownStrands DEF TableIsRing
<1>2. QED
  BY <1>1, RingAlways, PTL
=============================================================================
