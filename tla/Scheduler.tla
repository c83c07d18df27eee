------------------------------ MODULE Scheduler ------------------------------
(***************************************************************************)
(* The thread switch of library/scheduler: the timer interrupt Schedule    *)
(* and the routine SwitchThreadNext, over the ring of threads AddThread    *)
(* has built before Scheduler::Run.  A context is the register file of a   *)
(* thread, reduced to whose it is, where its execution stands and whether  *)
(* its EFLAGS allow interrupts.  The paging bit of CR0 is not part of a    *)
(* context: it is the machine's, and no switch saves or restores it.       *)
(***************************************************************************)
EXTENDS Typedefs

CONSTANTS
  Threads,     \* ThreadsCount_, when Run is called
  Quantum,     \* Scheduler::TICKS_COUNT_USER_PRIORITY
  BootTicks    \* ticks that fall between installing Schedule and the first switch

Thread == 0 .. Threads - 1
Boot   == Threads      \* the boot code DarkCore(), which never runs again

ASSUME SchedulerAssumption ==
  /\ Threads \in Nat \ {0}
  /\ Quantum \in Nat
  /\ BootTicks \in 0 .. Quantum /\ BootTicks < Word

VARIABLES
  cpu,                    \* the context in the processor
  paging,                 \* CR0.PG: virtual memory is on
  directory,              \* CR3: the thread whose page directory is selected
  currentThread,          \* CurrentThread_
  saved,                  \* Thread.Registers
  ticksBefore,            \* Thread.TicksBeforeSwitchCount
  workedTicks,            \* Thread.WorkedTicksCount
  ticksCount,             \* TicksCount_
  taskSwitchingEnabled    \* TaskSwitchingEnabled_

threadVars == <<currentThread, directory, saved, ticksBefore, workedTicks>>

-----------------------------------------------------------------------------
Context(thread, place, interrupts) ==
  [thread |-> thread, at |-> place, interrupts |-> interrupts]

NewContext(thread) == Context(thread, "user", TRUE)

(* The ring is left open. *)
NextOf_Mutant(thread) == IF thread + 1 < Threads THEN thread + 1 ELSE thread

(* AddThread closes the ring: the last thread's Next is the first. *)
NextOf(thread) == (thread + 1) % Threads

(* In Scheduler::Run, once CurrentThread_ is Threads_[0] and Schedule is in *)
(* the interrupt table, but SwitchThreadNext has not been called yet.       *)
SchedulerInit ==
  /\ cpu = Context(Boot, "boot", TRUE)
  /\ paging = TRUE
  /\ directory = Boot
  /\ currentThread = 0
  /\ saved = [t \in Thread |-> NewContext(t)]
  /\ ticksBefore = [t \in Thread |-> Quantum]
  /\ workedTicks = [t \in Thread |-> 0]
  /\ ticksCount = 0
  /\ taskSwitchingEnabled = TRUE

(* The directory of the previous thread stays selected. *)
Resume_Mutant(thread, contexts) ==
  /\ currentThread' = thread
  /\ cpu' = contexts[thread]
  /\ UNCHANGED directory

(* Load the registers and the directory of a thread, and let it run. *)
Resume(thread, contexts) ==
  /\ currentThread' = thread
  /\ directory' = thread
  /\ cpu' = contexts[thread]

(* The running thread's ticks are used up: save its registers, give it a   *)
(* fresh quantum and resume the next thread of the ring.                   *)
SwitchOnTick ==
  /\ ticksBefore[currentThread] = 0
  /\ saved' = [saved EXCEPT ![currentThread] = cpu]
  /\ ticksBefore' = [ticksBefore EXCEPT ![currentThread] = Quantum]
  /\ Resume(NextOf(currentThread), saved')

StayOnTick ==
  /\ ticksBefore[currentThread] # 0
  /\ ticksBefore' = [ticksBefore EXCEPT ![currentThread] = @ - 1]
  /\ UNCHANGED <<currentThread, directory, saved, cpu>>

(* The flag is not looked at. *)
MayAccount_Mutant == TRUE

MayAccount == taskSwitchingEnabled

(* The timer interrupt.  While task switching is disabled a tick counts    *)
(* for the clock but for no thread.  Only BootTicks of them can meet the   *)
(* few instructions between line 24 and line 25 of scheduler.cxx.          *)
Schedule ==
  /\ cpu.interrupts
  /\ cpu.at = "boot" => ticksCount < BootTicks
  /\ ticksCount' = (ticksCount + 1) % Word
  /\ IF MayAccount
       THEN /\ workedTicks' = [workedTicks EXCEPT ![currentThread] = (@ + 1) % Word]
            /\ SwitchOnTick \/ StayOnTick
       ELSE UNCHANGED <<cpu, threadVars>>
  /\ UNCHANGED <<paging, taskSwitchingEnabled>>

(* The end of Run: nothing is saved, the first thread to run is the one    *)
(* after Threads_[0].                                                      *)
SwitchThreadNext ==
  /\ cpu.at = "boot"
  /\ Resume(NextOf(currentThread), saved)
  /\ UNCHANGED <<paging, saved, ticksBefore, workedTicks, ticksCount, taskSwitchingEnabled>>
=============================================================================
