---------------------------- MODULE UserModeCalls ----------------------------
(***************************************************************************)
(* Threads calling the kernel through interrupt 0xEC: the handler in       *)
(* library/cpu/usermode-calls.asm and the way the services of              *)
(* kernel/kernel.cxx open and close the window in which they let           *)
(* interrupts in.  One processor executes everything, so a step that runs  *)
(* with interrupts off is only cut where another part of the model could   *)
(* tell.  What a service computes is not modelled here.                    *)
(***************************************************************************)
EXTENDS Scheduler, FiniteSets

CONSTANTS
  Callers,     \* the threads that make calls; the supervisor never does
  MaxKeys      \* keystrokes waiting at most (the keyboard buffer is bounded)

ASSUME CallerAssumption == Callers \subseteq Thread /\ MaxKeys \in Nat \ {0}

VARIABLES
  request,        \* the service being executed and the windows it has yet to open
  virtualStack,   \* the thread whose ESP and EBP the handler's globals hold
  keys            \* keystrokes in the keyboard buffer

callVars == <<request, virtualStack, keys>>
vars == <<cpu, paging, threadVars, ticksCount, taskSwitchingEnabled, callVars>>

(* Keyboard calls wait once.  File system calls talk to the disk in no     *)
(* window (early return), one, or two (ReadFile: descriptor, then data).   *)
(* The other services never let interrupts in.                             *)
Requests ==
  {[service |-> "keyboard", windows |-> 1]}
    \cup {[service |-> "filesystem", windows |-> w] : w \in 0 .. 2}
    \cup {[service |-> "other", windows |-> 0]}

NoRequest == [service |-> "none", windows |-> 0]

Places == {"boot", "user", "dispatch", "guarded", "window", "closing"}

Goto(place, interrupts) == cpu' = [cpu EXCEPT !.at = place, !.interrupts = interrupts]

-----------------------------------------------------------------------------
Init ==
  /\ SchedulerInit
  /\ request = NoRequest
  /\ virtualStack = Boot
  /\ keys = 0

(* int 0xEC: the interrupt gate clears IF, the handler keeps ESP and EBP   *)
(* in its globals, leaves paging and calls the service.                    *)
Call ==
  /\ cpu.at = "user" /\ cpu.thread \in Callers
  /\ request' \in Requests
  /\ virtualStack' = cpu.thread
  /\ paging' = FALSE
  /\ Goto("dispatch", FALSE)
  /\ UNCHANGED <<threadVars, ticksCount, taskSwitchingEnabled, keys>>

(* The flag is never set. *)
DisableTaskSwitching_Mutant ==
  /\ cpu.at = "dispatch" /\ request.windows > 0
  /\ Goto("guarded", TRUE)
  /\ UNCHANGED <<paging, threadVars, ticksCount, taskSwitchingEnabled, callVars>>

DisableTaskSwitching ==
  /\ cpu.at = "dispatch" /\ request.windows > 0
  /\ taskSwitchingEnabled' = FALSE
  /\ Goto("guarded", FALSE)
  /\ UNCHANGED <<paging, threadVars, ticksCount, callVars>>

(* INSERT_ASSEMBLY("sti") *)
OpenWindow ==
  /\ cpu.at = "guarded"
  /\ Goto("window", TRUE)
  /\ UNCHANGED <<paging, threadVars, ticksCount, taskSwitchingEnabled, callVars>>

(* A key that does not end the input: ReadString takes it and waits on. *)
TakeKey ==
  /\ cpu.at = "window" /\ request.service = "keyboard" /\ keys > 0
  /\ keys' = keys - 1
  /\ UNCHANGED <<cpu, paging, threadVars, ticksCount, taskSwitchingEnabled, request, virtualStack>>

(* The input ends or the disk has answered: INSERT_ASSEMBLY("cli") *)
CloseWindow ==
  /\ cpu.at = "window"
  /\ IF request.service = "keyboard" THEN keys > 0 /\ keys' = keys - 1 ELSE UNCHANGED keys
  /\ Goto("closing", FALSE)
  /\ UNCHANGED <<paging, threadVars, ticksCount, taskSwitchingEnabled, request, virtualStack>>

(* The flag stays off when the service returns. *)
EnableTaskSwitching_Mutant ==
  /\ cpu.at = "closing"
  /\ \E w \in 0 .. request.windows - 1 : request' = [request EXCEPT !.windows = w]
  /\ Goto("dispatch", FALSE)
  /\ UNCHANGED <<paging, threadVars, ticksCount, taskSwitchingEnabled, virtualStack, keys>>

(* A file that is not found ends the service early: any number of the      *)
(* windows left may be given up.                                           *)
EnableTaskSwitching ==
  /\ cpu.at = "closing"
  /\ taskSwitchingEnabled' = TRUE
  /\ \E w \in 0 .. request.windows - 1 : request' = [request EXCEPT !.windows = w]
  /\ Goto("dispatch", FALSE)
  /\ UNCHANGED <<paging, threadVars, ticksCount, virtualStack, keys>>

(* The service has returned: ESP and EBP come back from the globals, paging *)
(* goes on, sti and iret.  The registers are those of the thread whose      *)
(* stack that is.                                                           *)
Return ==
  /\ cpu.at = "dispatch" /\ request.windows = 0
  /\ cpu' = Context(virtualStack, "user", TRUE)
  /\ paging' = TRUE
  /\ request' = NoRequest
  /\ UNCHANGED <<threadVars, ticksCount, taskSwitchingEnabled, virtualStack, keys>>

(* The keyboard interrupt, which GlobalHardwareInterruptsRoutine runs on   *)
(* the interrupted stack with interrupts off.                              *)
KeyInterrupt ==
  /\ cpu.interrupts /\ keys < MaxKeys
  /\ keys' = keys + 1
  /\ UNCHANGED <<cpu, paging, threadVars, ticksCount, taskSwitchingEnabled, request, virtualStack>>

Timer == Schedule /\ UNCHANGED callVars
Start == SwitchThreadNext /\ UNCHANGED callVars

Handler ==
  DisableTaskSwitching \/ OpenWindow \/ TakeKey \/ CloseWindow \/ EnableTaskSwitching \/ Return

Next == Start \/ Timer \/ KeyInterrupt \/ Call \/ Handler

Spec == Init /\ [][Next]_vars

-----------------------------------------------------------------------------
TypeOK ==
  /\ cpu \in [thread : Thread \cup {Boot}, at : Places, interrupts : BOOLEAN]
  /\ saved \in [Thread -> [thread : Thread \cup {Boot}, at : Places, interrupts : BOOLEAN]]
  /\ currentThread \in Thread
  /\ directory \in Thread \cup {Boot}
  /\ ticksBefore \in [Thread -> 0 .. Quantum]
  /\ workedTicks \in [Thread -> SizeT]
  /\ ticksCount \in SizeT
  /\ paging \in BOOLEAN /\ taskSwitchingEnabled \in BOOLEAN
  /\ request \in Requests \cup {NoRequest}
                 \cup [service : {"keyboard", "filesystem"}, windows : 0 .. 2]
  /\ virtualStack \in Thread \cup {Boot}
  /\ keys \in 0 .. MaxKeys

(* Every thread owns the registers saved for it, stopped in its own code   *)
(* and never inside the kernel; the one in the processor runs under its    *)
(* own page directory.                                                     *)
ContextsIntact ==
  /\ \A t \in Thread : t # currentThread \/ cpu.at = "boot" => saved[t] = NewContext(t)
  /\ cpu.at # "boot" => cpu.thread = currentThread /\ directory = currentThread

(* Inside a call virtual memory is off (usermode-calls.hxx says so in      *)
(* capitals), outside it is on; a context switch would carry the setting   *)
(* into another thread, so none may be possible meanwhile.                 *)
PagingOffIsShielded ==
  /\ paging <=> cpu.at \in {"boot", "user"}
  /\ ~paging => ~(cpu.interrupts /\ taskSwitchingEnabled)

(* The one pair of globals for ESP and EBP holds the caller's for the      *)
(* whole call: no second call comes in before the first has returned.      *)
StackOfCaller == ~paging => virtualStack = cpu.thread

(* A service leaves the machine as it found it: user code always runs with *)
(* interrupts and task switching on.                                       *)
UserCodeIsPreemptible ==
  cpu.at = "user" => cpu.interrupts /\ taskSwitchingEnabled

(* What keeps calls and threads apart, together.                           *)
CallsAreShielded == PagingOffIsShielded /\ StackOfCaller /\ UserCodeIsPreemptible

(* No thread is ever ahead of another by more than one turn, which is a    *)
(* quantum of ticks and the one that ends it, even after the counters have *)
(* wrapped around.                                                         *)
FairShare == \A t, u \in Thread :
  LET lead == (workedTicks[t] - workedTicks[u]) % Word
  IN  lead <= Quantum + 1 \/ lead >= Word - (Quantum + 1)

(* The processor only changes hands in user code, and only to the next     *)
(* thread of the ring.                                                     *)
SwitchesInUserCode ==
  [][currentThread' # currentThread =>
       /\ cpu.at \in {"boot", "user"} /\ cpu'.at = "user"
       /\ currentThread' = (currentThread + 1) % Threads]_vars

-----------------------------------------------------------------------------
(* The processor keeps executing, a disk answers, a user types and at some *)
(* point ends the line, and the timer, which ticks whatever the processor  *)
(* does, now and then finds it in user code.                               *)
Fairness ==
  /\ WF_vars(Start)
  /\ WF_vars(Handler)
  /\ WF_vars(KeyInterrupt)
  /\ SF_vars(CloseWindow)
  /\ SF_vars(Timer /\ cpu.at = "user")

FairSpec == Spec /\ Fairness

(* A call returns to its caller, whatever the service waits for. *)
CallsReturn == \A t \in Callers :
  (cpu.at = "dispatch" /\ cpu.thread = t) ~> (cpu.at = "user" /\ cpu.thread = t)

(* No thread waits for the processor for ever. *)
EveryThreadRuns == \A t \in Thread : []<>(cpu.thread = t)
=============================================================================
