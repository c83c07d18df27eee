------------------------------- MODULE Tasks --------------------------------
(***************************************************************************)
(* Threads, in the two ways the kernel meets them: UserModeCalls, where    *)
(* the boot code has built the ring and from then on it does not change,   *)
(* and ThreadTable, where it is built, grows and loses threads, which the  *)
(* kernel as shipped makes no use of once threads run.  A behaviour of     *)
(* this module is one of the two.                                          *)
(***************************************************************************)
EXTENDS UserModeCalls

CONSTANTS Candidates, CountAllocate, TableQuantum   \* of ThreadTable

VARIABLES
  stage,
  threads, allocated, place, current, running, met, astray

tableVars == <<threads, allocated, place, current, running, met, astray>>
taskVars  == <<stage, vars, tableVars>>

Table == INSTANCE ThreadTable
           WITH Threads <- Candidates, Quantum <- TableQuantum, cpu <- running

ASSUME TasksAssumption == Table!ThreadTableAssumption

-----------------------------------------------------------------------------
(* In each way the other's variables are as they were at the beginning. *)
TasksInit == stage \in {"calls", "table"} /\ Init /\ Table!Init

Serve  == stage = "calls" /\ Next /\ UNCHANGED <<stage, tableVars>>
Manage == stage = "table" /\ Table!Next /\ UNCHANGED <<stage, vars>>

(* What is executed behind a stray pointer is not modelled. *)
GoAstray == stage = "table" /\ astray /\ UNCHANGED taskVars

TasksNext == Serve \/ Manage \/ GoAstray

TasksFairness ==
  /\ WF_vars(stage = "calls" /\ Start)
  /\ WF_vars(stage = "calls" /\ Handler)
  /\ WF_vars(stage = "calls" /\ KeyInterrupt)
  /\ SF_vars(stage = "calls" /\ CloseWindow)
  /\ SF_vars(stage = "calls" /\ Timer /\ cpu.at = "user")
  /\ WF_tableVars(stage = "table" /\ Table!Schedule)
  /\ WF_tableVars(stage = "table" /\ Table!SwitchThreadNext)

TasksSpec == TasksInit /\ [][TasksNext]_taskVars /\ TasksFairness

-----------------------------------------------------------------------------
(* While the table has not moved it is a ring in which every context is    *)
(* its thread's, wherever a tick cuts into a removal; once it has moved no *)
(* thread runs (scheduler.cxx:12-26, 68-137): ThreadTable's properties.    *)
TableIsRing ==
  Table!TypeOK /\ Table!RingIsWhole /\ Table!ContextsAreOwn /\ Table!GrownTableStrands

(* Calls return to their callers, and threads get the processor again and  *)
(* again: all of a fixed ring, and in a changing one all that are present. *)
ThreadsProgress ==
  /\ stage = "calls" => CallsReturn
  /\ stage = "calls" => EveryThreadRuns
  /\ Table!RingTurns
=============================================================================
