-------------------------------- MODULE PS2 ---------------------------------
(***************************************************************************)
(* The keyboard before and after: PS2Setup up to the end of its set-up and *)
(* with the commands that follow, in which a byte is queued and taken in   *)
(* one step, and Keyboard, which begins when the set-up has ended well and *)
(* has the queue with every access to it.  A behaviour of this module is   *)
(* one of the two.                                                         *)
(***************************************************************************)
EXTENDS Keyboard

CONSTANTS ResendTimesCount, MaxRefusals, MaxKeys, MaxCalls   \* of PS2Setup

VARIABLES
  stage,
  hardware, input, output, expects, config, keyboard, queue, handler, at, todo,
  configuration, singleChannel, available, call, calls, keys, refusals, lost

setUpVars ==
  <<hardware, input, output, expects, config, keyboard, queue, handler, at, todo,
    configuration, singleChannel, available, call, calls, keys, refusals, lost>>
ps2Vars == <<stage, vars, setUpVars>>

SetUp == INSTANCE PS2Setup WITH buffer <- queue

ASSUME PS2Assumption == SetUp!PS2SetupAssumption

-----------------------------------------------------------------------------
NoSetUp ==
  /\ hardware = [keyboard |-> TRUE] /\ config = {} /\ keyboard = <<>> /\ expects = "keyboard"
  /\ input = <<>> /\ output = <<>> /\ queue = <<>> /\ handler = TRUE
  /\ at = "off" /\ todo = <<>> /\ call = SetUp!NoCall
  /\ configuration = {} /\ singleChannel = FALSE /\ available = {}
  /\ calls = 0 /\ keys = 0 /\ refusals = 0 /\ lost = {}

(* Nothing is queued in detail before the set-up has ended. *)
PS2Init ==
  /\ Init
  /\ \/ stage = "set-up" /\ SetUp!Init
     \/ stage = "in use" /\ NoSetUp

Prepare == stage = "set-up" /\ SetUp!Next /\ UNCHANGED <<stage, vars>>
Operate == stage = "in use" /\ Next /\ UNCHANGED <<stage, setUpVars>>

PS2Next == Prepare \/ Operate

(* In the set-up the driver runs, devices take and deliver what they can   *)
(* and interrupts arrive (they have been on since HardwareIRQs::Initialize *)
(* ran); afterwards a caller keeps reading and interrupts are let in.      *)
PS2Fairness ==
  /\ WF_setUpVars(stage = "set-up" /\ SetUp!Driver)
  /\ WF_setUpVars(stage = "set-up" /\ SetUp!Device)
  /\ WF_setUpVars(stage = "set-up" /\ SetUp!Deliver)
  /\ WF_setUpVars(stage = "set-up" /\ SetUp!IRQHandler)
  /\ WF_vars(stage = "in use" /\ ReadBufferLastByte)
  /\ WF_vars(stage = "in use" /\ (IRQHandler \/ IRQHandlerOverflow))

PS2Spec == PS2Init /\ [][PS2Next]_ps2Vars /\ PS2Fairness

-----------------------------------------------------------------------------
(* The types of both, and what the set-up leaves behind when it succeeds,  *)
(* fails, or loses bytes it wrote too early (ps2-controller.cxx:54,        *)
(* ps2-keyboard.cxx:9-75): PS2Setup's properties.                          *)
SetUpIsSound ==
  /\ TypeOK
  /\ stage = "set-up" =>
       /\ SetUp!TypeOK /\ SetUp!LostAreUnanswered /\ SetUp!FailureHasReason
       /\ SetUp!ReadyIsConfigured /\ SetUp!ScanningIsRestored

(* Set-up and calls come to an end, but for the waits that have no end:    *)
(* after a byte was lost, without a keyboard, and after RESEND.            *)
SetUpEnds ==
  /\ <>(stage = "in use" \/ SetUp!SetUpIsOver)
  /\ at \in {"call", "answer"} /\ calls > 0 ~> at = "idle"
=============================================================================
