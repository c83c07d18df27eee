------------------------------ MODULE PS2Setup ------------------------------
(***************************************************************************)
(* The set-up of the keyboard, library/ps2/ps2-controller.cxx and the part *)
(* of ps2-keyboard.cxx that talks to the keyboard: Initialize of both and  *)
(* the calls that send commands afterwards.                                *)
(*                                                                         *)
(* Four parties share two one-byte registers: the driver, the controller   *)
(* (8042), the keyboard and the interrupt handler.  A data byte is written *)
(* only once the controller has taken the one before it, a command byte at *)
(* once.  Up to the middle of PS2Keyboard::Initialize answers are polled,  *)
(* from there on the interrupt handler queues them together with the keys. *)
(* (Keyboard has that queue in detail; here a byte is queued and taken in  *)
(* one step.)                                                              *)
(***************************************************************************)
EXTENDS Integers, SequencesExt

CONSTANTS
  ResendTimesCount,   \* PS2Keyboard::ResendTimesCount, 5
  MaxRefusals,        \* bound: bytes the keyboard asks for again
  MaxKeys,            \* bound: scan bytes of pressed keys
  MaxCalls            \* bound: calls after the set-up

PS2SetupAssumption ==
  /\ ResendTimesCount \in Nat /\ MaxRefusals \in Nat
  /\ MaxKeys \in Nat /\ MaxCalls \in Nat

VARIABLES
  hardware,    \* what is there and works
  input,       \* the controller's input register, a sequence of at most one
  output,      \* its output register, likewise
  expects,     \* what the controller takes the next data byte for
  config,      \* the configuration byte, as a set of flags
  keyboard,    \* its state, and the bytes it has yet to send
  buffer,      \* Buffer_, the oldest byte first
  handler,     \* HardwareIRQs::SetRoutine and UnmaskHardwareIRQ are done
  at, todo,    \* the driver: where it is, and what it writes before that
  configuration, singleChannel, available,
  call,        \* the call under way: what it still sends and takes
  calls, keys, refusals, lost    \* history

controllerVars == <<input, output, expects, config>>
localVars == <<configuration, singleChannel, available>>
historyVars == <<calls, keys, refusals, lost>>
vars == <<hardware, controllerVars, keyboard, buffer, handler, at, todo, localVars, call, historyVars>>

Flags == {"KEYBOARD_IRQ", "MOUSE_IRQ", "KEYBOARD_LOCKED", "MOUSE_LOCKED", "TRANSLATE"}

(* A byte, and what it says if it is taken for a configuration: a key such *)
(* as 0x72 has the same flags as an acknowledgement.                       *)
Byte(name) == [name |-> name, flags |-> Flags \ {"KEYBOARD_IRQ"}]
ConfigByte(flags) == [name |-> "configuration", flags |-> flags]

Command(name) == [port |-> "command", byte |-> Byte(name)]
Data(byte) == [port |-> "data", byte |-> byte]

-----------------------------------------------------------------------------
(* The driver's writes to the two ports. *)

(* WaitUntilReadyToSend, which SendCommand does without. *)
MayWrite(write) == write.port = "data" => input = <<>>

Write ==
  /\ todo # <<>> /\ MayWrite(Head(todo))
  /\ lost' = lost \cup {write.byte.name : write \in ToSet(input)}
  /\ input' = <<Head(todo)>>
  /\ todo' = Tail(todo)
  /\ UNCHANGED <<hardware, output, expects, config, keyboard, buffer, handler, at, localVars, call,
                 calls, keys, refusals>>

(* The driver goes on to a place, writing some bytes first. *)
GoTo(place, writes) == at' = place /\ todo' = writes

(* What the driver reads where it waits for an answer. *)
Answer == Head(output)

ReadAnswer(place) ==
  /\ at = place /\ todo = <<>> /\ output # <<>>
  /\ output' = <<>>
  /\ UNCHANGED <<hardware, input, expects, config, keyboard, buffer, historyVars>>

-----------------------------------------------------------------------------
(* PS2Controller::Initialize. *)
LockInput   == <<Command("LOCK_KEYBOARD"), Command("LOCK_MOUSE")>>
UnlockInput == <<Command("UNLOCK_KEYBOARD"), Command("UNLOCK_MOUSE")>>
WriteConfiguration(flags) == <<Command("WRITE_CONFIGURATION"), Data(ConfigByte(flags))>>

(* Translation is left on. *)
Unwanted_Mutant == {"KEYBOARD_IRQ", "MOUSE_IRQ"}

Unwanted == {"KEYBOARD_IRQ", "MOUSE_IRQ", "TRANSLATE"}

Start ==
  IF hardware.mentioned THEN at = "flush" /\ todo = LockInput
  ELSE at = "no controller" /\ todo = <<>>

(* FlushBuffer, of both Initialize functions and of Reboot. *)
Flush(place) ==
  ReadAnswer(place) /\ UNCHANGED <<at, todo, handler, localVars, call>>

EndFlush ==
  /\ todo = <<>> /\ output = <<>>
  /\ \/ at = "flush" /\ GoTo("configure", <<Command("READ_CONFIGURATION")>>)
     \/ at = "keyboard flush" /\ GoTo("enable", <<Data(Byte("ENABLE_SCANNING"))>>)
     \/ at = "reboot flush" /\ input = <<>> /\ GoTo("reboot", <<Command("REBOOT")>>)
  /\ UNCHANGED <<hardware, controllerVars, keyboard, buffer, handler, localVars, call, historyVars>>

Configure ==
  /\ ReadAnswer("configure")
  /\ configuration' = Answer.flags \ Unwanted
  /\ singleChannel' = ("MOUSE_LOCKED" \notin Answer.flags)
  /\ GoTo("test", WriteConfiguration(Answer.flags \ Unwanted) \o <<Command("TEST_CONTROLLER")>>)
  /\ UNCHANGED <<handler, available, call>>

TestKeyboardPort == <<Command("TEST_KEYBOARD_PORT")>>

TestController ==
  /\ ReadAnswer("test")
  /\ LET again == WriteConfiguration(configuration)
     IN  IF Answer.name # "CONTROLLER_TEST_PASSED" THEN GoTo("no controller", again)
         ELSE IF singleChannel THEN GoTo("keyboard port", again \o TestKeyboardPort)
         ELSE GoTo("mouse", again \o <<Command("UNLOCK_MOUSE"), Command("READ_CONFIGURATION")>>)
  /\ UNCHANGED <<handler, localVars, call>>

FindMouse ==
  /\ ReadAnswer("mouse")
  /\ configuration' = Answer.flags
  /\ singleChannel' = ("MOUSE_LOCKED" \in Answer.flags)
  /\ GoTo("keyboard port", (IF singleChannel' THEN <<>> ELSE <<Command("LOCK_MOUSE")>>) \o TestKeyboardPort)
  /\ UNCHANGED <<handler, available, call>>

TestPort(port) ==
  /\ ReadAnswer(port)
  /\ available' = IF Answer.name = "PORT_TEST_PASSED" THEN available \cup {port} ELSE available \ {port}
  /\ IF port = "keyboard port" /\ ~singleChannel
       THEN GoTo("mouse port", <<Command("TEST_MOUSE_PORT")>>)
       ELSE GoTo("controller ready", UnlockInput)
  /\ UNCHANGED <<handler, configuration, singleChannel, call>>

-----------------------------------------------------------------------------
(* PS2Keyboard::SendByte and the functions made of it: what is sent and    *)
(* acknowledged, and what is taken from the buffer, in this order.         *)
Send(name) == [does |-> "send", name |-> name]
Expect(name) == [does |-> "take", name |-> name]
Anything == Expect("anything")
ScanCodeSet(n) == <<"SET_1", "SET_2", "SET_3">>[n]

Reset == <<Send("RESET"), Expect("RESET_DONE")>>
Echo == <<Send("ECHO"), Expect("ECHO")>>
SetScanCodeSet(n) == <<Send("GET_SET_SCAN_CODE_SET"), Send(ScanCodeSet(n))>>

GetScanCodeSet == <<Send("GET_SET_SCAN_CODE_SET"), Send("GET_CURRENT_SET"), Anything>>
GetType == <<Send("DISABLE_SCANNING"), Send("IDENTIFY"), Expect("MF2_PREFIX"), Anything>>

(* GetType ends with UnlockInput, whatever happened, and ignores its result. *)
Finally(script) == IF script = GetType THEN <<Send("ENABLE_SCANNING")>> ELSE <<>>

NoCall == [script |-> <<>>, finally |-> <<>>, times |-> 0]
Calling(script) == [script |-> script, finally |-> Finally(script), times |-> ResendTimesCount]

(* The end of a call, or of its part before finally. *)
Leave(place) ==
  IF call.finally # <<>> THEN call' = Calling(call.finally) /\ GoTo("call", <<>>)
  ELSE call' = NoCall /\ GoTo(place, <<>>)

Fails == Leave(IF calls = 0 THEN "no keyboard" ELSE "idle")
Succeeds == call.script = <<>> /\ Leave("idle")

Sends ==
  /\ call.script # <<>> /\ Head(call.script).does = "send"
  /\ call' = [call EXCEPT !.times = ResendTimesCount]
  /\ GoTo("answer", <<Data(Byte(Head(call.script).name))>>)

CallStep ==
  /\ at = "call" /\ todo = <<>>
  /\ Succeeds \/ Sends
  /\ UNCHANGED <<hardware, controllerVars, keyboard, buffer, handler, localVars, historyVars>>

MayResend(times) == times > 0

Advance == call' = [call EXCEPT !.script = Tail(@)] /\ GoTo("call", <<>>)

(* ReadBufferLastByte, and what SendByte and its callers make of the byte. *)
TakeByte ==
  /\ buffer # <<>> /\ buffer' = Tail(buffer)
  /\ LET name == Head(buffer).name
         step == Head(call.script)
     IN  \/ /\ at = "answer" /\ todo = <<>>
            /\ IF name = "ACK" THEN Advance
               ELSE IF name = "RESEND" /\ MayResend(call.times)
                 THEN call' = [call EXCEPT !.times = @ - 1] /\ GoTo("answer", <<Data(Byte(step.name))>>)
                 ELSE Fails
         \/ /\ at = "call" /\ todo = <<>> /\ call.script # <<>> /\ step.does = "take"
            /\ IF step.name \in {name, "anything"} THEN Advance ELSE Fails
  /\ UNCHANGED <<hardware, controllerVars, keyboard, handler, localVars, historyVars>>

-----------------------------------------------------------------------------
(* PS2Keyboard::Initialize, called if the controller's has succeeded. *)
BeginKeyboard ==
  /\ at = "controller ready" /\ todo = <<>>
  /\ IF "keyboard port" \in available THEN GoTo("keyboard flush", <<>>) ELSE GoTo("no keyboard", <<>>)
  /\ call' = [NoCall EXCEPT !.times = ResendTimesCount]
  /\ UNCHANGED <<hardware, controllerVars, keyboard, buffer, handler, localVars, historyVars>>

(* Asked to send again, the loop waits for the next answer. *)
EnableScanning ==
  /\ ReadAnswer("enable")
  /\ IF Answer.name = "ACK"
       THEN /\ handler' = TRUE /\ UNCHANGED call
            /\ GoTo("reconfigure", <<Command("READ_CONFIGURATION")>>)
     ELSE IF Answer.name = "RESEND" /\ MayResend(call.times)
       THEN call' = [call EXCEPT !.times = @ - 1] /\ UNCHANGED <<at, todo, handler>>
     ELSE GoTo("no keyboard", <<>>) /\ UNCHANGED <<handler, call>>
  /\ UNCHANGED localVars

(* The keyboard's interrupt stays off. *)
Wanted_Mutant == {}

Wanted == {"KEYBOARD_IRQ"}

Reconfigure ==
  /\ ReadAnswer("reconfigure")
  /\ GoTo("call", WriteConfiguration(Answer.flags \cup Wanted))
  /\ call' = Calling(Reset \o SetScanCodeSet(2))
  /\ UNCHANGED <<handler, localVars>>

(* Once the set-up is done the functions can be called in any order; what  *)
(* lies in the buffer between calls is taken by GetInput.                  *)
Call ==
  /\ at = "idle" /\ calls < MaxCalls
  /\ \E script \in {Reset, Echo, GetScanCodeSet, GetType} \cup {SetScanCodeSet(n) : n \in 1 .. 3} :
       call' = Calling(script)
  /\ calls' = calls + 1 /\ GoTo("call", <<>>)
  /\ UNCHANGED <<hardware, controllerVars, keyboard, buffer, handler, localVars, keys, refusals, lost>>

(* PS2Controller::Reboot, with interrupts off from its beginning. *)
Reboot ==
  /\ at = "idle" /\ GoTo("reboot flush", <<>>)
  /\ UNCHANGED <<hardware, controllerVars, keyboard, buffer, handler, localVars, call, historyVars>>

GetInput ==
  /\ at = "idle" /\ buffer # <<>> /\ buffer' = Tail(buffer)
  /\ UNCHANGED <<hardware, controllerVars, keyboard, handler, at, todo, localVars, call, historyVars>>

IRQHandler ==
  /\ handler /\ "KEYBOARD_IRQ" \in config /\ output # <<>>
  /\ at \notin {"reboot flush", "reboot"}
  /\ buffer' = buffer \o output /\ output' = <<>>
  /\ UNCHANGED <<hardware, input, expects, config, keyboard, handler, at, todo, localVars, call, historyVars>>

-----------------------------------------------------------------------------
(* The controller (external): commands change the configuration or answer  *)
(* once the output register is free.  The self test may reset the          *)
(* configuration; a controller of one channel ignores the mouse commands.  *)
MouseFlag == IF hardware.dual THEN {"MOUSE_LOCKED"} ELSE {}

Reconfigured(name) ==
  IF name = "LOCK_KEYBOARD" THEN config \cup {"KEYBOARD_LOCKED"}
  ELSE IF name = "UNLOCK_KEYBOARD" THEN config \ {"KEYBOARD_LOCKED"}
  ELSE IF name = "LOCK_MOUSE" THEN config \cup MouseFlag
  ELSE IF name = "UNLOCK_MOUSE" THEN config \ MouseFlag
  ELSE config

Answers(name) ==
  IF name = "READ_CONFIGURATION" THEN <<ConfigByte(config)>>
  ELSE IF name = "TEST_CONTROLLER"
    THEN <<Byte(IF hardware.controller THEN "CONTROLLER_TEST_PASSED" ELSE "CONTROLLER_TEST_FAILED")>>
  ELSE IF name \in {"TEST_KEYBOARD_PORT", "TEST_MOUSE_PORT"}
    THEN <<Byte(IF hardware.ports THEN "PORT_TEST_PASSED" ELSE "PORT_TEST_FAILED")>>
  ELSE <<>>

Resets == {"TRANSLATE", "KEYBOARD_IRQ"}

TakeCommand ==
  /\ input # <<>> /\ Head(input).port = "command"
  /\ LET name == Head(input).byte.name
     IN  /\ Answers(name) # <<>> => output = <<>>
         /\ output' = output \o Answers(name)
         /\ expects' = IF name = "WRITE_CONFIGURATION" THEN "configuration" ELSE "keyboard"
         /\ \/ config' = Reconfigured(name)
            \/ name = "TEST_CONTROLLER" /\ config' = Resets
  /\ input' = <<>>
  /\ UNCHANGED <<hardware, keyboard, buffer, handler, at, todo, localVars, call, historyVars>>

TakeConfiguration ==
  /\ input # <<>> /\ Head(input).port = "data" /\ expects = "configuration"
  /\ config' = Head(input).byte.flags /\ expects' = "keyboard" /\ input' = <<>>
  /\ UNCHANGED <<hardware, output, keyboard, buffer, handler, at, todo, localVars, call, historyVars>>

(* The keyboard (external) answers what it is sent, or asks for it again.  *)
(* Sending to it unlocks its port.                                         *)
Sets == {ScanCodeSet(n) : n \in 1 .. 3}

Obeyed(name) ==
  IF name = "RESET" THEN [keyboard EXCEPT !.scanning = TRUE, !.set = "SET_2", !.argument = FALSE]
  ELSE IF name = "ENABLE_SCANNING" THEN [keyboard EXCEPT !.scanning = TRUE, !.argument = FALSE]
  ELSE IF name = "DISABLE_SCANNING" THEN [keyboard EXCEPT !.scanning = FALSE, !.argument = FALSE]
  ELSE IF name \in Sets THEN [keyboard EXCEPT !.set = name, !.argument = FALSE]
  ELSE [keyboard EXCEPT !.argument = name = "GET_SET_SCAN_CODE_SET"]

Reply(name) ==
  IF name = "ECHO" THEN <<"ECHO">>
  ELSE IF name = "RESET" THEN <<"ACK", "RESET_DONE">>
  ELSE IF name = "IDENTIFY" THEN <<"ACK", "MF2_PREFIX", "MF2">>
  ELSE IF name = "GET_CURRENT_SET" THEN <<"ACK", keyboard.set>>
  ELSE <<"ACK">>

Understood(name) == name \in Sets \cup {"GET_CURRENT_SET"} => keyboard.argument

TakeData ==
  /\ input # <<>> /\ Head(input).port = "data" /\ expects = "keyboard"
  /\ LET name == Head(input).byte.name
     IN  IF ~hardware.keyboard THEN UNCHANGED <<keyboard, refusals>>
         ELSE \/ /\ Understood(name)
                 /\ keyboard' = [Obeyed(name) EXCEPT !.sends = @ \o Reply(name)]
                 /\ UNCHANGED refusals
              \/ /\ IF Understood(name) THEN refusals < MaxRefusals /\ refusals' = refusals + 1
                                        ELSE UNCHANGED refusals
                 /\ keyboard' = [keyboard EXCEPT !.sends = Append(@, "RESEND")]
  /\ config' = config \ {"KEYBOARD_LOCKED"} /\ input' = <<>>
  /\ UNCHANGED <<hardware, output, expects, buffer, handler, at, todo, localVars, call, calls, keys, lost>>

PressKey ==
  /\ hardware.keyboard /\ keyboard.scanning /\ keys < MaxKeys
  /\ keyboard' = [keyboard EXCEPT !.sends = Append(@, "key")] /\ keys' = keys + 1
  /\ UNCHANGED <<hardware, controllerVars, buffer, handler, at, todo, localVars, call, calls, refusals, lost>>

Deliver ==
  /\ keyboard.sends # <<>> /\ output = <<>> /\ "KEYBOARD_LOCKED" \notin config
  /\ output' = <<Byte(Head(keyboard.sends))>>
  /\ keyboard' = [keyboard EXCEPT !.sends = Tail(@)]
  /\ UNCHANGED <<hardware, input, expects, config, buffer, handler, at, todo, localVars, call, historyVars>>

-----------------------------------------------------------------------------
Init ==
  /\ hardware \in [mentioned : BOOLEAN, controller : BOOLEAN, ports : BOOLEAN, dual : BOOLEAN, keyboard : BOOLEAN]
  /\ input = <<>> /\ output = <<>> /\ expects = "keyboard" /\ config = {"TRANSLATE", "KEYBOARD_IRQ"}
  /\ keyboard = [scanning |-> TRUE, set |-> "SET_2", argument |-> FALSE, sends |-> <<>>]
  /\ buffer = <<>> /\ handler = FALSE
  /\ Start
  /\ configuration = {} /\ singleChannel = TRUE /\ available = {}
  /\ call = NoCall
  /\ calls = 0 /\ keys = 0 /\ refusals = 0 /\ lost = {}

Polls ==
  \/ Flush("flush") \/ Flush("keyboard flush") \/ Flush("reboot flush")
  \/ Configure \/ TestController \/ FindMouse
  \/ TestPort("keyboard port") \/ TestPort("mouse port") \/ EnableScanning \/ Reconfigure

Driver == Write \/ Polls \/ EndFlush \/ BeginKeyboard \/ CallStep \/ TakeByte
Device == TakeCommand \/ TakeConfiguration \/ TakeData

Next == Driver \/ Call \/ Reboot \/ GetInput \/ Device \/ PressKey \/ Deliver \/ IRQHandler

Spec == Init /\ [][Next]_vars

(* The driver runs, the devices take and deliver what they can, and        *)
(* interrupts arrive: IRQs have been on since HardwareIRQs::Initialize.    *)
FairSpec == Spec /\ WF_vars(Driver) /\ WF_vars(Device) /\ WF_vars(Deliver) /\ WF_vars(IRQHandler)

-----------------------------------------------------------------------------
Ended == {"no controller", "no keyboard", "idle"}

TypeOK ==
  /\ Len(input) <= 1 /\ Len(output) <= 1 /\ config \subseteq Flags
  /\ call.times \in 0 .. ResendTimesCount
  /\ available \subseteq {"keyboard port", "mouse port"}
  /\ at \in Ended \cup {"flush", "configure", "test", "mouse", "keyboard port", "mouse port",
                         "controller ready", "keyboard flush", "enable", "reconfigure", "call", "answer",
                         "reboot flush", "reboot"}

(* A command is written without waiting for the controller to take the     *)
(* byte before it, which is then lost.  It can be a lock, an unlock or a   *)
(* configuration, but, unless a key is taken for an answer, never one      *)
(* whose answer the driver waits for.                                      *)
LostAreUnanswered == keys = 0 =>
  lost \subseteq {"LOCK_KEYBOARD", "LOCK_MOUSE", "UNLOCK_KEYBOARD", "UNLOCK_MOUSE", "configuration"}

(* Without lost bytes and without a key the set-up gives up only because   *)
(* of hardware that is missing or broken or that asks for a byte more      *)
(* often than ResendTimesCount.                                            *)
FailureHasReason == lost = {} /\ keys = 0 =>
  /\ at = "no controller" => ~hardware.mentioned \/ ~hardware.controller
  /\ at = "no keyboard" => ~hardware.ports \/ refusals > ResendTimesCount

(* Whatever was typed meanwhile, a set-up that succeeds has left the       *)
(* keyboard scanning in set 2 with its interrupt on, and, unless a byte    *)
(* was lost, untranslated.                                                 *)
ReadyIsConfigured == at = "idle" /\ calls = 0 =>
  /\ keyboard.scanning /\ keyboard.set = "SET_2"
  /\ handler /\ "KEYBOARD_IRQ" \in config
  /\ lost = {} => "TRANSLATE" \notin config

(* Between calls the keyboard scans, as long as no key was pressed and it  *)
(* asked for bytes no more often than they are sent again.                 *)
ScanningIsRestored ==
  at = "idle" /\ keys = 0 /\ refusals <= ResendTimesCount => keyboard.scanning

(* The set-up ends, unless a byte was lost, no keyboard is there, or       *)
(* Initialize was asked to send ENABLE_SCANNING again: it waits for an     *)
(* answer without sending.                                                 *)
AskedAgain == at = "enable" /\ call.times < ResendTimesCount
SetUpIsOver == at \in Ended \/ lost # {} \/ ~hardware.keyboard \/ AskedAgain
=============================================================================
