------------------------------ MODULE Keyboard ------------------------------
(***************************************************************************)
(* The keyboard driver of library/ps2/ps2-keyboard.cxx once it is set up:  *)
(* the interrupt handler that queues scan bytes and GetInput, which takes  *)
(* them out while interrupts are on.  Neither locks the buffer out from    *)
(* the other.  The build is unoptimised (-O0 in bin/makefile), so that     *)
(*     uint8_t value = Buffer_[--BufferLength_];                           *)
(* loads the length, stores it less one, loads it again and fetches the    *)
(* byte, and the interrupt can fall between any two of these.              *)
(***************************************************************************)
EXTENDS Integers, FiniteSets, SequencesExt

CONSTANTS
  Keys,              \* [extended, code]: the keys of the keyboard
  LeftShift, RightShift, CapsLock,
  Extended,          \* SCAN_CODE_EXTENDED, 0xE0
  Released,          \* SCAN_CODE_RELEASED, 0xF0
  NoByte,            \* what a byte of the buffer holds before it is used
  MaxBufferLength,   \* PS2Keyboard::MaxBufferLength
  MaxEvents          \* bound: keys pressed or released in a behaviour

ASSUME KeyboardAssumption ==
  /\ \A k \in Keys : k = [extended |-> k.extended, code |-> k.code] /\ k.extended \in BOOLEAN
  /\ \A k \in Keys : k.code \notin {Extended, Released, NoByte}
  /\ Cardinality({LeftShift, RightShift, CapsLock, Extended, Released, NoByte}) = 6
  /\ MaxBufferLength \in Nat \ {0} /\ MaxEvents \in Nat

VARIABLES
  typed,          \* history: what the user has done, [key, released]
  wire,           \* bytes the keyboard has yet to deliver
  buffer,         \* Buffer_
  bufferLength,   \* BufferLength_
  reader,         \* where ReadBufferLastByte stands and the value it has loaded
  read,           \* the bytes GetInput has taken in the call under way
  shiftPressed,   \* ShiftPressed_
  capsLockPressed,\* CapsLockPressed_
  inputs,         \* history: the results of GetInput
  unread,         \* history: bytes queued less bytes taken
  overwritten,    \* history: interrupts between the load and the store of a length
  raced,          \* history: an interrupt has fallen inside a read
  damaged         \* a byte was written past the end of Buffer_

keyboardVars == <<typed, wire>>
bufferVars   == <<buffer, bufferLength>>
inputVars    == <<read, shiftPressed, capsLockPressed, inputs>>
historyVars  == <<unread, overwritten, raced>>
vars == <<keyboardVars, bufferVars, reader, inputVars, historyVars, damaged>>

Cell == 0 .. MaxBufferLength - 1

-----------------------------------------------------------------------------
(* What the keyboard sends for a key. *)
Bytes(key, released) ==
  (IF key.extended THEN <<Extended>> ELSE <<>>)
    \o (IF released THEN <<Released>> ELSE <<>>) \o <<key.code>>

Held(key) == \E i \in DOMAIN typed :
  /\ typed[i] = [key |-> key, released |-> FALSE]
  /\ \A j \in i + 1 .. Len(typed) : typed[j].key # key

(* Holding a key repeats its press. *)
Type(key, released) ==
  /\ ~damaged
  /\ Len(typed) < MaxEvents
  /\ released => Held(key)
  /\ typed' = Append(typed, [key |-> key, released |-> released])
  /\ wire' = wire \o Bytes(key, released)
  /\ UNCHANGED <<bufferVars, reader, inputVars, historyVars, damaged>>

-----------------------------------------------------------------------------
(* The newest byte goes to the front, the others move up by one. *)
Shifted(byte) == [i \in Cell |->
  IF i = 0 THEN byte ELSE IF i <= bufferLength THEN buffer[i - 1] ELSE buffer[i]]

(* The length is not advanced. *)
LengthAfterIRQ_Mutant == bufferLength

LengthAfterIRQ == bufferLength + 1

IRQHandler ==
  /\ ~damaged /\ wire # <<>> /\ bufferLength < MaxBufferLength
  /\ buffer' = Shifted(Head(wire))
  /\ bufferLength' = LengthAfterIRQ
  /\ wire' = Tail(wire)
  /\ unread' = unread + 1
  /\ overwritten' = overwritten + (IF reader.at = "store" THEN 1 ELSE 0)
  /\ raced' = (raced \/ reader.at # "load")
  /\ UNCHANGED <<typed, reader, inputVars, damaged>>

(* A full buffer: Buffer_[MaxBufferLength] is written.  What lies there is *)
(* the linker's choice, and the model goes no further.                     *)
IRQHandlerOverflow ==
  /\ ~damaged /\ wire # <<>> /\ bufferLength >= MaxBufferLength
  /\ damaged' = TRUE
  /\ UNCHANGED <<keyboardVars, bufferVars, reader, inputVars, historyVars>>

-----------------------------------------------------------------------------
(* The wait ends one byte too late. *)
MayLoad_Mutant == bufferLength > 1

(* while (!BufferLength_); *)
MayLoad == bufferLength > 0

LoadLength ==
  /\ ~damaged /\ reader.at = "load" /\ MayLoad
  /\ reader' = [at |-> "store", value |-> bufferLength]
  /\ UNCHANGED <<keyboardVars, bufferVars, inputVars, historyVars, damaged>>

(* --BufferLength_, from the value loaded before. *)
StoreLength ==
  /\ ~damaged /\ reader.at = "store"
  /\ bufferLength' = reader.value - 1
  /\ reader' = [at |-> "reload", value |-> 0]
  /\ unread' = unread - 1
  /\ UNCHANGED <<keyboardVars, buffer, inputVars, overwritten, raced, damaged>>

ReloadLength ==
  /\ ~damaged /\ reader.at = "reload"
  /\ reader' = [at |-> "fetch", value |-> bufferLength]
  /\ UNCHANGED <<keyboardVars, bufferVars, inputVars, historyVars, damaged>>

-----------------------------------------------------------------------------
(* Whether GetInput has read enough: a prefix asks for another byte, and a *)
(* release prefix in second place for a third.                             *)
Complete(bytes) ==
  \/ bytes[1] \notin {Extended, Released}
  \/ Len(bytes) = 2 /\ bytes[2] # Released
  \/ Len(bytes) = 3

ScanCodeOf(bytes) == [extended |-> bytes[1] = Extended, code |-> Last(bytes)]

(* A release prefix behind the extension prefix is overlooked. *)
IsRelease_Mutant(bytes) == bytes[1] = Released

IsRelease(bytes) == \E i \in 1 .. Len(bytes) - 1 : bytes[i] = Released

IsShift(key)    == ~key.extended /\ key.code \in {LeftShift, RightShift}
IsCapsLock(key) == ~key.extended /\ key.code = CapsLock

(* The end of GetInput: modifiers first, then the result with the scan     *)
(* code map they select.                                                   *)
FinishInput(bytes) ==
  LET key == ScanCodeOf(bytes)
  IN  /\ shiftPressed' = IF IsShift(key) THEN ~IsRelease(bytes) ELSE shiftPressed
      /\ capsLockPressed' =
           IF IsCapsLock(key) /\ ~IsRelease(bytes) THEN ~capsLockPressed ELSE capsLockPressed
      /\ inputs' = Append(inputs, [key |-> key, released |-> IsRelease(bytes),
                                   shift |-> shiftPressed', caps |-> capsLockPressed'])
      /\ read' = <<>>

(* What a fetch can yield: past the array, which a read that was interrupted *)
(* while the buffer was all but full can reach, anything.                  *)
Fetched(index) ==
  IF index \in Cell THEN {buffer[index]}
  ELSE {k.code : k \in Keys} \cup {Extended, Released, NoByte}

FetchByte ==
  /\ ~damaged /\ reader.at = "fetch"
  /\ \E byte \in Fetched(reader.value) :
       LET bytes == Append(read, byte)
       IN  IF Complete(bytes)
             THEN FinishInput(bytes)
             ELSE read' = bytes /\ UNCHANGED <<shiftPressed, capsLockPressed, inputs>>
  /\ reader' = [at |-> "load", value |-> 0]
  /\ UNCHANGED <<keyboardVars, bufferVars, historyVars, damaged>>

-----------------------------------------------------------------------------
Init ==
  /\ typed = <<>> /\ wire = <<>>
  /\ buffer = [i \in Cell |-> NoByte] /\ bufferLength = 0
  /\ reader = [at |-> "load", value |-> 0]
  /\ read = <<>> /\ inputs = <<>>
  /\ shiftPressed = FALSE /\ capsLockPressed = FALSE
  /\ unread = 0 /\ overwritten = 0 /\ raced = FALSE
  /\ damaged = FALSE

ReadBufferLastByte == LoadLength \/ StoreLength \/ ReloadLength \/ FetchByte

Next ==
  \/ \E key \in Keys, released \in BOOLEAN : Type(key, released)
  \/ IRQHandler \/ IRQHandlerOverflow
  \/ ReadBufferLastByte

Spec == Init /\ [][Next]_vars

(* A caller keeps reading and interrupts are let in meanwhile. *)
FairSpec == Spec /\ WF_vars(ReadBufferLastByte) /\ WF_vars(IRQHandler \/ IRQHandlerOverflow)

-----------------------------------------------------------------------------
TypeOK ==
  /\ buffer \in [Cell -> {k.code : k \in Keys} \cup {Extended, Released, NoByte}]
  /\ bufferLength \in 0 .. MaxBufferLength
  /\ reader \in [at : {"load", "store", "reload", "fetch"}, value : 0 .. MaxBufferLength]
  /\ Len(read) < 3
  /\ shiftPressed \in BOOLEAN /\ capsLockPressed \in BOOLEAN
  /\ raced \in BOOLEAN /\ damaged \in BOOLEAN

(* What GetInput should make of the n-th thing the user does: whether a    *)
(* shift key went down last and whether Caps Lock was pressed oddly often. *)
Expected(n) ==
  [key      |-> typed[n].key,
   released |-> typed[n].released,
   shift    |-> \E i \in 1 .. n : /\ IsShift(typed[i].key) /\ ~typed[i].released
                                  /\ \A j \in i + 1 .. n : ~IsShift(typed[j].key),
   caps     |-> Cardinality({i \in 1 .. n : IsCapsLock(typed[i].key) /\ ~typed[i].released}) % 2 = 1]

(* As long as no interrupt falls inside a read, GetInput reports what was  *)
(* typed, key by key, in order and under the right modifiers, however      *)
(* typing, interrupts and reads interleave.                                *)
InputsAreTyped == ~raced =>
  /\ Len(inputs) <= Len(typed)
  /\ \A n \in DOMAIN inputs : inputs[n] = Expected(n)

(* BufferLength_ counts the unread bytes, except for those whose increment *)
(* an interrupted decrement has overwritten: so it never falls below zero, *)
(* and interrupts at any other place lose no count.                        *)
LengthCountsUnread == reader.at # "store" => unread = bufferLength + overwritten

(* As often as an interrupt's increment has been overwritten, a byte is    *)
(* left behind for ever, with GetInput waiting for a length above zero     *)
(* (ps2-keyboard.cxx:49); but no more than those: again and again all      *)
(* others have been taken, unless the buffer overflows.                    *)
BufferDrains ==
  /\ []<>(unread = overwritten \/ damaged)
  /\ [](unread >= overwritten)
  /\ [][overwritten' >= overwritten]_overwritten

(* BufferLength_ stays within Buffer_[MaxBufferLength].                    *)
StaysInBuffer == ~damaged
=============================================================================
