------------------------------ MODULE PS2Proofs ------------------------------
(***************************************************************************)
(* Theorems about the keyboard driver, for every keyboard, every length of *)
(* the buffer and however long it is typed on: first those about the queue *)
(* and what is read from it, then those about the set-up, for every        *)
(* hardware and any number of keys, refused bytes and calls.               *)
(***************************************************************************)
EXTENDS PS2, FiniteSetTheorems, SequenceTheorems, TLAPS

ByteSet == {k.code : k \in Keys} \cup {Extended, Released, NoByte}
Event   == [key : Keys, released : BOOLEAN]
Result  == [key : [extended : BOOLEAN, code : ByteSet], released : BOOLEAN,
            shift : BOOLEAN, caps : BOOLEAN]

(* What GetInput has taken asks for another byte. *)
Partial(bytes) ==
  \/ Len(bytes) = 0
  \/ Len(bytes) = 1 /\ bytes[1] \in {Extended, Released}
  \/ Len(bytes) = 2 /\ bytes[1] \in {Extended, Released} /\ bytes[2] = Released

KeyboardType ==
  /\ typed \in Seq(Event) /\ wire \in Seq(ByteSet)
  /\ buffer \in [Cell -> ByteSet]
  /\ bufferLength \in Nat /\ bufferLength <= MaxBufferLength
  /\ reader \in [at : {"load", "store", "reload", "fetch"}, value : Nat]
  /\ reader.value <= MaxBufferLength
  /\ read \in Seq(ByteSet) /\ Partial(read)
  /\ inputs \in Seq(Result)
  /\ shiftPressed \in BOOLEAN /\ capsLockPressed \in BOOLEAN
  /\ unread \in Int /\ overwritten \in Nat
  /\ raced \in BOOLEAN /\ damaged \in BOOLEAN

(* Between load and store the loaded length stands for the counted one. *)
Count ==
  IF reader.at = "store"
    THEN reader.value > 0 /\ unread = reader.value + overwritten
    ELSE unread = bufferLength + overwritten

(* Without an interrupt inside a read a loaded length is the length. *)
Calm == ~raced =>
  /\ reader.at \in {"store", "fetch"} => reader.value = bufferLength
  /\ reader.at \in {"reload", "fetch"} => bufferLength < MaxBufferLength

(* The bytes on their way from the keyboard into inputs, by their place:   *)
(* those read, those queued with the one that is off the count but not yet *)
(* fetched, those on the wire.                                             *)
Queued == IF reader.at \in {"reload", "fetch"} THEN bufferLength + 1 ELSE bufferLength
StreamLength == Len(read) + Queued + Len(wire)
StreamByte(p) ==
  IF p <= Len(read) THEN read[p]
  ELSE IF p <= Len(read) + Queued THEN buffer[Queued - (p - Len(read))]
  ELSE wire[p - (Len(read) + Queued)]

BytesOf(n) == Bytes(typed[n].key, typed[n].released)

(* The stream is what was typed and is not yet in inputs, event by event:  *)
(* event n's bytes begin behind start[n].  (That start grows follows, but  *)
(* only by induction, so it is said.)                                      *)
Spells(start) ==
  /\ start[Len(inputs) + 1] = 0
  /\ start[Len(typed) + 1] = StreamLength
  /\ \A m, n \in Len(inputs) + 1 .. Len(typed) + 1 : m <= n => start[m] <= start[n]
  /\ \A n \in Len(inputs) + 1 .. Len(typed) :
       /\ start[n + 1] = start[n] + Len(BytesOf(n))
       /\ \A k \in DOMAIN BytesOf(n) : StreamByte(start[n] + k) = BytesOf(n)[k]

ShiftDown(n) == \E i \in 1 .. n :
  /\ IsShift(typed[i].key) /\ ~typed[i].released
  /\ \A j \in i + 1 .. n : ~IsShift(typed[j].key)

CapsPresses(n) == {i \in 1 .. n : IsCapsLock(typed[i].key) /\ ~typed[i].released}

Faithful == ~raced =>
  /\ Len(inputs) <= Len(typed)
  /\ \E start \in [1 .. Len(typed) + 1 -> Nat] : Spells(start)
  /\ \A n \in DOMAIN inputs : inputs[n] = Expected(n)
  /\ shiftPressed = ShiftDown(Len(inputs))
  /\ capsLockPressed = (Cardinality(CapsPresses(Len(inputs))) % 2 = 1)

KeyboardInv == KeyboardType /\ Count /\ Calm /\ Faithful

-----------------------------------------------------------------------------
(* One element makes a set at most one element larger. *)
LEMMA AddOne ==
  ASSUME NEW S, NEW x, IsFiniteSet(S), NEW n \in Nat, Cardinality(S) <= n
  PROVE  IsFiniteSet(S \cup {x}) /\ Cardinality(S \cup {x}) <= n + 1
<1>1. Cardinality(S) \in Nat
  BY FS_CardinalityType
<1>2. IsFiniteSet(S \cup {x}) /\ Cardinality(S \cup {x}) \in {Cardinality(S), Cardinality(S) + 1}
  BY FS_AddElement
<1>3. QED
  BY <1>1, <1>2

(* Prefixes and codes are told apart. *)
LEMMA PrefixesDiffer ==
  /\ Extended # Released
  /\ \A k \in Keys : k.extended \in BOOLEAN /\ k.code \notin {Extended, Released}
<1>1. ASSUME Extended = Released PROVE FALSE
  <2> DEFINE one == {LeftShift}
             two == one \cup {RightShift}
             three == two \cup {CapsLock}
             four == three \cup {Extended}
             five == four \cup {NoByte}
  <2>1. {LeftShift, RightShift, CapsLock, Extended, Released, NoByte} = five
    BY <1>1
  <2>2. IsFiniteSet(one) /\ Cardinality(one) <= 1
    <3>1. IsFiniteSet(one) /\ Cardinality(one) = 1
      BY FS_Singleton, Zenon
    <3>2. QED
      BY <3>1
  <2> HIDE DEF one, two, three, four, five
  <2>3. IsFiniteSet(two) /\ Cardinality(two) <= 2
    BY <2>2, AddOne, 1 \in Nat, 1 + 1 = 2 DEF two
  <2>4. IsFiniteSet(three) /\ Cardinality(three) <= 3
    BY <2>3, AddOne, 2 \in Nat, 2 + 1 = 3 DEF three
  <2>5. IsFiniteSet(four) /\ Cardinality(four) <= 4
    BY <2>4, AddOne, 3 \in Nat, 3 + 1 = 4 DEF four
  <2>6. IsFiniteSet(five) /\ Cardinality(five) <= 5
    BY <2>5, AddOne, 4 \in Nat, 4 + 1 = 5 DEF five
  <2>7. QED
    BY <2>1, <2>6, KeyboardAssumption
<1>2. QED
  BY <1>1, KeyboardAssumption

(* Sequences of one and two elements, one behind the other. *)
LEMMA SmallConcat ==
  ASSUME NEW S, NEW a \in S, NEW b \in S, NEW c \in S
  PROVE  /\ <<a>> \o <<b>> = <<a, b>>
         /\ <<a, b>> \o <<c>> = <<a, b, c>>
<1>1. <<a>> \in Seq(S) /\ <<b>> \in Seq(S) /\ <<c>> \in Seq(S) /\ <<a, b>> \in Seq(S) /\ <<a, b, c>> \in Seq(S)
  OBVIOUS
<1>2. <<a>> \o <<b>> = <<a, b>>
  <2>1. /\ <<a>> \o <<b>> \in Seq(S) /\ Len(<<a>> \o <<b>>) = 2
        /\ \A n \in 1 .. 2 : (<<a>> \o <<b>>)[n] = <<a, b>>[n]
    BY <1>1
  <2>2. QED
    BY <2>1, <1>1, SeqEqual
<1>3. <<a, b>> \o <<c>> = <<a, b, c>>
  <2>1. /\ <<a, b>> \o <<c>> \in Seq(S) /\ Len(<<a, b>> \o <<c>>) = 3
        /\ \A n \in 1 .. 3 : (<<a, b>> \o <<c>>)[n] = <<a, b, c>>[n]
    BY <1>1
  <2>2. QED
    BY <2>1, <1>1, SeqEqual
<1>4. QED
  BY <1>2, <1>3

(* What the keyboard sends, spelled out. *)
LEMMA BytesFacts ==
  ASSUME NEW key \in Keys, NEW released \in BOOLEAN
  PROVE  /\ Bytes(key, released) =
              IF key.extended
                THEN IF released THEN <<Extended, Released, key.code>> ELSE <<Extended, key.code>>
                ELSE IF released THEN <<Released, key.code>> ELSE <<key.code>>
         /\ Bytes(key, released) \in Seq(ByteSet)
         /\ Len(Bytes(key, released)) \in 1 .. 3
<1>1. key.code \in ByteSet /\ Extended \in ByteSet /\ Released \in ByteSet /\ key.extended \in BOOLEAN
  BY KeyboardAssumption DEF ByteSet
<1> DEFINE code == key.code
<1>2. /\ <<code>> \in Seq(ByteSet) /\ <<Released>> \in Seq(ByteSet) /\ <<Extended>> \in Seq(ByteSet)
      /\ <<Extended, Released>> \in Seq(ByteSet) /\ <<>> \in Seq(ByteSet)
  BY <1>1
<1>3. /\ <<>> \o <<>> = <<>> /\ <<>> \o <<code>> = <<code>>
      /\ <<>> \o <<Released>> = <<Released>> /\ <<Extended>> \o <<>> = <<Extended>>
  BY <1>2, ConcatEmptySeq
<1>4. /\ <<Released>> \o <<code>> = <<Released, code>> /\ <<Extended>> \o <<code>> = <<Extended, code>>
      /\ <<Extended>> \o <<Released>> = <<Extended, Released>>
      /\ <<Extended, Released>> \o <<code>> = <<Extended, Released, code>>
  BY <1>1, <1>2, SmallConcat
<1>5. Bytes(key, released) =
        IF key.extended
          THEN IF released THEN <<Extended, Released, key.code>> ELSE <<Extended, key.code>>
          ELSE IF released THEN <<Released, key.code>> ELSE <<key.code>>
  BY <1>1, <1>3, <1>4 DEF Bytes
<1>6. QED
  BY <1>1, <1>5

-----------------------------------------------------------------------------
(* Types. *)
LEMMA LengthIsBounded == MaxBufferLength \in Nat /\ MaxBufferLength > 0
  BY KeyboardAssumption

LEMMA KeyboardTypeInit == Init => KeyboardType
<1> SUFFICES ASSUME Init PROVE KeyboardType
  OBVIOUS
<1>1. buffer \in [Cell -> ByteSet]
  BY DEF Init, ByteSet
<1>2. read = <<>> /\ Partial(read)
  BY DEF Init, Partial
<1>3. typed \in Seq(Event) /\ wire \in Seq(ByteSet) /\ read \in Seq(ByteSet) /\ inputs \in Seq(Result)
  BY DEF Init
<1>4. /\ bufferLength \in Nat /\ bufferLength <= MaxBufferLength
      /\ reader \in [at : {"load", "store", "reload", "fetch"}, value : Nat]
      /\ reader.value <= MaxBufferLength
  BY LengthIsBounded DEF Init
<1>5. /\ shiftPressed \in BOOLEAN /\ capsLockPressed \in BOOLEAN /\ raced \in BOOLEAN /\ damaged \in BOOLEAN
  BY Zenon DEF Init
<1>6. unread \in Int /\ overwritten \in Nat
  BY DEF Init
<1>7. QED
  BY <1>1, <1>2, <1>3, <1>4, <1>5, <1>6, Zenon DEF KeyboardType

LEMMA KeyboardTypeStep == KeyboardType /\ Count /\ [Next]_vars => KeyboardType'
<1> SUFFICES ASSUME KeyboardType, Count, [Next]_vars PROVE KeyboardType'
  OBVIOUS
<1> USE LengthIsBounded
<1>1. ASSUME NEW key \in Keys, NEW released \in BOOLEAN, Type(key, released) PROVE KeyboardType'
  <2>1. Bytes(key, released) \in Seq(ByteSet)
    BY BytesFacts
  <2>2. [key |-> key, released |-> released] \in Event
    BY DEF Event
  <2>3. QED
    BY <1>1, <2>1, <2>2 DEF Type, KeyboardType, bufferVars, inputVars, historyVars
<1>2. CASE IRQHandler
  <2>1. Head(wire) \in ByteSet /\ Tail(wire) \in Seq(ByteSet)
    BY <1>2 DEF IRQHandler, KeyboardType
  <2>2. \A n \in Cell : n <= bufferLength /\ n # 0 => n - 1 \in Cell
    BY DEF Cell
  <2>3. Shifted(Head(wire)) \in [Cell -> ByteSet]
    BY <2>1, <2>2 DEF Shifted, KeyboardType
  <2>4. UNCHANGED <<typed, reader, read, shiftPressed, capsLockPressed, inputs, damaged>>
    BY <1>2 DEF IRQHandler, inputVars
  <2>5. buffer' \in [Cell -> ByteSet] /\ wire' \in Seq(ByteSet)
    BY <1>2, <2>1, <2>3 DEF IRQHandler
  <2>6. /\ bufferLength' \in Nat /\ bufferLength' <= MaxBufferLength
        /\ unread' \in Int /\ overwritten' \in Nat
    BY <1>2 DEF IRQHandler, LengthAfterIRQ, KeyboardType
  <2>7. raced' \in BOOLEAN
    BY <1>2 DEF IRQHandler, KeyboardType
  <2>8. QED
    BY <2>4, <2>5, <2>6, <2>7 DEF KeyboardType, Partial
<1>3. CASE IRQHandlerOverflow
  BY <1>3 DEF IRQHandlerOverflow, KeyboardType, keyboardVars, bufferVars, inputVars, historyVars
<1>4. CASE LoadLength
  BY <1>4 DEF LoadLength, KeyboardType, keyboardVars, bufferVars, inputVars, historyVars
<1>5. CASE StoreLength
  BY <1>5 DEF StoreLength, KeyboardType, Count, keyboardVars, inputVars
<1>6. CASE ReloadLength
  BY <1>6 DEF ReloadLength, KeyboardType, keyboardVars, bufferVars, inputVars, historyVars
<1>7. CASE FetchByte
  <2>1. PICK byte \in Fetched(reader.value) :
          LET bytes == Append(read, byte)
          IN  IF Complete(bytes) THEN FinishInput(bytes)
              ELSE read' = bytes /\ UNCHANGED <<shiftPressed, capsLockPressed, inputs>>
    BY <1>7 DEF FetchByte
  <2>2. byte \in ByteSet
    BY DEF Fetched, KeyboardType, ByteSet
  <2> DEFINE bytes == Append(read, byte)
  <2>3. /\ bytes \in Seq(ByteSet) /\ Len(bytes) = Len(read) + 1 /\ Len(bytes) \in 1 .. 3
        /\ bytes[Len(bytes)] = byte
        /\ \A n \in 1 .. Len(read) : bytes[n] = read[n]
    <3>1. read \in Seq(ByteSet) /\ Len(read) \in 0 .. 2
      BY DEF KeyboardType, Partial
    <3>2. /\ bytes \in Seq(ByteSet) /\ Len(bytes) = Len(read) + 1
          /\ bytes[Len(read) + 1] = byte /\ \A n \in 1 .. Len(read) : bytes[n] = read[n]
      BY <2>2, <3>1, AppendProperties
    <3> HIDE DEF bytes
    <3>3. QED
      BY <3>1, <3>2
  <2>4. /\ read' \in Seq(ByteSet) /\ Partial(read') /\ inputs' \in Seq(Result)
        /\ shiftPressed' \in BOOLEAN /\ capsLockPressed' \in BOOLEAN
    <3>1. CASE Complete(bytes)
      <4>1. FinishInput(bytes)
        BY <2>1, <3>1
      <4>2. ScanCodeOf(bytes) \in [extended : BOOLEAN, code : ByteSet] /\ IsRelease(bytes) \in BOOLEAN
        BY <2>2, <2>3 DEF ScanCodeOf, IsRelease, Last
      <4>3. shiftPressed' \in BOOLEAN /\ capsLockPressed' \in BOOLEAN
        BY <4>1 DEF FinishInput, KeyboardType, IsRelease
      <4>4. read' = <<>> /\ inputs' \in Seq(Result)
        BY <4>1, <4>2, <4>3 DEF FinishInput, KeyboardType, Result
      <4>5. QED
        BY <4>3, <4>4 DEF Partial
    <3>2. CASE ~Complete(bytes)
      <4>1. read' = bytes /\ UNCHANGED <<shiftPressed, capsLockPressed, inputs>>
        BY <2>1, <3>2
      <4>2. Partial(bytes)
        BY <2>3, <3>2 DEF Complete, Partial, KeyboardType
      <4>3. QED
        BY <4>1, <4>2, <2>3 DEF KeyboardType
    <3> HIDE DEF bytes
    <3>3. QED
      BY <3>1, <3>2
  <2>5. QED
    BY <1>7, <2>4 DEF FetchByte, KeyboardType, keyboardVars, bufferVars, historyVars
<1>8. CASE UNCHANGED vars
  BY <1>8 DEF vars, KeyboardType, keyboardVars, bufferVars, inputVars, historyVars
<1>9. QED
  BY <1>1, <1>2, <1>3, <1>4, <1>5, <1>6, <1>7, <1>8 DEF Next, ReadBufferLastByte

-----------------------------------------------------------------------------
(* The count. *)
LEMMA CountInit == Init => Count
  BY DEF Init, Count

LEMMA CountStep == KeyboardType /\ Count /\ [Next]_vars => Count'
<1> SUFFICES ASSUME KeyboardType, Count, [Next]_vars PROVE Count'
  OBVIOUS
<1> USE DEF KeyboardType, Count
<1>1. ASSUME NEW key \in Keys, NEW released \in BOOLEAN, Type(key, released) PROVE Count'
  BY <1>1 DEF Type, bufferVars, historyVars
<1>2. CASE IRQHandler
  <2>1. /\ bufferLength' = bufferLength + 1 /\ unread' = unread + 1 /\ reader' = reader
        /\ overwritten' = overwritten + (IF reader.at = "store" THEN 1 ELSE 0)
    BY <1>2 DEF IRQHandler, LengthAfterIRQ
  <2>2. CASE reader.at = "store"
    BY <2>1, <2>2
  <2>3. CASE reader.at # "store"
    <3>1. unread = bufferLength + overwritten /\ overwritten' = overwritten
      BY <2>1, <2>3
    <3>2. QED
      BY <2>1, <2>3, <3>1
  <2>4. QED
    BY <2>2, <2>3
<1>3. CASE IRQHandlerOverflow
  BY <1>3 DEF IRQHandlerOverflow, bufferVars, historyVars
<1>4. CASE LoadLength
  BY <1>4 DEF LoadLength, MayLoad, bufferVars, historyVars
<1>5. CASE StoreLength
  BY <1>5 DEF StoreLength
<1>6. CASE ReloadLength
  BY <1>6 DEF ReloadLength, bufferVars, historyVars
<1>7. CASE FetchByte
  BY <1>7 DEF FetchByte, bufferVars, historyVars
<1>8. CASE UNCHANGED vars
  BY <1>8 DEF vars, bufferVars, historyVars
<1>9. QED
  BY <1>1, <1>2, <1>3, <1>4, <1>5, <1>6, <1>7, <1>8 DEF Next, ReadBufferLastByte

(* Without an interrupt inside a read. *)
LEMMA CalmInit == Init => Calm
  BY DEF Init, Calm

LEMMA CalmStep == KeyboardType /\ Count /\ Calm /\ [Next]_vars => Calm'
<1> SUFFICES ASSUME KeyboardType, Count, Calm, [Next]_vars PROVE Calm'
  OBVIOUS
<1> USE DEF KeyboardType, Calm
<1>1. ASSUME NEW key \in Keys, NEW released \in BOOLEAN, Type(key, released) PROVE Calm'
  BY <1>1 DEF Type, bufferVars, historyVars
<1>2. CASE IRQHandler
  BY <1>2 DEF IRQHandler
<1>3. CASE IRQHandlerOverflow
  BY <1>3 DEF IRQHandlerOverflow, bufferVars, historyVars
<1>4. CASE LoadLength
  BY <1>4 DEF LoadLength, bufferVars, historyVars
<1>5. CASE StoreLength
  <2>1. /\ reader.at = "store" /\ reader.value > 0 /\ reader.value <= MaxBufferLength /\ reader.value \in Nat
    BY <1>5 DEF StoreLength, Count
  <2>2. bufferLength' < MaxBufferLength /\ reader'.at = "reload"
    BY <1>5, <2>1, LengthIsBounded DEF StoreLength
  <2>3. QED
    BY <2>2
<1>6. CASE ReloadLength
  BY <1>6 DEF ReloadLength, bufferVars, historyVars
<1>7. CASE FetchByte
  BY <1>7 DEF FetchByte, bufferVars, historyVars
<1>8. CASE UNCHANGED vars
  BY <1>8 DEF vars, bufferVars, historyVars
<1>9. QED
  BY <1>1, <1>2, <1>3, <1>4, <1>5, <1>6, <1>7, <1>8 DEF Next, ReadBufferLastByte

-----------------------------------------------------------------------------
(* What is on its way. *)
LEMMA StreamType ==
  ASSUME KeyboardType
  PROVE  /\ Len(read) \in Nat /\ Queued \in Nat /\ Len(wire) \in Nat /\ StreamLength \in Nat
         /\ Len(inputs) \in Nat /\ Len(typed) \in Nat
BY DEF KeyboardType, Queued, StreamLength

LEMMA TypedFacts ==
  ASSUME KeyboardType, NEW n \in 1 .. Len(typed)
  PROVE  /\ typed[n].key \in Keys /\ typed[n].released \in BOOLEAN
         /\ BytesOf(n) \in Seq(ByteSet) /\ Len(BytesOf(n)) \in 1 .. 3
<1>1. typed[n] \in Event
  BY DEF KeyboardType
<1>2. typed[n].key \in Keys /\ typed[n].released \in BOOLEAN
  BY <1>1 DEF Event
<1>3. QED
  BY <1>2, BytesFacts DEF BytesOf

(* What is expected depends on what was typed up to there. *)
LEMMA ExpectedIsStable ==
  ASSUME KeyboardType, Len(typed') \in Nat, Len(typed) <= Len(typed'),
         \A n \in 1 .. Len(typed) : typed'[n] = typed[n],
         NEW n \in 0 .. Len(typed)
  PROVE  /\ ShiftDown(n)' = ShiftDown(n) /\ CapsPresses(n)' = CapsPresses(n)
         /\ n > 0 => Expected(n)' = Expected(n)
<1>1. Len(typed) \in Nat
  BY StreamType
<1>2. \A k \in 1 .. n : typed'[k] = typed[k] /\ \A l \in k + 1 .. n : typed'[l] = typed[l]
  BY <1>1
<1>3. ShiftDown(n)' = ShiftDown(n)
  BY <1>2 DEF ShiftDown, IsShift
<1>4. CapsPresses(n)' = CapsPresses(n)
  BY <1>2 DEF CapsPresses, IsCapsLock
<1>5. n > 0 => typed'[n] = typed[n]
  BY <1>1
<1>6. Expected(n) = [key |-> typed[n].key, released |-> typed[n].released,
                     shift |-> ShiftDown(n), caps |-> Cardinality(CapsPresses(n)) % 2 = 1]
  BY DEF Expected, ShiftDown, CapsPresses
<1>7. Expected(n)' = [key |-> typed'[n].key, released |-> typed'[n].released,
                      shift |-> ShiftDown(n)', caps |-> Cardinality(CapsPresses(n)') % 2 = 1]
  BY DEF Expected, ShiftDown, CapsPresses
<1>8. QED
  BY <1>3, <1>4, <1>5, <1>6, <1>7

(* A step that only moves bytes along the way. *)
LEMMA StreamMoves ==
  ASSUME KeyboardType, KeyboardType', Faithful,
         ~raced' => ~raced,
         UNCHANGED <<typed, inputs, shiftPressed, capsLockPressed>>,
         ~raced' => /\ StreamLength' = StreamLength
                    /\ \A p \in 1 .. StreamLength : StreamByte(p)' = StreamByte(p)
  PROVE  Faithful'
<1> SUFFICES ASSUME ~raced' PROVE Faithful'
  BY DEF Faithful
<1>1. PICK start \in [1 .. Len(typed) + 1 -> Nat] : Spells(start)
  BY DEF Faithful
<1>2. Spells(start)'
  <2>1. ASSUME NEW n \in Len(inputs) + 1 .. Len(typed)
        PROVE  /\ BytesOf(n)' = BytesOf(n)
               /\ \A k \in DOMAIN BytesOf(n) : StreamByte(start[n] + k)' = BytesOf(n)[k]
    <3>1. /\ n \in 1 .. Len(typed) /\ n + 1 \in Len(inputs) + 1 .. Len(typed) + 1
          /\ Len(typed) + 1 \in Len(inputs) + 1 .. Len(typed) + 1 /\ n + 1 <= Len(typed) + 1
      BY StreamType
    <3>2. BytesOf(n) \in Seq(ByteSet) /\ Len(BytesOf(n)) \in 1 .. 3
      BY <3>1, TypedFacts
    <3>3. start[n] \in Nat /\ start[n + 1] = start[n] + Len(BytesOf(n)) /\ start[n + 1] <= StreamLength
      <4>1. start[n] \in Nat
        BY <3>1
      <4>2. start[n + 1] = start[n] + Len(BytesOf(n))
        BY <1>1 DEF Spells
      <4>3. start[n + 1] <= start[Len(typed) + 1] /\ start[Len(typed) + 1] = StreamLength
        BY <3>1, <1>1 DEF Spells
      <4>4. QED
        BY <4>1, <4>2, <4>3
    <3>4. ASSUME NEW k \in DOMAIN BytesOf(n) PROVE StreamByte(start[n] + k)' = BytesOf(n)[k]
      <4>1. k \in 1 .. Len(BytesOf(n))
        BY <3>2
      <4>2. start[n] + k \in 1 .. StreamLength
        BY <4>1, <3>2, <3>3, StreamType, SMTT(30)
      <4>3. QED
        BY <4>2, <1>1 DEF Spells
    <3>5. QED
      BY <3>4 DEF BytesOf
  <2>2. start[Len(inputs) + 1] = 0 /\ start[Len(typed) + 1] = StreamLength'
    BY <1>1 DEF Spells
  <2>3. QED
    BY <2>1, <2>2, <1>1 DEF Spells
<1>3. Len(inputs)' \in 0 .. Len(typed) /\ \A n \in 1 .. Len(typed) : typed'[n] = typed[n]
  BY StreamType DEF Faithful
<1>4. /\ ShiftDown(Len(inputs))' = ShiftDown(Len(inputs))
      /\ CapsPresses(Len(inputs))' = CapsPresses(Len(inputs))
  BY DEF ShiftDown, CapsPresses
<1>5. \A n \in DOMAIN inputs : Expected(n)' = Expected(n)
  BY DEF Expected
<1>6. QED
  BY <1>1, <1>2, <1>3, <1>4, <1>5 DEF Faithful

(* A key adds its bytes behind the others. *)
LEMMA FaithfulAfterType ==
  ASSUME KeyboardType, KeyboardType', Faithful,
         NEW key \in Keys, NEW released \in BOOLEAN, Type(key, released)
  PROVE  Faithful'
<1> SUFFICES ASSUME ~raced' PROVE Faithful'
  BY DEF Faithful
<1>1. ~raced /\ UNCHANGED <<buffer, bufferLength, reader, read, inputs, shiftPressed, capsLockPressed>>
  BY DEF Type, bufferVars, inputVars, historyVars
<1>2. PICK start \in [1 .. Len(typed) + 1 -> Nat] : Spells(start)
  BY <1>1 DEF Faithful
<1> DEFINE bytes == Bytes(key, released)
           event == [key |-> key, released |-> released]
           last == Len(typed) + 1
<1>3. bytes \in Seq(ByteSet) /\ Len(bytes) \in 1 .. 3
  BY BytesFacts
<1>4. /\ Len(typed') = last /\ \A n \in 1 .. Len(typed) : typed'[n] = typed[n]
      /\ typed'[last] = event
  BY DEF Type, KeyboardType, Event
<1>5. /\ Len(wire') = Len(wire) + Len(bytes)
      /\ \A p \in 1 .. Len(wire) : wire'[p] = wire[p]
      /\ \A k \in 1 .. Len(bytes) : wire'[Len(wire) + k] = bytes[k]
  <2>1. wire' = wire \o bytes /\ wire \in Seq(ByteSet)
    BY DEF Type, KeyboardType
  <2> HIDE DEF bytes
  <2>2. QED
    BY <2>1, <1>3, ConcatProperties
<1>6. Queued' = Queued /\ StreamLength' = StreamLength + Len(bytes)
  BY <1>1, <1>3, <1>5, StreamType DEF Queued, StreamLength
<1>7. \A p \in 1 .. StreamLength : StreamByte(p)' = StreamByte(p)
  <2> SUFFICES ASSUME NEW p \in 1 .. StreamLength PROVE StreamByte(p)' = StreamByte(p)
    OBVIOUS
  <2>1. CASE p <= Len(read) + Queued
    BY <2>1, <1>1, <1>6 DEF StreamByte
  <2>2. CASE p > Len(read) + Queued
    <3>1. p - (Len(read) + Queued) \in 1 .. Len(wire)
      BY <2>2, StreamType DEF StreamLength
    <3>2. ~(p <= Len(read)) /\ ~(p <= Len(read) + Queued)
      BY <2>2, StreamType
    <3>3. QED
      BY <3>1, <3>2, <1>1, <1>5, <1>6 DEF StreamByte
  <2>3. QED
    BY <2>1, <2>2, StreamType
<1>8. \A k \in 1 .. Len(bytes), p \in Nat : p = StreamLength + k => StreamByte(p)' = bytes[k]
  <2> SUFFICES ASSUME NEW k \in 1 .. Len(bytes), NEW p \in Nat, p = StreamLength + k
               PROVE  StreamByte(p)' = bytes[k]
    OBVIOUS
  <2>1. StreamByte(p)' = wire'[Len(wire) + k]
    <3>1. /\ ~(p <= Len(read)) /\ ~(p <= Len(read) + Queued)
          /\ p - (Len(read) + Queued) = Len(wire) + k
      BY <1>3, StreamType DEF StreamLength
    <3>2. QED
      BY <3>1, <1>1, <1>6 DEF StreamByte
  <2>2. QED
    BY <2>1, <1>5
<1>9. Len(inputs) \in Nat /\ Len(typed) \in Nat /\ StreamLength \in Nat /\ Len(inputs) <= Len(typed)
  BY <1>1, StreamType DEF Faithful
<1>10. PICK further \in [1 .. last + 1 -> Nat] :
         /\ \A n \in 1 .. last : further[n] = start[n]
         /\ further[last + 1] = StreamLength + Len(bytes)
  <2> DEFINE new == [n \in 1 .. last + 1 |-> IF n <= last THEN start[n] ELSE StreamLength + Len(bytes)]
  <2>1. /\ new \in [1 .. last + 1 -> Nat] /\ new[last + 1] = StreamLength + Len(bytes)
        /\ \A n \in 1 .. last : new[n] = start[n]
    BY <1>3, <1>9
  <2>2. QED
    BY <2>1
<1>11. Spells(further)'
  <2>1. /\ \A n \in 1 .. last : further[n] = start[n]
        /\ further[last + 1] = StreamLength + Len(bytes) /\ start[last] = StreamLength
    BY <1>2, <1>10 DEF Spells
  <2>6. \A m, n \in Len(inputs) + 1 .. last : m <= n => start[m] <= start[n]
    BY <1>2 DEF Spells
  <2> HIDE DEF bytes
  <2>2. further[Len(inputs) + 1] = 0 /\ further[Len(typed') + 1] = StreamLength'
    <3>1. start[Len(inputs) + 1] = 0 /\ Len(inputs) + 1 \in 1 .. last /\ Len(typed') + 1 = last + 1
      BY <1>2, <1>4, <1>9 DEF Spells
    <3>2. QED
      BY <3>1, <2>1, <1>6
  <2>3. \A m, n \in Len(inputs) + 1 .. last + 1 : m <= n => further[m] <= further[n]
    <3> SUFFICES ASSUME NEW m \in Len(inputs) + 1 .. last + 1, NEW n \in Len(inputs) + 1 .. last + 1, m <= n
                 PROVE  further[m] <= further[n]
      OBVIOUS
    <3>1. CASE n <= last
      BY <3>1, <2>1, <1>2, <1>9, SMTT(30) DEF Spells
    <3>2. CASE n = last + 1 /\ m <= last
      <4>1. further[m] = start[m] /\ start[m] <= start[last] /\ start[m] \in Nat
        <5>1. m \in Len(inputs) + 1 .. last /\ last \in Len(inputs) + 1 .. last /\ m \in 1 .. last
          BY <3>2, <1>9
        <5>2. QED
          BY <5>1, <2>1, <2>6
      <4>2. QED
        BY <4>1, <3>2, <2>1, <1>3, <1>9
    <3>3. CASE n = last + 1 /\ m = last + 1
      BY <3>3, <2>1, <1>3, <1>9
    <3>4. QED
      BY <3>1, <3>2, <3>3, <1>9
  <2>4. ASSUME NEW n \in Len(inputs) + 1 .. last
        PROVE  /\ further[n + 1] = further[n] + Len(BytesOf(n)')
               /\ \A k \in DOMAIN BytesOf(n)' : StreamByte(further[n] + k)' = BytesOf(n)'[k]
    <3>1. CASE n = last
      <4>1. BytesOf(n)' = bytes
        BY <3>1, <1>4 DEF BytesOf, bytes
      <4>2. DOMAIN bytes = 1 .. Len(bytes)
        BY <1>3
      <4>3. further[n] = StreamLength /\ further[n + 1] = StreamLength + Len(bytes)
        BY <3>1, <2>1, <1>9
      <4>4. \A k \in DOMAIN bytes : StreamByte(further[n] + k)' = bytes[k]
        BY <4>2, <4>3, <1>3, <1>8, <1>9
      <4>5. QED
        BY <4>1, <4>3, <4>4, <3>1
    <3>2. CASE n \in Len(inputs) + 1 .. Len(typed)
      <4>1. n \in 1 .. Len(typed) /\ n + 1 \in 1 .. last /\ n \in 1 .. last
        BY <3>2, <1>9
      <4>2. BytesOf(n)' = BytesOf(n)
        BY <4>1, <1>4 DEF BytesOf
      <4>3. BytesOf(n) \in Seq(ByteSet) /\ Len(BytesOf(n)) \in 1 .. 3
        BY <4>1, TypedFacts
      <4>4. start[n + 1] = start[n] + Len(BytesOf(n))
        BY <3>2, <1>2 DEF Spells
      <4>5. start[n] \in Nat /\ start[n + 1] <= start[last] /\ start[last] = StreamLength
        <5>1. n + 1 \in Len(inputs) + 1 .. last /\ last \in Len(inputs) + 1 .. last /\ n + 1 <= last
          BY <3>2, <1>9
        <5>2. QED
          BY <5>1, <4>1, <2>1, <2>6
      <4>6. ASSUME NEW k \in DOMAIN BytesOf(n)
            PROVE  StreamByte(start[n] + k)' = BytesOf(n)[k]
        <5>1. start[n] + k \in 1 .. StreamLength
          BY <4>3, <4>4, <4>5, <1>9
        <5>2. StreamByte(start[n] + k) = BytesOf(n)[k]
          BY <3>2, <1>2 DEF Spells
        <5>3. QED
          BY <5>1, <5>2, <1>7
      <4>7. further[n] = start[n] /\ further[n + 1] = start[n + 1]
        BY <4>1, <2>1
      <4>8. QED
        BY <4>2, <4>4, <4>6, <4>7
    <3>3. QED
      BY <3>1, <3>2, <1>9
  <2>5. inputs' = inputs /\ Len(typed') = last
    BY <1>1, <1>4
  <2>7. QED
    BY <2>2, <2>3, <2>4, <2>5 DEF Spells
<1>12. \A n \in 0 .. Len(typed) : /\ ShiftDown(n)' = ShiftDown(n) /\ CapsPresses(n)' = CapsPresses(n)
                                  /\ n > 0 => Expected(n)' = Expected(n)
  BY <1>4, <1>9, ExpectedIsStable
<1>13. /\ Len(inputs) \in 0 .. Len(typed)
       /\ \A n \in DOMAIN inputs : n > 0 /\ n \in 0 .. Len(typed)
  BY <1>9, SMTT(30) DEF KeyboardType
<1>14. Len(inputs) <= Len(typed') /\ \E more \in [1 .. Len(typed') + 1 -> Nat] : Spells(more)'
  BY <1>4, <1>9, <1>10, <1>11
<1>15. \A n \in DOMAIN inputs : inputs[n] = Expected(n)'
  BY <1>1, <1>12, <1>13 DEF Faithful
<1>16. /\ shiftPressed = ShiftDown(Len(inputs))'
       /\ capsLockPressed = (Cardinality(CapsPresses(Len(inputs))') % 2 = 1)
  BY <1>1, <1>12, <1>13 DEF Faithful
<1>17. QED
  BY <1>1, <1>14, <1>15, <1>16 DEF Faithful

(* The interrupt takes a byte off the wire and puts it first.              *)
LEMMA FaithfulAfterIRQ ==
  ASSUME KeyboardType, KeyboardType', Faithful, IRQHandler
  PROVE  Faithful'
<1>1. UNCHANGED <<typed, reader, read, shiftPressed, capsLockPressed, inputs>>
  BY DEF IRQHandler, inputVars
<1>2. /\ wire # <<>> /\ wire' = Tail(wire) /\ bufferLength' = bufferLength + 1
      /\ buffer' = Shifted(Head(wire)) /\ bufferLength < MaxBufferLength
      /\ raced' = (raced \/ reader.at # "load")
  BY DEF IRQHandler, LengthAfterIRQ
<1>3. ASSUME ~raced'
      PROVE  /\ StreamLength' = StreamLength
             /\ \A p \in 1 .. StreamLength : StreamByte(p)' = StreamByte(p)
  <2>1. reader.at = "load" /\ reader' = reader
    BY <1>1, <1>2, <1>3
  <2>2. Queued = bufferLength /\ Queued' = bufferLength + 1
    BY <2>1, <1>2 DEF Queued
  <2>3. /\ Len(wire) > 0 /\ Len(wire') = Len(wire) - 1 /\ Head(wire) = wire[1]
        /\ \A p \in 1 .. Len(wire) - 1 : wire'[p] = wire[p + 1]
    BY <1>2 DEF KeyboardType
  <2>4. /\ bufferLength \in Nat /\ buffer'[0] = wire[1]
        /\ \A c \in 1 .. bufferLength : buffer'[c] = buffer[c - 1]
    <3>1. /\ bufferLength \in Nat /\ 0 \in Cell /\ \A c \in 1 .. bufferLength : c \in Cell
      BY <1>2, LengthIsBounded DEF KeyboardType, Cell
    <3>2. buffer'[0] = wire[1]
      BY <3>1, <1>2, <2>3 DEF Shifted
    <3>3. ASSUME NEW c \in 1 .. bufferLength PROVE buffer'[c] = buffer[c - 1]
      BY <3>1, <1>2 DEF Shifted
    <3>4. QED
      BY <3>1, <3>2, <3>3
  <2>5. StreamLength' = StreamLength
    BY <1>1, <2>2, <2>3, <2>4, StreamType DEF StreamLength
  <2>6. ASSUME NEW p \in 1 .. StreamLength PROVE StreamByte(p)' = StreamByte(p)
    <3>1. CASE p <= Len(read)
      BY <3>1, <1>1 DEF StreamByte
    <3>2. CASE p > Len(read) /\ p <= Len(read) + Queued
      <4>1. /\ bufferLength + 1 - (p - Len(read)) \in 1 .. bufferLength
            /\ bufferLength + 1 - (p - Len(read)) - 1 = bufferLength - (p - Len(read))
            /\ p <= Len(read) + Queued'
        BY <3>2, <2>2, <2>4, StreamType
      <4>2. StreamByte(p) = buffer[bufferLength - (p - Len(read))]
        BY <3>2, <2>2, StreamType DEF StreamByte
      <4>3. StreamByte(p)' = buffer'[bufferLength + 1 - (p - Len(read))]
        BY <3>2, <4>1, <1>1, <2>2, StreamType, SMTT(30) DEF StreamByte
      <4>4. QED
        BY <4>1, <4>2, <4>3, <2>4
    <3>3. CASE p = Len(read) + Queued + 1
      <4>1. StreamByte(p) = wire[1]
        <5>1. ~(p <= Len(read)) /\ ~(p <= Len(read) + Queued) /\ p - (Len(read) + Queued) = 1
          BY <3>3, StreamType
        <5>2. QED
          BY <5>1 DEF StreamByte
      <4>2. StreamByte(p)' = buffer'[0]
        <5>1. ~(p <= Len(read)) /\ p <= Len(read) + Queued' /\ Queued' - (p - Len(read)) = 0
          BY <3>3, <2>2, <2>4, StreamType
        <5>2. QED
          BY <5>1, <1>1 DEF StreamByte
      <4>3. QED
        BY <4>1, <4>2, <2>4
    <3>4. CASE p > Len(read) + Queued + 1
      <4>1. /\ ~(p <= Len(read)) /\ ~(p <= Len(read) + Queued) /\ ~(p <= Len(read) + Queued')
            /\ p - (Len(read) + Queued') \in 1 .. Len(wire) - 1
            /\ p - (Len(read) + Queued') + 1 = p - (Len(read) + Queued)
        BY <3>4, <2>2, <2>3, <2>4, StreamType DEF StreamLength
      <4>2. QED
        BY <4>1, <1>1, <2>3 DEF StreamByte
    <3>5. QED
      BY <3>1, <3>2, <3>3, <3>4, StreamType
  <2>7. QED
    BY <2>5, <2>6
<1>4. QED
  BY <1>1, <1>2, <1>3, StreamMoves DEF KeyboardType

(* The steps of a read before its last move nothing.                       *)
LEMMA FaithfulBeforeFetch ==
  ASSUME KeyboardType, KeyboardType', Count, Calm, Faithful, LoadLength \/ StoreLength \/ ReloadLength
  PROVE  Faithful'
<1>1. UNCHANGED <<typed, wire, buffer, read, shiftPressed, capsLockPressed, inputs, raced>>
  BY DEF LoadLength, StoreLength, ReloadLength, keyboardVars, bufferVars, inputVars, historyVars
<1>2. ASSUME ~raced PROVE Queued' = Queued
  <2>1. CASE LoadLength
    BY <2>1 DEF LoadLength, Queued, bufferVars
  <2>2. CASE StoreLength
    <3>1. reader.at = "store" /\ reader.value = bufferLength /\ bufferLength \in Nat
      BY <1>2, <2>2 DEF StoreLength, Calm, KeyboardType
    <3>2. reader'.at = "reload" /\ bufferLength' = bufferLength - 1
      BY <2>2, <3>1 DEF StoreLength
    <3>3. QED
      BY <3>1, <3>2 DEF Queued
  <2>3. CASE ReloadLength
    BY <2>3 DEF ReloadLength, Queued, bufferVars
  <2>4. QED
    BY <2>1, <2>2, <2>3
<1>3. ASSUME ~raced
      PROVE  StreamLength' = StreamLength /\ \A p \in 1 .. StreamLength : StreamByte(p)' = StreamByte(p)
  BY <1>1, <1>2, <1>3 DEF StreamLength, StreamByte
<1>4. QED
  BY <1>1, <1>3, StreamMoves

LEMMA FaithfulStutters ==
  ASSUME KeyboardType, KeyboardType', Faithful, IRQHandlerOverflow \/ UNCHANGED vars
  PROVE  Faithful'
<1>1. UNCHANGED <<typed, wire, buffer, bufferLength, reader, read, shiftPressed, capsLockPressed, inputs, raced>>
  BY DEF IRQHandlerOverflow, vars, keyboardVars, bufferVars, inputVars, historyVars
<1>2. StreamLength' = StreamLength /\ \A p \in 1 .. StreamLength : StreamByte(p)' = StreamByte(p)
  BY <1>1 DEF StreamLength, StreamByte, Queued
<1>3. QED
  BY <1>1, <1>2, StreamMoves

-----------------------------------------------------------------------------
(* GetInput knows the end of an event, and which event it was. *)
LEMMA BytesAreRead ==
  ASSUME NEW key \in Keys, NEW released \in BOOLEAN,
         NEW bytes \in Seq(ByteSet), Len(bytes) \in 1 .. 3,
         Len(bytes) > 1 => bytes[1] \in {Extended, Released},
         Len(bytes) > 2 => bytes[2] = Released,
         \A p \in 1 .. Len(bytes) :
           p <= Len(Bytes(key, released)) => bytes[p] = Bytes(key, released)[p]
  PROVE  /\ Len(bytes) <= Len(Bytes(key, released))
         /\ Complete(bytes) <=> Len(bytes) = Len(Bytes(key, released))
         /\ Complete(bytes) => ScanCodeOf(bytes) = key /\ IsRelease(bytes) = released
<1> DEFINE sent == Bytes(key, released)
<1>1. /\ Len(bytes) > 1 => bytes[1] \in {Extended, Released}
      /\ Len(bytes) > 2 => bytes[2] = Released
      /\ Len(bytes) \in 1 .. 3
  OBVIOUS
<1>2. /\ key.extended \in BOOLEAN /\ key.code \notin {Extended, Released} /\ Extended # Released
      /\ key = [extended |-> key.extended, code |-> key.code]
  BY PrefixesDiffer, KeyboardAssumption
<1>4. sent = IF key.extended
               THEN IF released THEN <<Extended, Released, key.code>> ELSE <<Extended, key.code>>
               ELSE IF released THEN <<Released, key.code>> ELSE <<key.code>>
  BY BytesFacts
<1>5. \A p \in 1 .. Len(bytes) : p <= Len(sent) => bytes[p] = sent[p]
  OBVIOUS
<1> HIDE DEF sent
<1>6. Len(bytes) <= Len(sent) /\ (Complete(bytes) <=> Len(bytes) = Len(sent))
  <2>1. CASE key.extended /\ released
    BY <2>1, <1>1, <1>2, <1>4, <1>5 DEF Complete
  <2>2. CASE key.extended /\ ~released
    BY <2>2, <1>1, <1>2, <1>4, <1>5 DEF Complete
  <2>3. CASE ~key.extended /\ released
    BY <2>3, <1>1, <1>2, <1>4, <1>5 DEF Complete
  <2>4. CASE ~key.extended /\ ~released
    BY <2>4, <1>1, <1>2, <1>4, <1>5 DEF Complete
  <2>5. QED
    BY <2>1, <2>2, <2>3, <2>4, <1>2
<1>7. ASSUME Complete(bytes) PROVE ScanCodeOf(bytes) = key /\ IsRelease(bytes) = released
  <2>1. Len(bytes) = Len(sent) /\ Len(sent) \in 1 .. 3 /\ \A p \in 1 .. Len(sent) : bytes[p] = sent[p]
    BY <1>5, <1>6, <1>7, <1>1
  <2>2. bytes[Len(bytes)] = key.code
    BY <2>1, <1>4
  <2>3. (bytes[1] = Extended) = key.extended
    BY <2>1, <1>2, <1>4, SMTT(30)
  <2>4. ScanCodeOf(bytes) = key
    BY <2>2, <2>3, <1>2 DEF ScanCodeOf, Last
  <2>5. IsRelease(bytes) <=> released
    BY <2>1, <1>2, <1>4 DEF IsRelease
  <2>6. QED
    BY <2>4, <2>5 DEF IsRelease
<1>8. QED
  BY <1>6, <1>7 DEF sent

(* One event more: which shift key went down last, how often Caps Lock did. *)
LEMMA ModifiersAdvance ==
  ASSUME KeyboardType, NEW m \in 1 .. Len(typed)
  PROVE  /\ ShiftDown(m) = (IF IsShift(typed[m].key) THEN ~typed[m].released ELSE ShiftDown(m - 1))
         /\ (Cardinality(CapsPresses(m)) % 2 = 1) =
              (IF IsCapsLock(typed[m].key) /\ ~typed[m].released
                 THEN ~(Cardinality(CapsPresses(m - 1)) % 2 = 1)
                 ELSE Cardinality(CapsPresses(m - 1)) % 2 = 1)
<1>1. m \in Nat /\ m > 0
  BY StreamType
<1>2. ShiftDown(m) = (IF IsShift(typed[m].key) THEN ~typed[m].released ELSE ShiftDown(m - 1))
  <2>1. CASE IsShift(typed[m].key)
    <3>1. ASSUME ~typed[m].released PROVE ShiftDown(m)
      <4>1. m \in 1 .. m /\ m + 1 .. m = {}
        BY <1>1
      <4>2. QED
        BY <4>1, <3>1, <2>1 DEF ShiftDown
    <3>2. ASSUME typed[m].released, ShiftDown(m) PROVE FALSE
      <4>1. PICK n \in 1 .. m : /\ IsShift(typed[n].key) /\ ~typed[n].released
                                /\ \A l \in n + 1 .. m : ~IsShift(typed[l].key)
        BY <3>2 DEF ShiftDown
      <4>2. n # m
        BY <4>1, <3>2
      <4>3. m \in n + 1 .. m
        BY <4>2, <1>1
      <4>4. QED
        BY <4>1, <4>3, <2>1
    <3>3. typed[m].released \in BOOLEAN
      BY TypedFacts
    <3>4. QED
      BY <3>1, <3>2, <3>3, <2>1 DEF ShiftDown
  <2>2. CASE ~IsShift(typed[m].key)
    <3>1. ASSUME ShiftDown(m) PROVE ShiftDown(m - 1)
      <4>1. PICK n \in 1 .. m : /\ IsShift(typed[n].key) /\ ~typed[n].released
                                /\ \A l \in n + 1 .. m : ~IsShift(typed[l].key)
        BY <3>1 DEF ShiftDown
      <4>2. n # m
        BY <4>1, <2>2
      <4>3. n \in 1 .. m - 1 /\ \A l \in n + 1 .. m - 1 : l \in n + 1 .. m
        BY <4>2, <1>1
      <4>4. QED
        BY <4>1, <4>3 DEF ShiftDown
    <3>2. ASSUME ShiftDown(m - 1) PROVE ShiftDown(m)
      <4>1. PICK n \in 1 .. m - 1 : /\ IsShift(typed[n].key) /\ ~typed[n].released
                                    /\ \A l \in n + 1 .. m - 1 : ~IsShift(typed[l].key)
        BY <3>2 DEF ShiftDown
      <4>2. n \in 1 .. m /\ \A l \in n + 1 .. m : l = m \/ l \in n + 1 .. m - 1
        BY <1>1
      <4>3. QED
        BY <4>1, <4>2, <2>2 DEF ShiftDown
    <3>3. QED
      BY <3>1, <3>2, <2>2 DEF ShiftDown
  <2>3. QED
    BY <2>1, <2>2
<1>3. /\ IsFiniteSet(CapsPresses(m - 1)) /\ Cardinality(CapsPresses(m - 1)) \in Nat
      /\ m \notin CapsPresses(m - 1)
  <2>1. IsFiniteSet(1 .. m - 1) /\ CapsPresses(m - 1) \subseteq 1 .. m - 1
    BY <1>1, FS_Interval DEF CapsPresses
  <2>2. IsFiniteSet(CapsPresses(m - 1))
    BY <2>1, FS_Subset
  <2>3. m \notin 1 .. m - 1
    BY <1>1
  <2>4. QED
    BY <2>1, <2>2, <2>3, FS_CardinalityType
<1>4. CASE IsCapsLock(typed[m].key) /\ ~typed[m].released
  <2>1. CapsPresses(m) = CapsPresses(m - 1) \cup {m}
    BY <1>1, <1>4 DEF CapsPresses
  <2>2. Cardinality(CapsPresses(m)) = Cardinality(CapsPresses(m - 1)) + 1
    BY <2>1, <1>3, FS_AddElement
  <2>3. QED
    BY <2>2, <1>2, <1>3, <1>4
<1>5. CASE ~(IsCapsLock(typed[m].key) /\ ~typed[m].released)
  <2>1. CapsPresses(m) = CapsPresses(m - 1)
    BY <1>1, <1>5 DEF CapsPresses
  <2>2. QED
    BY <2>1, <1>2, <1>5
<1>6. QED
  BY <1>4, <1>5

\* What is shifted by the bytes of the first key: the k-th of b bytes that end
\* within the stream is still in the stream, l bytes nearer to its front.
LEMMA BehindTheFirst ==
  ASSUME NEW s \in Nat, NEW r \in Nat, NEW b \in Nat, NEW l \in Nat, NEW total \in Nat, NEW k \in 1 .. b,
         r = s - l, s + b <= total
  PROVE  /\ r + k \in 1 .. total - l /\ s + k = r + k + l
         /\ s + k \in Nat /\ r + k \in Nat
OBVIOUS

LEMMA FaithfulAfterFetch ==
  ASSUME KeyboardType, KeyboardType', Calm, Faithful, FetchByte
  PROVE  Faithful'
<1> SUFFICES ASSUME ~raced' PROVE Faithful'
  BY DEF Faithful
<1>1. /\ ~raced /\ reader.at = "fetch" /\ reader'.at = "load"
      /\ UNCHANGED <<typed, wire, buffer, bufferLength>>
  BY DEF FetchByte, keyboardVars, bufferVars, historyVars
<1>2. reader.value = bufferLength /\ bufferLength \in Nat /\ bufferLength < MaxBufferLength
  BY <1>1 DEF Calm, KeyboardType
<1> DEFINE byte == buffer[bufferLength]
           bytes == Append(read, byte)
           m == Len(inputs) + 1
<1>3. bufferLength \in Cell /\ byte \in ByteSet
  BY <1>2, LengthIsBounded DEF Cell, KeyboardType
<1>4. IF Complete(bytes) THEN FinishInput(bytes)
      ELSE read' = bytes /\ UNCHANGED <<shiftPressed, capsLockPressed, inputs>>
  BY <1>2, <1>3 DEF FetchByte, Fetched
<1>5. /\ read \in Seq(ByteSet) /\ Partial(read) /\ Len(bytes) = Len(read) + 1 /\ bytes[Len(read) + 1] = byte
      /\ \A p \in 1 .. Len(read) : bytes[p] = read[p]
  BY <1>3, AppendProperties DEF KeyboardType
<1>6. Queued = bufferLength + 1 /\ Queued' = bufferLength
  BY <1>1 DEF Queued
<1>7. \A p \in 1 .. Len(read) + 1 : StreamByte(p) = bytes[p]
  <2>1. ASSUME NEW p \in 1 .. Len(read) PROVE StreamByte(p) = bytes[p]
    BY <1>5 DEF StreamByte
  <2>2. StreamByte(Len(read) + 1) = byte
    BY <1>2, <1>6, StreamType DEF StreamByte
  <2>3. QED
    BY <2>1, <2>2, <1>5, StreamType
<1>8. PICK start \in [1 .. Len(typed) + 1 -> Nat] : Spells(start)
  BY <1>1 DEF Faithful
<1>9. /\ Len(inputs) \in Nat /\ Len(typed) \in Nat /\ StreamLength \in Nat /\ StreamLength >= Len(read) + 1
      /\ Len(inputs) <= Len(typed)
  BY <1>1, <1>2, <1>6, StreamType DEF StreamLength, Faithful
<1>10. m \in 1 .. Len(typed)
  <2>1. start[Len(inputs) + 1] = 0 /\ start[Len(typed) + 1] = StreamLength
    BY <1>8 DEF Spells
  <2>2. Len(inputs) # Len(typed)
    BY <2>1, <1>9, StreamType
  <2>3. QED
    BY <2>2, <1>9
<1> DEFINE key == typed[m].key
           released == typed[m].released
           sent == BytesOf(m)
<1>11. /\ key \in Keys /\ released \in BOOLEAN /\ sent \in Seq(ByteSet) /\ Len(sent) \in 1 .. 3
       /\ sent = Bytes(key, released)
  BY <1>10, TypedFacts DEF BytesOf
<1>12. /\ start[m] = 0 /\ start[m + 1] = Len(sent)
       /\ \A k \in 1 .. Len(sent) : StreamByte(k) = sent[k]
  <2>1. m \in Len(inputs) + 1 .. Len(typed) /\ DOMAIN sent = 1 .. Len(sent)
    BY <1>9, <1>10, <1>11
  <2>2. start[m] = 0 /\ start[m + 1] = 0 + Len(sent) /\ \A k \in 1 .. Len(sent) : StreamByte(0 + k) = sent[k]
    BY <2>1, <1>8 DEF Spells
  <2>3. ASSUME NEW k \in 1 .. Len(sent) PROVE StreamByte(k) = sent[k]
    <3>1. 0 + k = k
      BY <1>11
    <3>2. QED
      BY <3>1, <2>2
  <2>4. QED
    BY <2>2, <2>3, <1>11
<1>13. /\ Len(read) + 1 <= Len(sent)
       /\ Complete(bytes) <=> Len(read) + 1 = Len(sent)
       /\ Complete(bytes) => ScanCodeOf(bytes) = key /\ IsRelease(bytes) = released
  <2>1. \A p \in 1 .. Len(read) + 1 : p <= Len(sent) => bytes[p] = sent[p]
    BY <1>7, <1>9, <1>11, <1>12, StreamType
  <2>2. \A p \in 1 .. Len(bytes) : p <= Len(Bytes(key, released)) => bytes[p] = Bytes(key, released)[p]
    BY <2>1, <1>5, <1>11
  <2>3. /\ Len(bytes) \in 1 .. 3 /\ bytes \in Seq(ByteSet)
        /\ Len(bytes) > 1 => bytes[1] \in {Extended, Released}
        /\ Len(bytes) > 2 => bytes[2] = Released
    <3>1. Len(read) \in 0 .. 2
      BY <1>5 DEF Partial
    <3>2. bytes \in Seq(ByteSet)
      BY <1>3, <1>5, AppendProperties
    <3> HIDE DEF bytes
    <3>3. QED
      BY <3>1, <3>2, <1>5 DEF Partial
  <2> HIDE DEF key, released, sent, byte, bytes
  <2>4. /\ Len(bytes) <= Len(Bytes(key, released))
        /\ Complete(bytes) <=> Len(bytes) = Len(Bytes(key, released))
        /\ Complete(bytes) => ScanCodeOf(bytes) = key /\ IsRelease(bytes) = released
    BY <2>2, <2>3, <1>11, BytesAreRead
  <2>5. QED
    BY <2>4, <1>5, <1>11
<1>14. CASE ~Complete(bytes)
  <2>1. read' = bytes /\ UNCHANGED <<shiftPressed, capsLockPressed, inputs>>
    BY <1>4, <1>14
  <2>5. Len(read') = Len(read) + 1 /\ Len(wire') = Len(wire)
    BY <2>1, <1>1, <1>5
  <2>2. StreamLength' = StreamLength
    BY <2>5, <1>2, <1>6, StreamType DEF StreamLength
  <2>3. ASSUME NEW p \in 1 .. StreamLength PROVE StreamByte(p)' = StreamByte(p)
    <3>1. CASE p <= Len(read) + 1
      <4>1. StreamByte(p)' = bytes[p]
        BY <3>1, <2>1, <1>5 DEF StreamByte
      <4>2. QED
        BY <4>1, <3>1, <1>7, <1>9
    <3>2. CASE p > Len(read) + 1
      <4>1. /\ ~(p <= Len(read)) /\ ~(p <= Len(read')) /\ Len(read') + Queued' = Len(read) + Queued
            /\ Queued' - (p - Len(read')) = Queued - (p - Len(read))
        BY <3>2, <2>5, <1>2, <1>6, StreamType
      <4>2. QED
        BY <4>1, <1>1 DEF StreamByte
    <3>3. QED
      BY <3>1, <3>2, StreamType
  <2>4. QED
    BY <2>1, <2>2, <2>3, <1>1, StreamMoves
<1>15. CASE Complete(bytes)
  <2> HIDE DEF byte
  <2>1. /\ FinishInput(bytes) /\ Len(sent) = Len(read) + 1
        /\ ScanCodeOf(bytes) = key /\ IsRelease(bytes) = released
    BY <1>4, <1>13, <1>15
  <2>2. /\ read' = <<>>
        /\ shiftPressed' = IF IsShift(key) THEN ~released ELSE shiftPressed
        /\ capsLockPressed' = IF IsCapsLock(key) /\ ~released THEN ~capsLockPressed ELSE capsLockPressed
        /\ inputs' = Append(inputs, [key |-> key, released |-> released,
                                     shift |-> shiftPressed', caps |-> capsLockPressed'])
    BY <2>1 DEF FinishInput
  <2>3. /\ Len(inputs') = m /\ inputs'[m] = [key |-> key, released |-> released,
                                             shift |-> shiftPressed', caps |-> capsLockPressed']
        /\ DOMAIN inputs' = 1 .. m /\ DOMAIN inputs = 1 .. Len(inputs)
        /\ \A n \in 1 .. Len(inputs) : inputs'[n] = inputs[n]
    BY <2>2 DEF KeyboardType
  <2>17. /\ shiftPressed = ShiftDown(m - 1)
         /\ capsLockPressed = (Cardinality(CapsPresses(m - 1)) % 2 = 1)
    <3>1. m - 1 = Len(inputs)
      BY <1>9
    <3>2. QED
      BY <3>1, <1>1 DEF Faithful
  <2>18. Len(wire') = Len(wire) /\ Len(read') = 0
    BY <2>2, <1>1
  <2>4. shiftPressed' = ShiftDown(m)
    BY <2>2, <2>17, <1>10, ModifiersAdvance
  <2>5. capsLockPressed' = (Cardinality(CapsPresses(m)) % 2 = 1)
    BY <2>2, <2>17, <1>10, ModifiersAdvance
  <2>6. \A n \in DOMAIN inputs' : inputs'[n] = Expected(n)
    <3>1. inputs'[m] = Expected(m)
      BY <2>3, <2>4, <2>5 DEF Expected, ShiftDown, CapsPresses
    <3>2. \A n \in 1 .. Len(inputs) : inputs'[n] = Expected(n)
      BY <2>3, <1>1 DEF Faithful
    <3>3. QED
      BY <3>1, <3>2, <2>3, <1>9
  <2>7. \A n : Expected(n)' = Expected(n) /\ ShiftDown(n)' = ShiftDown(n) /\ CapsPresses(n)' = CapsPresses(n)
    BY <1>1 DEF Expected, ShiftDown, CapsPresses
  <2>8. StreamLength' = StreamLength - Len(sent)
    BY <2>1, <2>18, <1>2, <1>6, StreamType DEF StreamLength
  <2>9. \A p, q \in Nat : p \in 1 .. StreamLength - Len(sent) /\ q = p + Len(sent) => StreamByte(p)' = StreamByte(q)
    <3> SUFFICES ASSUME NEW p \in 1 .. StreamLength - Len(sent), NEW q \in Nat, q = p + Len(sent)
                 PROVE  StreamByte(p)' = StreamByte(q)
      OBVIOUS
    <3>1. /\ ~(q <= Len(read)) /\ ~(p <= Len(read')) /\ (q <= Len(read) + Queued <=> p <= Len(read') + Queued')
          /\ Queued' - (p - Len(read')) = Queued - (q - Len(read))
          /\ p - (Len(read') + Queued') = q - (Len(read) + Queued)
      <4>1. /\ Len(read') = 0 /\ Queued' = bufferLength /\ Queued = bufferLength + 1
            /\ Len(sent) = Len(read) + 1 /\ Len(read) \in Nat /\ bufferLength \in Nat
            /\ p \in Nat /\ p > 0 /\ q = p + Len(read) + 1
        BY <2>1, <2>18, <1>2, <1>6, <1>9, StreamType
      <4>2. QED
        BY <4>1
    <3>2. QED
      BY <3>1, <1>1 DEF StreamByte
  <2>10. \A a, b \in m .. Len(typed) + 1 : a <= b => start[a] <= start[b]
    BY <1>8 DEF Spells
  <2>11. PICK rest \in [1 .. Len(typed) + 1 -> Nat] :
           \A n \in m + 1 .. Len(typed) + 1 : rest[n] = start[n] - Len(sent)
    <3> DEFINE new == [n \in 1 .. Len(typed) + 1 |-> IF n > m THEN start[n] - Len(sent) ELSE 0]
    <3>1. \A n \in m + 1 .. Len(typed) + 1 : start[n] \in Nat /\ start[n] >= Len(sent)
      BY <2>10, <1>9, <1>10, <1>12
    <3>2. \A n \in m + 1 .. Len(typed) + 1 : start[n] - Len(sent) \in Nat
      BY <3>1, <1>11
    <3>3. new \in [1 .. Len(typed) + 1 -> Nat]
      BY <3>2, <1>10
    <3>4. \A n \in m + 1 .. Len(typed) + 1 : new[n] = start[n] - Len(sent)
      BY <1>10
    <3>5. QED
      BY <3>3, <3>4
  <2>12. Spells(rest)'
    <3>1. Len(inputs') + 1 = m + 1 /\ Len(typed') = Len(typed)
      BY <2>3, <1>1
    <3>2. rest[m + 1] = 0 /\ rest[Len(typed) + 1] = StreamLength'
      <4>1. m + 1 \in m + 1 .. Len(typed) + 1 /\ Len(typed) + 1 \in m + 1 .. Len(typed) + 1
        BY <1>10, <1>9
      <4>2. start[Len(typed) + 1] = StreamLength
        BY <1>8 DEF Spells
      <4>3. QED
        BY <4>1, <4>2, <2>8, <2>11, <1>11, <1>12, SMTT(30)
    <3>3. \A a, b \in m + 1 .. Len(typed) + 1 : a <= b => rest[a] <= rest[b]
      BY <2>10, <2>11, <1>10, <1>11
    <3>4. ASSUME NEW n \in m + 1 .. Len(typed)
          PROVE  /\ rest[n + 1] = rest[n] + Len(BytesOf(n)')
                 /\ \A k \in DOMAIN BytesOf(n)' : StreamByte(rest[n] + k)' = BytesOf(n)'[k]
      <4>1. /\ n \in 1 .. Len(typed) /\ n \in m + 1 .. Len(typed) + 1 /\ n + 1 \in m + 1 .. Len(typed) + 1
            /\ n \in Len(inputs) + 1 .. Len(typed) /\ Len(typed) + 1 \in m .. Len(typed) + 1
            /\ n + 1 \in m .. Len(typed) + 1 /\ n + 1 <= Len(typed) + 1
        BY <1>9, <1>10
      <4>2. BytesOf(n)' = BytesOf(n) /\ BytesOf(n) \in Seq(ByteSet) /\ Len(BytesOf(n)) \in 1 .. 3
        BY <4>1, <1>1, TypedFacts DEF BytesOf
      <4>3. start[n + 1] = start[n] + Len(BytesOf(n))
        BY <4>1, <1>8 DEF Spells
      <4>4. start[n + 1] <= start[Len(typed) + 1] /\ start[Len(typed) + 1] = StreamLength
        BY <4>1, <2>10, <1>8 DEF Spells
      <4>5. start[n] \in Nat /\ rest[n] = start[n] - Len(sent) /\ rest[n + 1] = start[n + 1] - Len(sent)
            /\ rest[n] \in Nat
        BY <4>1, <2>11
      <4>6. ASSUME NEW k \in DOMAIN BytesOf(n) PROVE StreamByte(rest[n] + k)' = BytesOf(n)[k]
        <5>1. k \in 1 .. Len(BytesOf(n))
          BY <4>2
        <5>2. /\ rest[n] + k \in 1 .. StreamLength - Len(sent) /\ start[n] + k = rest[n] + k + Len(sent)
              /\ start[n] + k \in Nat /\ rest[n] + k \in Nat
          <6>1. /\ Len(BytesOf(n)) \in Nat /\ Len(sent) \in Nat /\ k \in 1 .. Len(BytesOf(n))
                /\ start[n] + Len(BytesOf(n)) <= StreamLength
            BY <5>1, <4>2, <4>3, <4>4, <1>11
          <6>2. start[n] \in Nat /\ rest[n] \in Nat /\ rest[n] = start[n] - Len(sent) /\ StreamLength \in Nat
            BY <4>5, <1>9
          <6>3. QED
            BY <6>1, <6>2, BehindTheFirst, SMTT(30)
        <5>3. StreamByte(rest[n] + k)' = StreamByte(start[n] + k)
          BY <5>2, <2>9
        <5>4. QED
          BY <5>3, <4>1, <1>8 DEF Spells
      <4>7. rest[n + 1] = rest[n] + Len(BytesOf(n))
        BY <4>2, <4>3, <4>5, <1>11
      <4>8. QED
        BY <4>2, <4>6, <4>7
    <3>5. QED
      BY <3>1, <3>2, <3>3, <3>4 DEF Spells
  <2>13. Len(inputs') <= Len(typed') /\ typed' = typed
    BY <2>3, <1>1, <1>10
  <2>14. \E f \in [1 .. Len(typed') + 1 -> Nat] : Spells(f)'
    BY <2>12, <2>13
  <2>15. shiftPressed' = ShiftDown(Len(inputs))' /\ capsLockPressed' = (Cardinality(CapsPresses(Len(inputs))') % 2 = 1)
    BY <2>3, <2>4, <2>5, <2>13 DEF ShiftDown, CapsPresses
  <2>16. QED
    BY <2>6, <2>7, <2>13, <2>14, <2>15 DEF Faithful
<1>16. QED
  BY <1>14, <1>15

-----------------------------------------------------------------------------
(* The inductive invariant. *)
LEMMA FaithfulInit == Init => Faithful
<1> SUFFICES ASSUME Init PROVE Faithful
  OBVIOUS
<1>1. /\ Len(inputs) = 0 /\ Len(typed) = 0 /\ Len(read) = 0 /\ Len(wire) = 0 /\ Queued = 0
      /\ DOMAIN inputs = {} /\ ~shiftPressed /\ ~capsLockPressed
  BY DEF Init, Queued
<1> DEFINE start == [n \in 1 .. Len(typed) + 1 |-> 0]
<1>2. start \in [1 .. Len(typed) + 1 -> Nat] /\ Spells(start)
  BY <1>1 DEF Spells, StreamLength
<1>3. ~ShiftDown(0)
  BY DEF ShiftDown
<1>4. Cardinality(CapsPresses(0)) = 0
  BY FS_EmptySet DEF CapsPresses
<1>5. capsLockPressed = (Cardinality(CapsPresses(Len(inputs))) % 2 = 1)
  <2>1. ~(Cardinality(CapsPresses(0)) % 2 = 1)
    BY <1>4
  <2>2. capsLockPressed = FALSE /\ Len(inputs) = 0
    BY <1>1, Zenon DEF Init
  <2>3. QED
    BY <2>1, <2>2, Zenon
<1>6. shiftPressed = ShiftDown(Len(inputs))
  BY <1>1, <1>3 DEF Init, ShiftDown
<1>7. QED
  BY <1>1, <1>2, <1>5, <1>6 DEF Faithful

LEMMA FaithfulStep ==
  KeyboardType /\ KeyboardType' /\ Count /\ Calm /\ Faithful /\ [Next]_vars => Faithful'
<1> SUFFICES ASSUME KeyboardType, KeyboardType', Count, Calm, Faithful, [Next]_vars PROVE Faithful'
  OBVIOUS
<1>1. ASSUME NEW key \in Keys, NEW released \in BOOLEAN, Type(key, released) PROVE Faithful'
  BY <1>1, FaithfulAfterType
<1>2. CASE IRQHandler
  BY <1>2, FaithfulAfterIRQ
<1>3. CASE IRQHandlerOverflow \/ UNCHANGED vars
  BY <1>3, FaithfulStutters
<1>4. CASE LoadLength \/ StoreLength \/ ReloadLength
  BY <1>4, FaithfulBeforeFetch
<1>5. CASE FetchByte
  BY <1>5, FaithfulAfterFetch
<1>6. QED
  BY <1>1, <1>2, <1>3, <1>4, <1>5 DEF Next, ReadBufferLastByte

(* Whatever the keyboard is set up to, its queue is used in no other way.  *)
THEOREM KeyboardInvAlways == PS2Spec => []KeyboardInv
<1>1. PS2Init => KeyboardInv
  BY KeyboardTypeInit, CountInit, CalmInit, FaithfulInit DEF PS2Init, KeyboardInv
<1>2. KeyboardInv /\ [PS2Next]_ps2Vars => KeyboardInv'
  <2> SUFFICES ASSUME KeyboardInv, [PS2Next]_ps2Vars PROVE KeyboardInv'
    OBVIOUS
  <2>1. [Next]_vars
    BY DEF PS2Next, Prepare, Operate, ps2Vars
  <2>2. QED
    BY <2>1, KeyboardTypeStep, CountStep, CalmStep, FaithfulStep DEF KeyboardInv
<1>3. QED
  BY <1>1, <1>2, PTL DEF PS2Spec

(* BufferLength_ counts the unread bytes but for those an interrupted      *)
(* decrement has overwritten (ps2-keyboard.cxx:51), for every length of   *)
(* the buffer and any number of keys: it cannot fall below zero.           *)
THEOREM LengthCountsUnreadAlways == PS2Spec => []LengthCountsUnread
<1>1. KeyboardInv => LengthCountsUnread
  BY DEF KeyboardInv, Count, LengthCountsUnread
<1>2. QED
  BY <1>1, KeyboardInvAlways, PTL

(* As long as no interrupt falls inside a read, GetInput gives what was    *)
(* typed, key by key and under the right modifiers, for every keyboard and *)
(* however much is typed.                                                  *)
THEOREM InputsAreTypedAlways == PS2Spec => []InputsAreTyped
<1>1. KeyboardInv => InputsAreTyped
  BY DEF KeyboardInv, Faithful, InputsAreTyped
<1>2. QED
  BY <1>1, KeyboardInvAlways, PTL

-----------------------------------------------------------------------------
(* The set-up.  The driver's writes that get no answer, and those that it  *)
(* waits for an answer to, by the place where it waits.                    *)
Words ==
  {"key", "ACK", "RESEND", "ECHO", "RESET_DONE", "MF2_PREFIX", "MF2", "SET_1", "SET_2", "SET_3",
   "ENABLE_SCANNING", "DISABLE_SCANNING", "RESET", "IDENTIFY", "GET_SET_SCAN_CODE_SET", "GET_CURRENT_SET",
   "anything", "configuration", "LOCK_KEYBOARD", "LOCK_MOUSE", "UNLOCK_KEYBOARD", "UNLOCK_MOUSE",
   "READ_CONFIGURATION", "WRITE_CONFIGURATION", "TEST_CONTROLLER", "TEST_KEYBOARD_PORT", "TEST_MOUSE_PORT",
   "CONTROLLER_TEST_PASSED", "CONTROLLER_TEST_FAILED", "PORT_TEST_PASSED", "PORT_TEST_FAILED", "REBOOT"}
ByteType == [name : Words, flags : SUBSET SetUp!Flags]
WriteType == [port : {"command", "data"}, byte : ByteType]
IsConfiguration(w) == w.port = "data" /\ w.byte.name = "configuration"
Announces(w) == w.port = "command" /\ w.byte.name = "WRITE_CONFIGURATION"

Changes == {"LOCK_KEYBOARD", "LOCK_MOUSE", "UNLOCK_KEYBOARD", "UNLOCK_MOUSE", "WRITE_CONFIGURATION"}
Unanswered(w) == IF w.port = "data" THEN w.byte.name = "configuration" ELSE w.byte.name \in Changes
Questions == {"configure", "test", "mouse", "keyboard port", "mouse port", "reconfigure"}
Question(p) ==
  IF p = "test" THEN "TEST_CONTROLLER"
  ELSE IF p = "keyboard port" THEN "TEST_KEYBOARD_PORT"
  ELSE IF p = "mouse port" THEN "TEST_MOUSE_PORT"
  ELSE "READ_CONFIGURATION"
AnswerTo(p, hw) ==
  IF p = "test" THEN IF hw.controller THEN "CONTROLLER_TEST_PASSED" ELSE "CONTROLLER_TEST_FAILED"
  ELSE IF p \in {"keyboard port", "mouse port"} THEN IF hw.ports THEN "PORT_TEST_PASSED" ELSE "PORT_TEST_FAILED"
  ELSE "configuration"

KeyboardCommands ==
  {"ENABLE_SCANNING", "DISABLE_SCANNING", "RESET", "ECHO", "IDENTIFY", "GET_SET_SCAN_CODE_SET",
   "GET_CURRENT_SET", "SET_1", "SET_2", "SET_3"}

Places == SetUp!Ended \cup Questions \cup
  {"flush", "controller ready", "keyboard flush", "enable", "call", "answer", "reboot flush", "reboot"}

Hardware == [mentioned : BOOLEAN, controller : BOOLEAN, ports : BOOLEAN, dual : BOOLEAN, keyboard : BOOLEAN]
KeyboardState == [scanning : BOOLEAN, set : SetUp!Sets, argument : BOOLEAN, sends : Seq(Words)]
StepType == [does : {"send", "take"}, name : Words]
CallType == [script : Seq(StepType), finally : Seq(StepType), times : 0 .. ResendTimesCount]

SetUpTypes ==
  /\ hardware \in Hardware /\ keyboard \in KeyboardState /\ call \in CallType
  /\ todo \in Seq(WriteType) /\ input \in Seq(WriteType) /\ Len(input) <= 1
  /\ output \in Seq(ByteType) /\ Len(output) <= 1 /\ queue \in Seq(ByteType)
  /\ expects \in {"keyboard", "configuration"}
  /\ config \in SUBSET SetUp!Flags /\ configuration \in SUBSET SetUp!Flags
  /\ handler \in BOOLEAN /\ singleChannel \in BOOLEAN
  /\ available \in SUBSET {"keyboard port", "mouse port"}
  /\ calls \in Nat /\ keys \in Nat /\ refusals \in Nat
  /\ at \in Places

(* The driver's places and what it writes before it waits there; script is *)
(* what the call under way still does.                                     *)
Sent(p, td, script, in) ==
  \/ p \in {"keyboard flush", "no keyboard", "idle", "reboot flush", "call"} /\ td = <<>>
  \/ p \in {"configure", "reconfigure"} /\ td = <<SetUp!Command("READ_CONFIGURATION")>>
  \/ \E flags \in SUBSET SetUp!Flags :
       \/ p \in {"no controller", "call"} /\ td = SetUp!WriteConfiguration(flags)
       \/ p \in {"test", "keyboard port"}
          /\ td = SetUp!WriteConfiguration(flags) \o <<SetUp!Command(Question(p))>>
       \/ p = "mouse" /\ td = SetUp!WriteConfiguration(flags)
                              \o <<SetUp!Command("UNLOCK_MOUSE"), SetUp!Command("READ_CONFIGURATION")>>
  \/ p = "keyboard port" /\ td = <<SetUp!Command("LOCK_MOUSE")>> \o SetUp!TestKeyboardPort
  \/ p = "keyboard port" /\ td = <<>> \o SetUp!TestKeyboardPort
  \/ p = "mouse port" /\ td = <<SetUp!Command("TEST_MOUSE_PORT")>>
  \/ p = "controller ready" /\ td = SetUp!UnlockInput
  \/ p = "enable" /\ td = <<SetUp!Data(SetUp!Byte("ENABLE_SCANNING"))>>
  \/ p = "answer" /\ script # <<>> /\ td = <<SetUp!Data(SetUp!Byte(Head(script).name))>>
  \/ p = "reboot" /\ in = <<>> /\ td = <<SetUp!Command("REBOOT")>>

(* The calls there are, and what remains of one. *)
Scripts == {SetUp!Reset, SetUp!Echo, SetUp!GetScanCodeSet, SetUp!GetType,
            SetUp!SetScanCodeSet(1), SetUp!SetScanCodeSet(2), SetUp!SetScanCodeSet(3),
            SetUp!Reset \o SetUp!SetScanCodeSet(2), <<SetUp!Send("ENABLE_SCANNING")>>}
Remains == {<<>>} \cup Scripts \cup
  {<<SetUp!Expect("RESET_DONE")>>,
   <<SetUp!Expect("RESET_DONE"), SetUp!Send("GET_SET_SCAN_CODE_SET"), SetUp!Send("SET_2")>>,
   <<SetUp!Expect("ECHO")>>, <<SetUp!Send("GET_CURRENT_SET"), SetUp!Anything>>, <<SetUp!Anything>>,
   <<SetUp!Send("IDENTIFY"), SetUp!Expect("MF2_PREFIX"), SetUp!Anything>>,
   <<SetUp!Expect("MF2_PREFIX"), SetUp!Anything>>,
   <<SetUp!Send("SET_1")>>, <<SetUp!Send("SET_2")>>, <<SetUp!Send("SET_3")>>}
Sends(script) == script # <<>> /\ Head(script).does = "send"
Takes(script) == script # <<>> /\ Head(script).does = "take"

(* The bytes that a call takes next, and those that follow an              *)
(* acknowledgement.                                                        *)
Due(script) ==
  IF ~Takes(script) THEN <<>>
  ELSE IF ~Takes(Tail(script)) THEN <<Head(script).name>>
  ELSE <<Head(script).name, Head(Tail(script)).name>>
Behind(name) ==
  IF name = "RESET" THEN <<"RESET_DONE">>
  ELSE IF name = "IDENTIFY" THEN <<"MF2_PREFIX", "anything">>
  ELSE IF name = "GET_CURRENT_SET" THEN <<"anything">>
  ELSE <<>>
Arguments == {"SET_1", "SET_2", "SET_3", "GET_CURRENT_SET"}

(* Between calls the driver has nothing left to write; it waits for an     *)
(* answer to what a call has sent, and what a call does finally is known.  *)
InCall == {"call", "answer"}
AtRest ==
  /\ at \in {"keyboard flush", "idle", "no keyboard", "reboot flush"} => todo = <<>>
  /\ at = "answer" => call.script # <<>> /\ Head(call.script).does = "send"
  /\ at \notin InCall => call.script = <<>> /\ call.finally = <<>>
  /\ call.finally \in {<<>>, <<SetUp!Send("ENABLE_SCANNING")>>}

GoesOn ==
  /\ todo = <<>> /\ UNCHANGED <<hardware, input, expects, config, keyboard, keys, refusals, lost>>
  /\ (at' = at /\ todo' = todo) \/ Sent(at', todo', call'.script, input)

(* Bytes, writes and steps are what they should be. *)
LEMMA ByteTypes ==
  ASSUME NEW name \in Words
  PROVE  /\ SetUp!Byte(name) \in ByteType /\ SetUp!Command(name) \in WriteType
         /\ SetUp!Data(SetUp!Byte(name)) \in WriteType
<1> DEFINE f == SetUp!Flags \ {"KEYBOARD_IRQ"}
<1>1. f \in SUBSET SetUp!Flags
  OBVIOUS
<1>2. SetUp!Byte(name) = [name |-> name, flags |-> f]
  BY DEF SetUp!Byte
<1> HIDE DEF f
<1>3. SetUp!Byte(name) \in ByteType
  BY <1>1, <1>2 DEF ByteType
<1>4. QED
  BY <1>3 DEF SetUp!Command, SetUp!Data, WriteType

(* A configuration byte is a byte, and can be written. *)
LEMMA ConfigTypes ==
  ASSUME NEW flags \in SUBSET SetUp!Flags
  PROVE  SetUp!ConfigByte(flags) \in ByteType /\ SetUp!Data(SetUp!ConfigByte(flags)) \in WriteType
<1>1. SetUp!ConfigByte(flags) = [name |-> "configuration", flags |-> flags] /\ "configuration" \in Words
  BY DEF SetUp!ConfigByte, Words
<1> DEFINE S == SUBSET SetUp!Flags
<1>2. flags \in S /\ ByteType = [name : Words, flags : S]
  BY DEF ByteType
<1> HIDE DEF S
<1>3. SetUp!ConfigByte(flags) \in ByteType
  BY <1>1, <1>2
<1>4. QED
  BY <1>3 DEF SetUp!Data, WriteType

(* What is written at a time, spelled out. *)
LEMMA WritesSpelled ==
  ASSUME NEW flags \in SUBSET SetUp!Flags, NEW v \in WriteType, NEW w \in WriteType
  PROVE  /\ SetUp!WriteConfiguration(flags) =
              <<SetUp!Command("WRITE_CONFIGURATION"), SetUp!Data(SetUp!ConfigByte(flags))>>
         /\ SetUp!WriteConfiguration(flags) \o <<w>> =
              <<SetUp!Command("WRITE_CONFIGURATION"), SetUp!Data(SetUp!ConfigByte(flags)), w>>
         /\ SetUp!WriteConfiguration(flags) \o <<v, w>> =
              <<SetUp!Command("WRITE_CONFIGURATION"), SetUp!Data(SetUp!ConfigByte(flags)), v, w>>
         /\ <<v>> \o <<w>> = <<v, w>> /\ <<>> \o <<w>> = <<w>>
<1> DEFINE c == SetUp!Command("WRITE_CONFIGURATION")
           d == SetUp!Data(SetUp!ConfigByte(flags))
<1>1. c \in WriteType /\ d \in WriteType
  <2>1. "WRITE_CONFIGURATION" \in Words
    BY DEF Words
  <2>2. c \in WriteType
    BY <2>1, ByteTypes, Zenon
  <2>3. d \in WriteType
    BY ConfigTypes, Zenon
  <2>4. QED
    BY <2>2, <2>3
<1>2. SetUp!WriteConfiguration(flags) = <<c, d>>
  BY DEF SetUp!WriteConfiguration
<1> HIDE DEF c, d
<1>3. /\ <<c, d>> \in Seq(WriteType) /\ <<w>> \in Seq(WriteType) /\ <<v, w>> \in Seq(WriteType)
      /\ <<v>> \in Seq(WriteType) /\ <<>> \in Seq(WriteType)
      /\ <<c, d, w>> \in Seq(WriteType) /\ <<c, d, v, w>> \in Seq(WriteType)
  BY <1>1
<1>4. <<c, d>> \o <<w>> = <<c, d, w>>
  <2>1. /\ <<c, d>> \o <<w>> \in Seq(WriteType) /\ Len(<<c, d>> \o <<w>>) = 3
        /\ \A n \in 1 .. 3 : (<<c, d>> \o <<w>>)[n] = <<c, d, w>>[n]
    BY <1>3
  <2>2. QED
    BY <2>1, <1>3, SeqEqual
<1>5. <<c, d>> \o <<v, w>> = <<c, d, v, w>>
  <2>1. /\ <<c, d>> \o <<v, w>> \in Seq(WriteType) /\ Len(<<c, d>> \o <<v, w>>) = 4
        /\ \A n \in 1 .. 4 : (<<c, d>> \o <<v, w>>)[n] = <<c, d, v, w>>[n]
    BY <1>3
  <2>2. QED
    BY <2>1, <1>3, SeqEqual
<1>6. <<v>> \o <<w>> = <<v, w>>
  BY SmallConcat
<1>7. <<>> \o <<w>> = <<w>>
  BY <1>3, ConcatEmptySeq
<1>8. QED
  BY <1>2, <1>4, <1>5, <1>6, <1>7, Zenon DEF c, d

(* Every name that is written. *)
LEMMA WordsKnown ==
  /\ \A p \in Places : Question(p) \in Words
  /\ \A name \in {"LOCK_KEYBOARD", "LOCK_MOUSE", "UNLOCK_KEYBOARD", "UNLOCK_MOUSE", "READ_CONFIGURATION",
                  "TEST_KEYBOARD_PORT", "TEST_MOUSE_PORT", "ENABLE_SCANNING", "REBOOT"} : name \in Words
BY DEF Words, Question

(* What is sent at a time is a sequence of writes. *)
LEMMA SentTypes ==
  ASSUME NEW p \in Places, NEW td, NEW script \in Seq(StepType), NEW in, Sent(p, td, script, in)
  PROVE  td \in Seq(WriteType)
<1> USE WordsKnown
<1>1. ASSUME NEW name \in Words
      PROVE  <<SetUp!Command(name)>> \in Seq(WriteType) /\ <<SetUp!Data(SetUp!Byte(name))>> \in Seq(WriteType)
  BY ByteTypes
<1>2. ASSUME NEW flags \in SUBSET SetUp!Flags
      PROVE  /\ SetUp!WriteConfiguration(flags) \in Seq(WriteType)
             /\ SetUp!WriteConfiguration(flags) \o <<SetUp!Command(Question(p))>> \in Seq(WriteType)
             /\ SetUp!WriteConfiguration(flags) \o <<SetUp!Command("UNLOCK_MOUSE"), SetUp!Command("READ_CONFIGURATION")>>
                  \in Seq(WriteType)
  <2>1. "WRITE_CONFIGURATION" \in Words
    BY DEF Words
  <2>2. /\ SetUp!Command("WRITE_CONFIGURATION") \in WriteType
        /\ SetUp!Data(SetUp!ConfigByte(flags)) \in WriteType
    BY <2>1, ByteTypes, ConfigTypes
  <2>3. SetUp!WriteConfiguration(flags) \in Seq(WriteType)
    BY <2>2 DEF SetUp!WriteConfiguration
  <2>4. /\ <<SetUp!Command(Question(p))>> \in Seq(WriteType)
        /\ <<SetUp!Command("UNLOCK_MOUSE"), SetUp!Command("READ_CONFIGURATION")>> \in Seq(WriteType)
    BY ByteTypes
  <2>5. QED
    BY <2>3, <2>4, ConcatProperties
<1>3. /\ <<>> \in Seq(WriteType) /\ SetUp!TestKeyboardPort \in Seq(WriteType)
      /\ <<>> \o SetUp!TestKeyboardPort \in Seq(WriteType)
      /\ <<SetUp!Command("LOCK_MOUSE")>> \o SetUp!TestKeyboardPort \in Seq(WriteType)
  <2>1. <<>> \in Seq(WriteType)
    OBVIOUS
  <2>2. SetUp!TestKeyboardPort \in Seq(WriteType)
    BY <1>1 DEF SetUp!TestKeyboardPort
  <2>3. <<SetUp!Command("LOCK_MOUSE")>> \in Seq(WriteType)
    BY <1>1
  <2>4. QED
    BY <2>1, <2>2, <2>3, ConcatProperties
<1>4. SetUp!UnlockInput \in Seq(WriteType)
  BY ByteTypes DEF SetUp!UnlockInput
<1>5. script # <<>> => Head(script).name \in Words
  <2>1. script # <<>> => Head(script) \in StepType
    BY HeadTailProperties
  <2>2. QED
    BY <2>1 DEF StepType
<1>6. QED
  BY <1>1, <1>2, <1>3, <1>4, <1>5, Zenon DEF Sent

(* The set-up begins with what is typed. *)
LEMMA SetUpTypesInit == SetUp!Init => SetUpTypes
<1> SUFFICES ASSUME SetUp!Init PROVE SetUpTypes
  OBVIOUS
<1>1. hardware \in Hardware
  BY DEF SetUp!Init, Hardware
<1>2. keyboard \in KeyboardState
  BY DEF SetUp!Init, KeyboardState, SetUp!Sets, SetUp!ScanCodeSet
<1>3. call \in CallType
  BY PS2Assumption DEF SetUp!Init, CallType, SetUp!NoCall, SetUp!PS2SetupAssumption
<1>4. todo \in Seq(WriteType) /\ at \in Places
  <2>1. SetUp!LockInput \in Seq(WriteType)
    BY WordsKnown, ByteTypes DEF SetUp!LockInput
  <2>2. <<>> \in Seq(WriteType)
    OBVIOUS
  <2>3. SetUp!Start
    BY DEF SetUp!Init
  <2>4. CASE hardware.mentioned
    BY <2>1, <2>3, <2>4 DEF SetUp!Start, Places
  <2>5. CASE ~hardware.mentioned
    BY <2>2, <2>3, <2>5 DEF SetUp!Start, Places, SetUp!Ended
  <2>6. QED
    BY <2>4, <2>5
<1>5. QED
  <2>1. /\ input \in Seq(WriteType) /\ Len(input) <= 1
        /\ output \in Seq(ByteType) /\ Len(output) <= 1 /\ queue \in Seq(ByteType)
    BY DEF SetUp!Init
  <2>2. config \in SUBSET SetUp!Flags /\ configuration \in SUBSET SetUp!Flags
    BY DEF SetUp!Init, SetUp!Flags
  <2>3. /\ expects \in {"keyboard", "configuration"} /\ handler \in BOOLEAN /\ singleChannel \in BOOLEAN
        /\ available \in SUBSET {"keyboard port", "mouse port"}
        /\ calls \in Nat /\ keys \in Nat /\ refusals \in Nat
    BY DEF SetUp!Init
  <2>4. QED
    BY <1>1, <1>2, <1>3, <1>4, <2>1, <2>2, <2>3 DEF SetUpTypes

(* A step of the driver, of a caller or of a reader of the buffer. *)
DriverStep ==
  SetUp!Polls \/ SetUp!EndFlush \/ SetUp!BeginKeyboard \/ SetUp!CallStep \/ SetUp!TakeByte
    \/ SetUp!Call \/ SetUp!Reboot \/ SetUp!GetInput

(* The calls, spelled out. *)
LEMMA ScriptsSpelled ==
  /\ SetUp!Reset = <<SetUp!Send("RESET"), SetUp!Expect("RESET_DONE")>>
  /\ SetUp!Echo = <<SetUp!Send("ECHO"), SetUp!Expect("ECHO")>>
  /\ SetUp!GetScanCodeSet =
       <<SetUp!Send("GET_SET_SCAN_CODE_SET"), SetUp!Send("GET_CURRENT_SET"), SetUp!Expect("anything")>>
  /\ SetUp!GetType =
       <<SetUp!Send("DISABLE_SCANNING"), SetUp!Send("IDENTIFY"), SetUp!Expect("MF2_PREFIX"), SetUp!Expect("anything")>>
  /\ SetUp!SetScanCodeSet(1) = <<SetUp!Send("GET_SET_SCAN_CODE_SET"), SetUp!Send("SET_1")>>
  /\ SetUp!SetScanCodeSet(2) = <<SetUp!Send("GET_SET_SCAN_CODE_SET"), SetUp!Send("SET_2")>>
  /\ SetUp!SetScanCodeSet(3) = <<SetUp!Send("GET_SET_SCAN_CODE_SET"), SetUp!Send("SET_3")>>
  /\ SetUp!Reset \o SetUp!SetScanCodeSet(2) =
       <<SetUp!Send("RESET"), SetUp!Expect("RESET_DONE"), SetUp!Send("GET_SET_SCAN_CODE_SET"), SetUp!Send("SET_2")>>
<1>1. /\ SetUp!Reset = <<SetUp!Send("RESET"), SetUp!Expect("RESET_DONE")>>
      /\ SetUp!SetScanCodeSet(1) = <<SetUp!Send("GET_SET_SCAN_CODE_SET"), SetUp!Send("SET_1")>>
      /\ SetUp!SetScanCodeSet(2) = <<SetUp!Send("GET_SET_SCAN_CODE_SET"), SetUp!Send("SET_2")>>
      /\ SetUp!SetScanCodeSet(3) = <<SetUp!Send("GET_SET_SCAN_CODE_SET"), SetUp!Send("SET_3")>>
  BY DEF SetUp!Reset, SetUp!SetScanCodeSet, SetUp!ScanCodeSet
<1>2. SetUp!Reset \o SetUp!SetScanCodeSet(2) =
       <<SetUp!Send("RESET"), SetUp!Expect("RESET_DONE"), SetUp!Send("GET_SET_SCAN_CODE_SET"), SetUp!Send("SET_2")>>
  <2> DEFINE a == SetUp!Send("RESET")  b == SetUp!Expect("RESET_DONE")
             c == SetUp!Send("GET_SET_SCAN_CODE_SET")  d == SetUp!Send("SET_2")
             S == {a, b, c, d}
  <2>1. a \in S /\ b \in S /\ c \in S /\ d \in S
    OBVIOUS
  <2>2. SetUp!Reset = <<a, b>> /\ SetUp!SetScanCodeSet(2) = <<c, d>>
    BY <1>1
  <2> HIDE DEF a, b, c, d, S
  <2>3. <<a, b>> \in Seq(S) /\ <<c, d>> \in Seq(S) /\ <<a, b, c, d>> \in Seq(S)
    BY <2>1
  <2>4. /\ <<a, b>> \o <<c, d>> \in Seq(S) /\ Len(<<a, b>> \o <<c, d>>) = 4
        /\ \A n \in 1 .. 4 : (<<a, b>> \o <<c, d>>)[n] = <<a, b, c, d>>[n]
    BY <2>3
  <2>5. <<a, b>> \o <<c, d>> = <<a, b, c, d>>
    BY <2>3, <2>4, SeqEqual
  <2>6. QED
    BY <2>2, <2>5, Zenon DEF a, b, c, d
<1>3. QED
  BY <1>1, <1>2, Zenon DEF SetUp!Echo, SetUp!GetScanCodeSet, SetUp!GetType, SetUp!Anything

(* The steps of a call are steps. *)
LEMMA StepTypes ==
  ASSUME NEW name \in Words
  PROVE  SetUp!Send(name) \in StepType /\ SetUp!Expect(name) \in StepType
BY DEF SetUp!Send, SetUp!Expect, StepType

(* And the calls are sequences of them. *)
LEMMA ScriptTypes ==
  /\ \A script \in Scripts : script \in Seq(StepType) /\ script # <<>>
  /\ \A script \in Scripts : SetUp!Calling(script) \in CallType
  /\ SetUp!NoCall \in CallType
<1>1. \A name \in {"RESET", "RESET_DONE", "ECHO", "GET_SET_SCAN_CODE_SET", "GET_CURRENT_SET", "anything",
                   "DISABLE_SCANNING", "IDENTIFY", "MF2_PREFIX", "SET_1", "SET_2", "SET_3", "ENABLE_SCANNING"} :
        name \in Words
  BY DEF Words
<1>2. \A script \in Scripts : script \in Seq(StepType) /\ script # <<>>
  <2>1. ASSUME NEW a \in StepType, NEW b \in StepType, NEW c \in StepType, NEW d \in StepType
        PROVE  /\ <<a>> \in Seq(StepType) /\ <<a, b>> \in Seq(StepType) /\ <<a, b, c>> \in Seq(StepType)
               /\ <<a, b, c, d>> \in Seq(StepType)
               /\ <<a>> # <<>> /\ <<a, b>> # <<>> /\ <<a, b, c>> # <<>> /\ <<a, b, c, d>> # <<>>
    OBVIOUS
  <2>2. /\ SetUp!Send("RESET") \in StepType /\ SetUp!Expect("RESET_DONE") \in StepType
        /\ SetUp!Send("ECHO") \in StepType /\ SetUp!Expect("ECHO") \in StepType
        /\ SetUp!Send("GET_SET_SCAN_CODE_SET") \in StepType /\ SetUp!Send("GET_CURRENT_SET") \in StepType
        /\ SetUp!Expect("anything") \in StepType /\ SetUp!Send("DISABLE_SCANNING") \in StepType
        /\ SetUp!Send("IDENTIFY") \in StepType /\ SetUp!Expect("MF2_PREFIX") \in StepType
        /\ SetUp!Send("SET_1") \in StepType /\ SetUp!Send("SET_2") \in StepType
        /\ SetUp!Send("SET_3") \in StepType /\ SetUp!Send("ENABLE_SCANNING") \in StepType
    BY <1>1, StepTypes
  <2> DEFINE Good(s) == s \in Seq(StepType) /\ s # <<>>
  <2>3. /\ Good(SetUp!Reset) /\ Good(SetUp!Echo) /\ Good(SetUp!GetScanCodeSet) /\ Good(SetUp!GetType)
        /\ Good(SetUp!SetScanCodeSet(1)) /\ Good(SetUp!SetScanCodeSet(2)) /\ Good(SetUp!SetScanCodeSet(3))
        /\ Good(SetUp!Reset \o SetUp!SetScanCodeSet(2)) /\ Good(<<SetUp!Send("ENABLE_SCANNING")>>)
    <3>1. Good(SetUp!Reset) /\ Good(SetUp!Echo) /\ Good(SetUp!GetScanCodeSet)
      BY <2>1, <2>2, ScriptsSpelled
    <3>2. \A a, b \in StepType : \A s : s = <<a, b>> => Good(s)
      BY <2>1
    <3>3. \A a, b, c, d \in StepType : \A s : s = <<a, b, c, d>> => Good(s)
      BY <2>1
    <3>4. Good(<<SetUp!Send("ENABLE_SCANNING")>>)
      BY <2>1, <2>2
    <3> HIDE DEF Good
    <3>5. Good(SetUp!SetScanCodeSet(1)) /\ Good(SetUp!SetScanCodeSet(2)) /\ Good(SetUp!SetScanCodeSet(3))
      BY <2>2, <3>2, ScriptsSpelled, Zenon
    <3>6. Good(SetUp!GetType) /\ Good(SetUp!Reset \o SetUp!SetScanCodeSet(2))
      BY <2>2, <3>3, ScriptsSpelled, Zenon
    <3>7. QED
      BY <3>1, <3>4, <3>5, <3>6, Zenon
  <2> HIDE DEF Good
  <2>4. \A script \in Scripts : Good(script)
    BY <2>3, Zenon DEF Scripts
  <2>5. QED
    BY <2>4 DEF Good
<1>3. \A script : SetUp!Finally(script) \in Seq(StepType)
  BY <1>1, StepTypes DEF SetUp!Finally
<1>4. ResendTimesCount \in 0 .. ResendTimesCount /\ 0 \in 0 .. ResendTimesCount
  BY PS2Assumption DEF SetUp!PS2SetupAssumption
<1>5. \A script \in Scripts : SetUp!Calling(script) \in CallType
  BY <1>2, <1>3, <1>4 DEF SetUp!Calling, CallType
<1>6. SetUp!NoCall \in CallType
  BY <1>4 DEF SetUp!NoCall, CallType
<1>7. QED
  BY <1>2, <1>5, <1>6

(* The driver goes on from one place to the next when it has written what  *)
(* it had to.                                                              *)
LEMMA PollGoesOn ==
  ASSUME SetUpTypes, SetUp!Polls
  PROVE  GoesOn
<1>1. CASE SetUp!Flush("flush") \/ SetUp!Flush("keyboard flush") \/ SetUp!Flush("reboot flush")
  BY <1>1, Zenon DEF SetUp!Flush, SetUp!ReadAnswer, SetUp!historyVars, GoesOn
<1>2. ASSUME NEW place, SetUp!ReadAnswer(place)
      PROVE  todo = <<>> /\ UNCHANGED <<hardware, input, expects, config, keyboard, keys, refusals, lost>>
             /\ Head(output) \in ByteType /\ Head(output).flags \in SUBSET SetUp!Flags
  <2>1. Head(output) \in ByteType
    BY <1>2, HeadTailProperties DEF SetUp!ReadAnswer, SetUpTypes
  <2>2. Head(output).flags \in SUBSET SetUp!Flags
    <3> DEFINE S == SUBSET SetUp!Flags
    <3>1. ByteType = [name : Words, flags : S]
      BY DEF ByteType
    <3> HIDE DEF S
    <3>2. Head(output).flags \in S
      BY <2>1, <3>1
    <3>3. QED
      BY <3>2 DEF S
  <2>3. QED
    BY <1>2, <2>1, <2>2, Zenon DEF SetUp!ReadAnswer, SetUp!historyVars
<1>3. CASE SetUp!Configure
  <2> DEFINE f == Head(output).flags \ SetUp!Unwanted
  <2>1. SetUp!ReadAnswer("configure")
    BY <1>3 DEF SetUp!Configure
  <2>2. f \in SUBSET SetUp!Flags
    BY <1>2, <2>1
  <2>3. at' = "test" /\ todo' = SetUp!WriteConfiguration(f) \o <<SetUp!Command("TEST_CONTROLLER")>>
    BY <1>3 DEF SetUp!Configure, SetUp!GoTo, SetUp!Answer
  <2>4. Question("test") = "TEST_CONTROLLER"
    BY DEF Question
  <2> HIDE DEF f
  <2>5. Sent(at', todo', call'.script, input)
    BY <2>2, <2>3, <2>4, Zenon DEF Sent
  <2>6. QED
    BY <2>5, <2>1, <1>2, Zenon DEF GoesOn
<1>4. CASE SetUp!TestController
  <2> DEFINE again == SetUp!WriteConfiguration(configuration)
  <2>1. SetUp!ReadAnswer("test") /\ configuration \in SUBSET SetUp!Flags
    BY <1>4 DEF SetUp!TestController, SetUpTypes
  <2>2. \/ at' = "no controller" /\ todo' = again
        \/ at' = "keyboard port" /\ todo' = again \o SetUp!TestKeyboardPort
        \/ at' = "mouse" /\ todo' = again \o <<SetUp!Command("UNLOCK_MOUSE"), SetUp!Command("READ_CONFIGURATION")>>
    BY <1>4, Zenon DEF SetUp!TestController, SetUp!GoTo
  <2>3. SetUp!TestKeyboardPort = <<SetUp!Command(Question("keyboard port"))>>
    BY DEF Question, SetUp!TestKeyboardPort
  <2>4. Sent(at', todo', call'.script, input)
    BY <2>1, <2>2, <2>3, Zenon DEF Sent
  <2>5. QED
    BY <2>4, <2>1, <1>2, Zenon DEF GoesOn
<1>5. CASE SetUp!FindMouse
  <2>1. SetUp!ReadAnswer("mouse")
    BY <1>5 DEF SetUp!FindMouse
  <2>2. at' = "keyboard port" /\ (\/ todo' = <<>> \o SetUp!TestKeyboardPort
                                  \/ todo' = <<SetUp!Command("LOCK_MOUSE")>> \o SetUp!TestKeyboardPort)
    BY <1>5, Zenon DEF SetUp!FindMouse, SetUp!GoTo
  <2>3. Sent(at', todo', call'.script, input)
    BY <2>2, Zenon DEF Sent
  <2>4. QED
    BY <2>3, <2>1, <1>2, Zenon DEF GoesOn
<1>6. ASSUME NEW port, SetUp!TestPort(port) PROVE GoesOn
  <2>1. SetUp!ReadAnswer(port)
    BY <1>6 DEF SetUp!TestPort
  <2>2. \/ at' = "mouse port" /\ todo' = <<SetUp!Command("TEST_MOUSE_PORT")>>
        \/ at' = "controller ready" /\ todo' = SetUp!UnlockInput
    BY <1>6, Zenon DEF SetUp!TestPort, SetUp!GoTo
  <2>3. Sent(at', todo', call'.script, input)
    BY <2>2, Zenon DEF Sent
  <2>4. QED
    BY <2>3, <2>1, <1>2, Zenon DEF GoesOn
<1>7. CASE SetUp!EnableScanning
  <2>1. SetUp!ReadAnswer("enable")
    BY <1>7 DEF SetUp!EnableScanning
  <2>2. \/ at' = "reconfigure" /\ todo' = <<SetUp!Command("READ_CONFIGURATION")>>
        \/ at' = at /\ todo' = todo
        \/ at' = "no keyboard" /\ todo' = <<>>
    BY <1>7, Zenon DEF SetUp!EnableScanning, SetUp!GoTo
  <2>3. (at' = at /\ todo' = todo) \/ Sent(at', todo', call'.script, input)
    BY <2>2, Zenon DEF Sent
  <2>4. QED
    BY <2>3, <2>1, <1>2, Zenon DEF GoesOn
<1>8. CASE SetUp!Reconfigure
  <2> DEFINE f == Head(output).flags \cup SetUp!Wanted
  <2>1. SetUp!ReadAnswer("reconfigure")
    BY <1>8 DEF SetUp!Reconfigure
  <2>2. f \in SUBSET SetUp!Flags
    BY <1>2, <2>1 DEF SetUp!Wanted, SetUp!Flags
  <2>3. at' = "call" /\ todo' = SetUp!WriteConfiguration(f)
    BY <1>8 DEF SetUp!Reconfigure, SetUp!GoTo, SetUp!Answer
  <2> HIDE DEF f
  <2>4. Sent(at', todo', call'.script, input)
    BY <2>2, <2>3, Zenon DEF Sent
  <2>5. QED
    BY <2>4, <2>1, <1>2, Zenon DEF GoesOn
<1>9. QED
  BY <1>1, <1>3, <1>4, <1>5, <1>6, <1>7, <1>8, Zenon DEF SetUp!Polls

(* At the end of a call, or of its part, nothing is left to write. *)
LEMMA LeaveGoesOn ==
  ASSUME NEW place \in {"no keyboard", "idle"}, SetUp!Leave(place)
  PROVE  Sent(at', todo', call'.script, input)
BY Zenon DEF SetUp!Leave, SetUp!GoTo, Sent

(* A step of a call begins with everything written, and leaves the devices *)
(* alone.                                                                  *)
LEMMA CallGoesOn ==
  ASSUME SetUpTypes, AtRest,
         SetUp!EndFlush \/ SetUp!BeginKeyboard \/ SetUp!CallStep \/ SetUp!TakeByte
           \/ SetUp!Call \/ SetUp!Reboot \/ SetUp!GetInput
  PROVE  GoesOn
<1>1. CASE SetUp!EndFlush
  <2>1. \/ at' = "configure" /\ todo' = <<SetUp!Command("READ_CONFIGURATION")>>
        \/ at' = "enable" /\ todo' = <<SetUp!Data(SetUp!Byte("ENABLE_SCANNING"))>>
        \/ at' = "reboot" /\ todo' = <<SetUp!Command("REBOOT")>> /\ input = <<>>
    BY <1>1, Zenon DEF SetUp!EndFlush, SetUp!GoTo
  <2>2. Sent(at', todo', call'.script, input)
    BY <2>1, Zenon DEF Sent
  <2>3. QED
    BY <1>1, <2>2, Zenon DEF SetUp!EndFlush, GoesOn, SetUp!controllerVars, SetUp!historyVars
<1>2. CASE SetUp!BeginKeyboard
  <2>1. at' \in {"keyboard flush", "no keyboard"} /\ todo' = <<>>
    BY <1>2, Zenon DEF SetUp!BeginKeyboard, SetUp!GoTo
  <2>2. Sent(at', todo', call'.script, input)
    BY <2>1 DEF Sent
  <2>3. QED
    BY <1>2, <2>2, Zenon DEF SetUp!BeginKeyboard, GoesOn, SetUp!controllerVars, SetUp!historyVars
<1>3. CASE SetUp!CallStep
  <2>1. CASE SetUp!Succeeds
    BY <1>3, <2>1, LeaveGoesOn, Zenon DEF SetUp!CallStep, SetUp!Succeeds, GoesOn, SetUp!controllerVars, SetUp!historyVars
  <2>2. CASE SetUp!Sends
    <3>1. /\ call.script # <<>> /\ at' = "answer"
          /\ todo' = <<SetUp!Data(SetUp!Byte(Head(call.script).name))>>
      BY <2>2, Zenon DEF SetUp!Sends, SetUp!GoTo
    <3>2. call'.script = call.script
      BY <2>2 DEF SetUp!Sends, SetUpTypes, CallType
    <3>3. Sent(at', todo', call'.script, input)
      BY <3>1, <3>2, Zenon DEF Sent
    <3>4. QED
      BY <1>3, <3>3, Zenon DEF SetUp!CallStep, GoesOn, SetUp!controllerVars, SetUp!historyVars
  <2>3. QED
    BY <1>3, <2>1, <2>2, Zenon DEF SetUp!CallStep
<1>4. CASE SetUp!TakeByte
  <2>1. \/ SetUp!Advance
        \/ /\ call' = [call EXCEPT !.times = @ - 1]
           /\ SetUp!GoTo("answer", <<SetUp!Data(SetUp!Byte(Head(call.script).name))>>)
           /\ at = "answer"
        \/ SetUp!Fails
    BY <1>4, Zenon DEF SetUp!TakeByte
  <2>2. ASSUME SetUp!Advance PROVE Sent(at', todo', call'.script, input)
    BY <2>2, Zenon DEF SetUp!Advance, SetUp!GoTo, Sent
  <2>3. ASSUME call' = [call EXCEPT !.times = @ - 1],
               SetUp!GoTo("answer", <<SetUp!Data(SetUp!Byte(Head(call.script).name))>>), at = "answer"
        PROVE  Sent(at', todo', call'.script, input)
    <3>1. call'.script = call.script
      BY <2>3 DEF SetUpTypes, CallType
    <3>2. call.script # <<>>
      BY <2>3 DEF AtRest
    <3>3. QED
      BY <2>3, <3>1, <3>2, Zenon DEF SetUp!GoTo, Sent
  <2>4. ASSUME SetUp!Fails PROVE Sent(at', todo', call'.script, input)
    BY <2>4, LeaveGoesOn, Zenon DEF SetUp!Fails
  <2>5. Sent(at', todo', call'.script, input)
    BY <2>1, <2>2, <2>3, <2>4, Zenon
  <2>6. QED
    BY <1>4, <2>5, Zenon DEF SetUp!TakeByte, GoesOn, SetUp!controllerVars, SetUp!historyVars
<1>5. CASE SetUp!Call
  BY <1>5, Zenon DEF SetUp!Call, SetUp!GoTo, Sent, AtRest, GoesOn, SetUp!controllerVars
<1>6. CASE SetUp!Reboot
  BY <1>6, Zenon DEF SetUp!Reboot, SetUp!GoTo, Sent, AtRest, GoesOn, SetUp!controllerVars, SetUp!historyVars
<1>7. CASE SetUp!GetInput
  BY <1>7, Zenon DEF SetUp!GetInput, AtRest, GoesOn, SetUp!controllerVars, SetUp!historyVars
<1>8. QED
  BY <1>1, <1>2, <1>3, <1>4, <1>5, <1>6, <1>7

(* A byte of the queue or of a register goes on, or is taken. *)
LEMMA ByteMoves ==
  ASSUME SetUpTypes
  PROVE  /\ output # <<>> => Head(output) \in ByteType /\ Head(output).flags \in SUBSET SetUp!Flags
                             /\ output = <<Head(output)>>
         /\ queue # <<>> => Head(queue) \in ByteType /\ Tail(queue) \in Seq(ByteType)
         /\ input # <<>> => Head(input) \in WriteType /\ Head(input).byte \in ByteType
                            /\ Head(input).byte.flags \in SUBSET SetUp!Flags /\ input = <<Head(input)>>
         /\ todo # <<>> => Head(todo) \in WriteType /\ Tail(todo) \in Seq(WriteType)
         /\ call.script # <<>> => Head(call.script) \in StepType /\ Tail(call.script) \in Seq(StepType)
<1>1. ASSUME NEW S, NEW s \in Seq(S), s # <<>>
      PROVE  Head(s) \in S /\ Tail(s) \in Seq(S) /\ (Len(s) <= 1 => s = <<Head(s)>>)
  <2>1. Head(s) \in S /\ Tail(s) \in Seq(S)
    BY <1>1, HeadTailProperties
  <2>2. ASSUME Len(s) <= 1 PROVE s = <<Head(s)>>
    <3>1. Len(s) = 1 /\ Head(s) = s[1]
      BY <1>1, <2>2, EmptySeq
    <3>2. <<Head(s)>> \in Seq(S) /\ Len(<<Head(s)>>) = 1 /\ <<Head(s)>>[1] = Head(s)
      BY <2>1
    <3>3. \A i \in 1 .. Len(s) : s[i] = <<Head(s)>>[i]
      BY <3>1, <3>2
    <3>4. QED
      BY <3>1, <3>2, <3>3, SeqEqual
  <2>3. QED
    BY <2>1, <2>2
<1>2. \A b \in ByteType : b.flags \in SUBSET SetUp!Flags
  <2> DEFINE S == SUBSET SetUp!Flags
  <2>1. ByteType = [name : Words, flags : S]
    BY DEF ByteType
  <2> HIDE DEF S
  <2>2. \A b \in ByteType : b.flags \in S
    BY <2>1
  <2>3. QED
    BY <2>2 DEF S
<1>3. \A w \in WriteType : w.byte \in ByteType
  BY DEF WriteType
<1>4. call.script \in Seq(StepType)
  BY DEF SetUpTypes, CallType
<1>5. output # <<>> => Head(output) \in ByteType /\ Head(output).flags \in SUBSET SetUp!Flags
                             /\ output = <<Head(output)>>
  BY <1>1, <1>2, Zenon DEF SetUpTypes
<1>6. queue # <<>> => Head(queue) \in ByteType /\ Tail(queue) \in Seq(ByteType)
  BY <1>1, Zenon DEF SetUpTypes
<1>7. input # <<>> => Head(input) \in WriteType /\ Head(input).byte \in ByteType
                            /\ Head(input).byte.flags \in SUBSET SetUp!Flags /\ input = <<Head(input)>>
  BY <1>1, <1>2, <1>3, Zenon DEF SetUpTypes
<1>8. todo # <<>> => Head(todo) \in WriteType /\ Tail(todo) \in Seq(WriteType)
  BY <1>1, Zenon DEF SetUpTypes
<1>9. call.script # <<>> => Head(call.script) \in StepType /\ Tail(call.script) \in Seq(StepType)
  BY <1>1, <1>4, Zenon
<1>10. QED
  BY <1>5, <1>6, <1>7, <1>8, <1>9, Zenon

(* A call goes on, ends with what it does finally, or is over. *)
LEMMA CallTypes ==
  ASSUME SetUpTypes
  PROVE  /\ SetUp!Advance => call' \in CallType
         /\ SetUp!Sends => call' \in CallType
         /\ \A place : SetUp!Leave(place) => call' \in CallType
         /\ call' = [call EXCEPT !.times = @ - 1] /\ SetUp!MayResend(call.times) => call' \in CallType
<1>1. call \in CallType /\ call.times \in 0 .. ResendTimesCount /\ call.finally \in Seq(StepType)
      /\ call.script \in Seq(StepType) /\ ResendTimesCount \in Nat
  BY PS2Assumption DEF SetUpTypes, CallType, SetUp!PS2SetupAssumption
<1>2. \A f \in Seq(StepType) : SetUp!Calling(f) \in CallType
  <2>1. "ENABLE_SCANNING" \in Words
    BY DEF Words
  <2>2. \A f : SetUp!Finally(f) \in Seq(StepType)
    BY <2>1, StepTypes DEF SetUp!Finally
  <2>3. QED
    BY <1>1, <2>2 DEF SetUp!Calling, CallType
<1>3. ASSUME SetUp!Advance PROVE call' \in CallType
  <2>1. Tail(call.script) \in Seq(StepType)
    <3>1. CASE call.script = <<>>
      BY <3>1, <1>1
    <3>2. CASE call.script # <<>>
      BY <3>2, ByteMoves
    <3>3. QED
      BY <3>1, <3>2
  <2>2. QED
    BY <1>1, <1>3, <2>1 DEF SetUp!Advance, CallType
<1>4. SetUp!Sends => call' \in CallType
  BY <1>1 DEF SetUp!Sends, CallType
<1>5. \A place : SetUp!Leave(place) => call' \in CallType
  BY <1>1, <1>2, ScriptTypes, Zenon DEF SetUp!Leave
<1>6. call' = [call EXCEPT !.times = @ - 1] /\ SetUp!MayResend(call.times) => call' \in CallType
  BY <1>1 DEF SetUp!MayResend, CallType
<1>7. QED
  BY <1>3, <1>4, <1>5, <1>6, Zenon

(* The driver's steps keep the types. *)
LEMMA DriverGoesOn == SetUpTypes /\ AtRest /\ DriverStep => GoesOn
BY PollGoesOn, CallGoesOn, Zenon DEF DriverStep

LocalTypes ==
  /\ output \in {<<>>} \cup {<<b>> : b \in ByteType} /\ queue \in Seq(ByteType)
  /\ configuration \in SUBSET SetUp!Flags
  /\ singleChannel \in BOOLEAN /\ handler \in BOOLEAN
  /\ available \in SUBSET {"keyboard port", "mouse port"} /\ call \in CallType /\ calls \in Nat

(* What the driver keeps to itself is typed, with what it reads. *)
LEMMA LocalTypesKnown == SetUpTypes => LocalTypes
BY ByteMoves, Zenon DEF SetUpTypes, LocalTypes

(* And stays so when the driver goes on. *)
LEMMA LocalTypesStep == SetUpTypes /\ DriverStep => LocalTypes'
<1> SUFFICES ASSUME SetUpTypes, DriverStep PROVE LocalTypes'
  OBVIOUS
<1>1. LocalTypes
  BY LocalTypesKnown
<1>2. ASSUME NEW place, SetUp!ReadAnswer(place)
      PROVE  /\ output' = <<>> /\ queue' = queue /\ calls' = calls
             /\ Head(output).flags \in SUBSET SetUp!Flags
  BY <1>2, ByteMoves, Zenon DEF SetUp!ReadAnswer, SetUp!historyVars
<1>3. ASSUME NEW place, SetUp!Flush(place) PROVE LocalTypes'
  BY <1>1, <1>2, <1>3, Zenon DEF SetUp!Flush, SetUp!localVars, LocalTypes
<1>4. CASE SetUp!Configure
  <2>1. SetUp!ReadAnswer("configure")
    BY <1>4 DEF SetUp!Configure
  <2>2. configuration' \in SUBSET SetUp!Flags /\ singleChannel' \in BOOLEAN
    BY <1>2, <1>4, <2>1 DEF SetUp!Configure, SetUp!Answer
  <2>3. handler' = handler /\ available' = available /\ call' = call
    BY <1>4 DEF SetUp!Configure
  <2>4. QED
    BY <1>1, <1>2, <2>1, <2>2, <2>3, Zenon DEF LocalTypes
<1>5. CASE SetUp!TestController
  BY <1>1, <1>2, <1>5, Zenon DEF SetUp!TestController, SetUp!localVars, LocalTypes
<1>6. CASE SetUp!FindMouse
  <2>1. SetUp!ReadAnswer("mouse")
    BY <1>6 DEF SetUp!FindMouse
  <2>2. configuration' \in SUBSET SetUp!Flags /\ singleChannel' \in BOOLEAN
    <3>1. configuration' = Head(output).flags /\ singleChannel' = ("MOUSE_LOCKED" \in Head(output).flags)
      BY <1>6, Zenon DEF SetUp!FindMouse, SetUp!Answer
    <3>2. QED
      BY <1>2, <2>1, <3>1
  <2>3. handler' = handler /\ available' = available /\ call' = call
    BY <1>6 DEF SetUp!FindMouse
  <2>4. QED
    BY <1>1, <1>2, <2>1, <2>2, <2>3, Zenon DEF LocalTypes
<1>7. ASSUME NEW port \in {"keyboard port", "mouse port"}, SetUp!TestPort(port) PROVE LocalTypes'
  <2>1. SetUp!ReadAnswer(port)
    BY <1>7 DEF SetUp!TestPort
  <2>2. available' \in SUBSET {"keyboard port", "mouse port"}
    BY <1>1, <1>7 DEF SetUp!TestPort, LocalTypes
  <2>3. handler' = handler /\ configuration' = configuration /\ singleChannel' = singleChannel /\ call' = call
    BY <1>7 DEF SetUp!TestPort
  <2>4. QED
    BY <1>1, <1>2, <2>1, <2>2, <2>3, Zenon DEF LocalTypes
<1>8. CASE SetUp!EnableScanning
  <2>1. SetUp!ReadAnswer("enable") /\ UNCHANGED SetUp!localVars
    BY <1>8 DEF SetUp!EnableScanning
  <2>2. handler' \in BOOLEAN
    BY <1>1, <1>8 DEF SetUp!EnableScanning, LocalTypes
  <2>3. call' \in CallType
    BY <1>1, <1>8, CallTypes, Zenon DEF SetUp!EnableScanning, LocalTypes
  <2>4. QED
    BY <1>1, <1>2, <2>1, <2>2, <2>3, Zenon DEF LocalTypes, SetUp!localVars
<1>9. CASE SetUp!Reconfigure
  <2>1. SetUp!ReadAnswer("reconfigure") /\ UNCHANGED <<handler, SetUp!localVars>>
    BY <1>9 DEF SetUp!Reconfigure
  <2>2. call' \in CallType
    BY <1>9, ScriptTypes, Zenon DEF SetUp!Reconfigure, Scripts
  <2>3. QED
    BY <1>1, <1>2, <2>1, <2>2, Zenon DEF LocalTypes, SetUp!localVars
<1>10. CASE SetUp!EndFlush
  BY <1>1, <1>10, Zenon DEF LocalTypes, SetUp!EndFlush, SetUp!localVars, SetUp!controllerVars, SetUp!historyVars
<1>11. CASE SetUp!BeginKeyboard
  <2>1. call' \in CallType
    <3>1. call' = [SetUp!NoCall EXCEPT !.times = ResendTimesCount]
      BY <1>11, Zenon DEF SetUp!BeginKeyboard
    <3>2. SetUp!NoCall \in CallType /\ ResendTimesCount \in 0 .. ResendTimesCount
      BY ScriptTypes, PS2Assumption DEF SetUp!PS2SetupAssumption
    <3>3. QED
      BY <3>1, <3>2 DEF CallType
  <2>2. QED
    BY <1>1, <1>11, <2>1, Zenon DEF LocalTypes, SetUp!BeginKeyboard, SetUp!localVars, SetUp!controllerVars, SetUp!historyVars
<1>12. CASE SetUp!CallStep
  <2>1. call' \in CallType
    BY <1>12, CallTypes, Zenon DEF SetUp!CallStep, SetUp!Succeeds
  <2>2. QED
    BY <1>1, <1>12, <2>1, Zenon DEF LocalTypes, SetUp!CallStep, SetUp!localVars, SetUp!controllerVars, SetUp!historyVars
<1>13. CASE SetUp!TakeByte
  <2>1. call' \in CallType
    BY <1>13, CallTypes, Zenon DEF SetUp!TakeByte, SetUp!Fails
  <2>2. queue' \in Seq(ByteType)
    BY <1>13, ByteMoves, Zenon DEF SetUp!TakeByte
  <2>3. QED
    BY <1>1, <1>13, <2>1, <2>2, Zenon DEF LocalTypes, SetUp!TakeByte, SetUp!localVars, SetUp!controllerVars, SetUp!historyVars
<1>14. CASE SetUp!Call
  <2>1. call' \in CallType
    <3>1. PICK script \in {SetUp!Reset, SetUp!Echo, SetUp!GetScanCodeSet, SetUp!GetType}
                            \cup {SetUp!SetScanCodeSet(n) : n \in 1 .. 3} : call' = SetUp!Calling(script)
      BY <1>14, Zenon DEF SetUp!Call
    <3>2. 1 .. 3 = {1, 2, 3}
      OBVIOUS
    <3>3. script \in Scripts
      BY <3>1, <3>2, Zenon DEF Scripts
    <3>4. QED
      BY <3>1, <3>3, ScriptTypes, Zenon
  <2>2. calls' \in Nat
    <3>1. calls' = calls + 1 /\ calls \in Nat
      BY <1>1, <1>14, Zenon DEF SetUp!Call, LocalTypes
    <3>2. QED
      BY <3>1
  <2>3. QED
    BY <1>1, <1>14, <2>1, <2>2, Zenon DEF LocalTypes, SetUp!Call, SetUp!localVars, SetUp!controllerVars
<1>15. CASE SetUp!Reboot
  BY <1>1, <1>15, Zenon DEF LocalTypes, SetUp!Reboot, SetUp!localVars, SetUp!controllerVars, SetUp!historyVars
<1>16. CASE SetUp!GetInput
  <2>1. queue' \in Seq(ByteType)
    BY <1>16, ByteMoves, Zenon DEF SetUp!GetInput
  <2>2. QED
    BY <1>1, <1>16, <2>1, Zenon DEF LocalTypes, SetUp!GetInput, SetUp!localVars, SetUp!controllerVars, SetUp!historyVars
<1>17. QED
  BY <1>3, <1>4, <1>5, <1>6, <1>7, <1>8, <1>9, <1>10, <1>11, <1>12, <1>13, <1>14, <1>15, <1>16, Zenon
     DEF DriverStep, SetUp!Polls

(* The types stay when the driver goes on, *)
LEMMA TypesAfterDriver == SetUpTypes /\ AtRest /\ DriverStep => SetUpTypes'
<1> SUFFICES ASSUME SetUpTypes, AtRest, DriverStep PROVE SetUpTypes'
  OBVIOUS
<1>1. GoesOn /\ LocalTypes'
  BY DriverGoesOn, LocalTypesStep
<1>2. output' \in Seq(ByteType) /\ Len(output') <= 1
  <2>1. output' = <<>> \/ \E b \in ByteType : output' = <<b>>
    BY <1>1, Zenon DEF LocalTypes
  <2>2. \A b \in ByteType : <<b>> \in Seq(ByteType) /\ Len(<<b>>) <= 1
    OBVIOUS
  <2>3. <<>> \in Seq(ByteType) /\ Len(<<>>) <= 1
    OBVIOUS
  <2>4. QED
    BY <2>1, <2>2, <2>3, Zenon
<1>3. at' \in Places /\ todo' \in Seq(WriteType)
  <2>1. CASE at' = at /\ todo' = todo
    BY <2>1, Zenon DEF SetUpTypes
  <2>2. CASE Sent(at', todo', call'.script, input)
    <3>1. at' \in Places
      BY <2>2 DEF Sent, Places, Questions, SetUp!Ended
    <3>2. call'.script \in Seq(StepType)
      BY <1>1 DEF LocalTypes, CallType
    <3>3. QED
      BY <2>2, <3>1, <3>2, SentTypes, Zenon
  <2>3. QED
    BY <1>1, <2>1, <2>2, Zenon DEF GoesOn
<1>4. QED
  BY <1>1, <1>2, <1>3, Zenon DEF SetUpTypes, GoesOn, LocalTypes

(* A byte written, taken, sent or queued keeps the types. *)
LEMMA AnswersTypes ==
  ASSUME SetUpTypes, NEW name
  PROVE  SetUp!Answers(name) \in {<<>>} \cup {<<b>> : b \in ByteType}
<1>1. /\ "CONTROLLER_TEST_PASSED" \in Words /\ "CONTROLLER_TEST_FAILED" \in Words
      /\ "PORT_TEST_PASSED" \in Words /\ "PORT_TEST_FAILED" \in Words
  BY DEF Words
<1>2. config \in SUBSET SetUp!Flags
  BY DEF SetUpTypes
<1>3. SetUp!ConfigByte(config) \in ByteType
  BY <1>2, ConfigTypes, Zenon
<1>4. /\ SetUp!Byte(IF hardware.controller THEN "CONTROLLER_TEST_PASSED" ELSE "CONTROLLER_TEST_FAILED") \in ByteType
      /\ SetUp!Byte(IF hardware.ports THEN "PORT_TEST_PASSED" ELSE "PORT_TEST_FAILED") \in ByteType
  BY <1>1, ByteTypes, Zenon
<1>5. QED
  BY <1>3, <1>4, Zenon DEF SetUp!Answers

(* when it writes a byte, *)
LEMMA TypesAfterWrite == SetUpTypes /\ SetUp!Write => SetUpTypes'
<1> SUFFICES ASSUME SetUpTypes, SetUp!Write PROVE SetUpTypes'
  OBVIOUS
<1>1. Head(todo) \in WriteType /\ Tail(todo) \in Seq(WriteType)
  BY ByteMoves, Zenon DEF SetUp!Write
<1>2. \A w \in WriteType : <<w>> \in Seq(WriteType) /\ Len(<<w>>) <= 1
  OBVIOUS
<1>3. todo' \in Seq(WriteType) /\ input' \in Seq(WriteType) /\ Len(input') <= 1
  BY <1>1, <1>2, Zenon DEF SetUp!Write
<1>4. QED
  BY <1>3, Zenon DEF SetUp!Write, SetUpTypes, SetUp!localVars

(* when the controller takes a command or a configuration, *)
LEMMA TypesAfterCommand == SetUpTypes /\ (SetUp!TakeCommand \/ SetUp!TakeConfiguration) => SetUpTypes'
<1> SUFFICES ASSUME SetUpTypes, SetUp!TakeCommand \/ SetUp!TakeConfiguration PROVE SetUpTypes'
  OBVIOUS
<1>1. input' = <<>> /\ input' \in Seq(WriteType) /\ Len(input') <= 1
  <2>1. input' = <<>>
    BY Zenon DEF SetUp!TakeCommand, SetUp!TakeConfiguration
  <2>2. QED
    BY <2>1
<1>2. expects' \in {"keyboard", "configuration"}
  BY Zenon DEF SetUp!TakeCommand, SetUp!TakeConfiguration
<1>3. config' \in SUBSET SetUp!Flags
  <2>1. CASE SetUp!TakeCommand
    <3>1. PICK name : config' = SetUp!Reconfigured(name) \/ config' = SetUp!Resets
      BY <2>1, Zenon DEF SetUp!TakeCommand
    <3>2. config \in SUBSET SetUp!Flags
      BY DEF SetUpTypes
    <3>3. QED
      BY <3>1, <3>2 DEF SetUp!Reconfigured, SetUp!Resets, SetUp!MouseFlag, SetUp!Flags
  <2>2. CASE SetUp!TakeConfiguration
    BY <2>2, ByteMoves, Zenon DEF SetUp!TakeConfiguration
  <2>3. QED
    BY <2>1, <2>2
<1>4. output' \in Seq(ByteType) /\ Len(output') <= 1
  <2>1. CASE SetUp!TakeCommand
    <3> DEFINE new == SetUp!Answers(Head(input).byte.name)
    <3>1. output' = output \o new /\ (new # <<>> => output = <<>>)
      BY <2>1, Zenon DEF SetUp!TakeCommand
    <3>2. new \in {<<>>} \cup {<<b>> : b \in ByteType}
      BY AnswersTypes
    <3>3. output \in Seq(ByteType) /\ Len(output) <= 1
      BY DEF SetUpTypes
    <3> HIDE DEF new
    <3>4. CASE new = <<>>
      BY <3>1, <3>3, <3>4, ConcatEmptySeq
    <3>5. CASE new # <<>>
      <4>1. new \in Seq(ByteType) /\ Len(new) <= 1 /\ output = <<>>
        BY <3>1, <3>2, <3>5
      <4>2. output' = new
        BY <3>1, <4>1, ConcatEmptySeq
      <4>3. QED
        BY <4>1, <4>2
    <3>6. QED
      BY <3>4, <3>5
  <2>2. CASE SetUp!TakeConfiguration
    BY <2>2, Zenon DEF SetUp!TakeConfiguration, SetUpTypes
  <2>3. QED
    BY <2>1, <2>2
<1>5. UNCHANGED <<hardware, keyboard, queue, handler, at, todo, SetUp!localVars, call, SetUp!historyVars>>
  BY Zenon DEF SetUp!TakeCommand, SetUp!TakeConfiguration
<1>6. QED
  BY <1>1, <1>2, <1>3, <1>4, <1>5, Zenon DEF SetUpTypes, SetUp!localVars, SetUp!historyVars

(* What the keyboard knows, and that it answers with known bytes. *)
LEMMA KeyboardTypes ==
  ASSUME SetUpTypes, NEW name \in Words
  PROVE  /\ SetUp!Obeyed(name) \in KeyboardState /\ SetUp!Reply(name) \in Seq(Words)
         /\ SetUp!Obeyed(name).sends = keyboard.sends
         /\ \A s \in Seq(Words) : [SetUp!Obeyed(name) EXCEPT !.sends = s] \in KeyboardState
                                  /\ [keyboard EXCEPT !.sends = s] \in KeyboardState
<1>1. keyboard \in KeyboardState /\ keyboard.set \in SetUp!Sets
  BY DEF SetUpTypes, KeyboardState
<1>2. SetUp!Sets = {"SET_1", "SET_2", "SET_3"}
  <2>1. 1 .. 3 = {1, 2, 3}
    OBVIOUS
  <2>2. SetUp!ScanCodeSet(1) = "SET_1" /\ SetUp!ScanCodeSet(2) = "SET_2" /\ SetUp!ScanCodeSet(3) = "SET_3"
    BY DEF SetUp!ScanCodeSet
  <2>3. QED
    BY <2>1, <2>2 DEF SetUp!Sets
<1>3. SetUp!Obeyed(name) \in KeyboardState /\ SetUp!Obeyed(name).sends = keyboard.sends
  BY <1>1, <1>2 DEF SetUp!Obeyed, KeyboardState
<1>4. SetUp!Reply(name) \in Seq(Words)
  <2>1. keyboard.set \in Words /\ "ECHO" \in Words /\ "ACK" \in Words /\ "RESET_DONE" \in Words
        /\ "MF2_PREFIX" \in Words /\ "MF2" \in Words
    BY <1>1, <1>2 DEF Words
  <2>2. QED
    BY <2>1 DEF SetUp!Reply
<1>5. \A k \in KeyboardState : \A s \in Seq(Words) : [k EXCEPT !.sends = s] \in KeyboardState
  BY DEF KeyboardState
<1>6. QED
  BY <1>1, <1>3, <1>4, <1>5, Zenon

(* when the keyboard takes a byte, *)
LEMMA TypesAfterData == SetUpTypes /\ SetUp!TakeData => SetUpTypes'
<1> SUFFICES ASSUME SetUpTypes, SetUp!TakeData PROVE SetUpTypes'
  OBVIOUS
<1>1. input' = <<>> /\ config' = config \ {"KEYBOARD_LOCKED"}
      /\ UNCHANGED <<hardware, output, expects, queue, handler, at, todo, SetUp!localVars, call, calls, keys>>
  BY Zenon DEF SetUp!TakeData
<1>2. input' \in Seq(WriteType) /\ Len(input') <= 1
  BY <1>1
<1>3. config' \in SUBSET SetUp!Flags
  BY <1>1 DEF SetUpTypes
<1> DEFINE name == Head(input).byte.name
<1>4. name \in Words
  <2>1. Head(input).byte \in ByteType
    BY ByteMoves, Zenon DEF SetUp!TakeData
  <2>2. QED
    BY <2>1 DEF ByteType
<1>5. keyboard' \in KeyboardState
  <2>1. keyboard \in KeyboardState /\ keyboard.sends \in Seq(Words)
    BY DEF SetUpTypes, KeyboardState
  <2>2. "RESEND" \in Words
    BY DEF Words
  <2>3. Append(keyboard.sends, "RESEND") \in Seq(Words)
    BY <2>1, <2>2
  <2>4. SetUp!Obeyed(name).sends \o SetUp!Reply(name) \in Seq(Words)
    BY <1>4, <2>1, KeyboardTypes, ConcatProperties
  <2>5. \/ keyboard' = keyboard
        \/ keyboard' = [SetUp!Obeyed(name) EXCEPT !.sends = @ \o SetUp!Reply(name)]
        \/ keyboard' = [keyboard EXCEPT !.sends = Append(@, "RESEND")]
    BY Zenon DEF SetUp!TakeData
  <2> HIDE DEF name
  <2>6. QED
    BY <1>4, <2>1, <2>3, <2>4, <2>5, KeyboardTypes, Zenon
<1>6. refusals' \in Nat
  <2>1. refusals \in Nat
    BY DEF SetUpTypes
  <2>2. refusals' = refusals \/ refusals' = refusals + 1
    BY Zenon DEF SetUp!TakeData
  <2>3. QED
    BY <2>1, <2>2
<1>7. QED
  BY <1>1, <1>2, <1>3, <1>5, <1>6, Zenon DEF SetUpTypes, SetUp!localVars

(* when a key is pressed, and a byte delivered or queued. *)
LEMMA TypesAfterKey == SetUpTypes /\ (SetUp!PressKey \/ SetUp!Deliver \/ SetUp!IRQHandler) => SetUpTypes'
<1> SUFFICES ASSUME SetUpTypes, SetUp!PressKey \/ SetUp!Deliver \/ SetUp!IRQHandler PROVE SetUpTypes'
  OBVIOUS
<1>1. keyboard \in KeyboardState /\ keyboard.sends \in Seq(Words)
  BY DEF SetUpTypes, KeyboardState
<1>2. \A s \in Seq(Words) : [keyboard EXCEPT !.sends = s] \in KeyboardState
  BY <1>1 DEF KeyboardState
<1>3. CASE SetUp!PressKey
  <2>1. "key" \in Words
    BY DEF Words
  <2>2. Append(keyboard.sends, "key") \in Seq(Words)
    BY <1>1, <2>1
  <2>3. keyboard' \in KeyboardState
    BY <1>2, <1>3, <2>2, Zenon DEF SetUp!PressKey
  <2>4. keys' \in Nat
    <3>1. keys' = keys + 1 /\ keys \in Nat
      BY <1>3, Zenon DEF SetUp!PressKey, SetUpTypes
    <3>2. QED
      BY <3>1
  <2>5. QED
    BY <1>3, <2>3, <2>4, Zenon DEF SetUp!PressKey, SetUpTypes, SetUp!localVars, SetUp!controllerVars
<1>4. CASE SetUp!Deliver
  <2>1. Head(keyboard.sends) \in Words /\ Tail(keyboard.sends) \in Seq(Words)
    BY <1>1, <1>4, HeadTailProperties DEF SetUp!Deliver
  <2>2. keyboard' \in KeyboardState
    BY <1>2, <1>4, <2>1, Zenon DEF SetUp!Deliver
  <2>3. output' \in Seq(ByteType) /\ Len(output') <= 1
    <3>1. SetUp!Byte(Head(keyboard.sends)) \in ByteType /\ output' = <<SetUp!Byte(Head(keyboard.sends))>>
      BY <1>4, <2>1, ByteTypes, Zenon DEF SetUp!Deliver
    <3>2. QED
      BY <3>1
  <2>4. QED
    BY <1>4, <2>2, <2>3, Zenon DEF SetUp!Deliver, SetUpTypes, SetUp!localVars, SetUp!historyVars
<1>5. CASE SetUp!IRQHandler
  <2>1. queue' \in Seq(ByteType)
    <3>1. queue' = queue \o output /\ queue \in Seq(ByteType) /\ output \in Seq(ByteType)
      BY <1>5, Zenon DEF SetUp!IRQHandler, SetUpTypes
    <3>2. QED
      BY <3>1, ConcatProperties
  <2>2. output' \in Seq(ByteType) /\ Len(output') <= 1
    <3>1. output' = <<>>
      BY <1>5 DEF SetUp!IRQHandler
    <3>2. QED
      BY <3>1
  <2>3. QED
    BY <1>5, <2>1, <2>2, Zenon DEF SetUp!IRQHandler, SetUpTypes, SetUp!localVars, SetUp!historyVars
<1>6. QED
  BY <1>3, <1>4, <1>5

(* So they stay with every step. *)
LEMMA SetUpTypesStep == SetUpTypes /\ AtRest /\ SetUp!Next => SetUpTypes'
BY TypesAfterDriver, TypesAfterWrite, TypesAfterCommand, TypesAfterData, TypesAfterKey, Zenon
   DEF SetUp!Next, SetUp!Driver, SetUp!Device, DriverStep

-----------------------------------------------------------------------------
(* What becomes of the call under way in a step of the driver. *)
CallMoves ==
  \/ at \notin InCall /\ at' \notin InCall /\ call'.script = call.script /\ call'.finally = call.finally
  \/ at' \notin InCall /\ call'.script = <<>> /\ call'.finally = <<>>
  \/ at' = "call" /\ \E script \in Scripts : call' = SetUp!Calling(script)
  \/ at' = "call" /\ call.script # <<>> /\ call'.script = Tail(call.script) /\ call'.finally = call.finally
  \/ /\ at' = "answer" /\ call.script # <<>> /\ Head(call.script).does = "send"
     /\ call'.script = call.script /\ call'.finally = call.finally

(* What a change of one part of a call leaves of the others. *)
LEMMA CallParts ==
  ASSUME SetUpTypes
  PROVE  /\ call.script \in Seq(StepType) /\ call.finally \in Seq(StepType) /\ call.times \in 0 .. ResendTimesCount
         /\ \A n : [call EXCEPT !.times = n].script = call.script /\ [call EXCEPT !.times = n].finally = call.finally
                   /\ [call EXCEPT !.times = n].times = n
         /\ \A s : [call EXCEPT !.script = s].script = s /\ [call EXCEPT !.script = s].finally = call.finally
                   /\ [call EXCEPT !.script = s].times = call.times
         /\ SetUp!NoCall.script = <<>> /\ SetUp!NoCall.finally = <<>>
         /\ [SetUp!NoCall EXCEPT !.times = ResendTimesCount].script = <<>>
         /\ [SetUp!NoCall EXCEPT !.times = ResendTimesCount].finally = <<>>
<1>1. call \in CallType
  BY DEF SetUpTypes
<1>2. QED
  BY <1>1 DEF CallType, SetUp!NoCall

(* The end of a call, or of its first part, is one of these moves. *)
LEMMA LeaveMoves ==
  ASSUME SetUpTypes, AtRest, NEW place \in {"no keyboard", "idle"}, SetUp!Leave(place)
  PROVE  CallMoves
<1>1. CASE call.finally # <<>>
  <2>1. call' = SetUp!Calling(call.finally) /\ at' = "call"
    BY <1>1, Zenon DEF SetUp!Leave, SetUp!GoTo
  <2>2. call.finally \in Scripts
    BY <1>1, Zenon DEF AtRest, Scripts
  <2>3. QED
    BY <2>1, <2>2, Zenon DEF CallMoves
<1>2. CASE call.finally = <<>>
  <2>1. call' = SetUp!NoCall /\ at' = place
    BY <1>2, Zenon DEF SetUp!Leave, SetUp!GoTo
  <2>2. at' \notin InCall
    BY <2>1 DEF InCall
  <2>3. QED
    BY <2>1, <2>2, CallParts, Zenon DEF CallMoves
<1>3. QED
  BY <1>1, <1>2

(* Every step of the driver moves a call in one of these ways. *)
LEMMA DriverCallMoves == SetUpTypes /\ AtRest /\ DriverStep => CallMoves
<1> SUFFICES ASSUME SetUpTypes, AtRest, DriverStep PROVE CallMoves
  OBVIOUS
<1>1. \A p : p \in {"flush", "keyboard flush", "reboot flush", "reboot", "enable", "reconfigure", "no keyboard",
                    "controller ready", "configure", "test", "mouse", "keyboard port", "mouse port",
                    "no controller", "idle"} => p \notin InCall
  BY DEF InCall
<1>2. ASSUME NEW place \in {"flush", "keyboard flush", "reboot flush"}, SetUp!Flush(place) PROVE CallMoves
  BY <1>1, <1>2, Zenon DEF SetUp!Flush, SetUp!ReadAnswer, CallMoves
<1>3. CASE SetUp!Configure
  BY <1>1, <1>3, Zenon DEF SetUp!Configure, SetUp!ReadAnswer, SetUp!GoTo, CallMoves
<1>4. CASE SetUp!TestController
  BY <1>1, <1>4, Zenon DEF SetUp!TestController, SetUp!ReadAnswer, SetUp!GoTo, CallMoves
<1>5. CASE SetUp!FindMouse
  BY <1>1, <1>5, Zenon DEF SetUp!FindMouse, SetUp!ReadAnswer, SetUp!GoTo, CallMoves
<1>6. ASSUME NEW port \in {"keyboard port", "mouse port"}, SetUp!TestPort(port) PROVE CallMoves
  BY <1>1, <1>6, Zenon DEF SetUp!TestPort, SetUp!ReadAnswer, SetUp!GoTo, CallMoves
<1>7. CASE SetUp!EnableScanning
  <2>1. at = "enable" /\ at' \in {"reconfigure", "enable", "no keyboard"}
    BY <1>7, Zenon DEF SetUp!EnableScanning, SetUp!ReadAnswer, SetUp!GoTo
  <2>2. call'.script = call.script /\ call'.finally = call.finally
    <3>1. call' = call \/ call' = [call EXCEPT !.times = @ - 1]
      BY <1>7, Zenon DEF SetUp!EnableScanning
    <3>2. /\ [call EXCEPT !.times = call.times - 1].script = call.script
          /\ [call EXCEPT !.times = call.times - 1].finally = call.finally
      BY CallParts, Zenon
    <3>3. QED
      BY <3>1, <3>2, Zenon
  <2>3. at \notin InCall /\ at' \notin InCall
    BY <2>1 DEF InCall
  <2>4. QED
    BY <2>2, <2>3, Zenon DEF CallMoves
<1>8. CASE SetUp!Reconfigure
  BY <1>8, Zenon DEF SetUp!Reconfigure, SetUp!GoTo, CallMoves, Scripts
<1>9. CASE SetUp!EndFlush
  BY <1>1, <1>9, Zenon DEF SetUp!EndFlush, SetUp!GoTo, CallMoves
<1>10. CASE SetUp!BeginKeyboard
  BY <1>1, <1>10, CallParts, Zenon DEF SetUp!BeginKeyboard, SetUp!GoTo, CallMoves
<1>11. CASE SetUp!CallStep
  <2>1. CASE SetUp!Succeeds
    BY <2>1, LeaveMoves, Zenon DEF SetUp!Succeeds
  <2>2. CASE SetUp!Sends
    BY <2>2, CallParts, Zenon DEF SetUp!Sends, SetUp!GoTo, CallMoves
  <2>3. QED
    BY <1>11, <2>1, <2>2, Zenon DEF SetUp!CallStep
<1>12. CASE SetUp!TakeByte
  <2>1. \/ SetUp!Advance /\ call.script # <<>>
        \/ at = "answer" /\ at' = "answer" /\ call' = [call EXCEPT !.times = @ - 1]
        \/ SetUp!Fails
    BY <1>12, Zenon DEF SetUp!TakeByte, SetUp!GoTo, AtRest
  <2>2. CASE SetUp!Advance /\ call.script # <<>>
    BY <2>2, CallParts, Zenon DEF SetUp!Advance, SetUp!GoTo, CallMoves
  <2>3. CASE at = "answer" /\ at' = "answer" /\ call' = [call EXCEPT !.times = @ - 1]
    BY <2>3, CallParts, Zenon DEF AtRest, CallMoves
  <2>4. CASE SetUp!Fails
    BY <2>4, LeaveMoves, Zenon DEF SetUp!Fails
  <2>5. QED
    BY <2>1, <2>2, <2>3, <2>4
<1>13. CASE SetUp!Call
  <2>1. PICK script \in {SetUp!Reset, SetUp!Echo, SetUp!GetScanCodeSet, SetUp!GetType}
                          \cup {SetUp!SetScanCodeSet(n) : n \in 1 .. 3} : call' = SetUp!Calling(script)
    BY <1>13, Zenon DEF SetUp!Call
  <2>2. 1 .. 3 = {1, 2, 3}
    OBVIOUS
  <2>3. script \in Scripts
    BY <2>1, <2>2, Zenon DEF Scripts
  <2>4. QED
    BY <1>13, <2>1, <2>3, Zenon DEF SetUp!Call, SetUp!GoTo, CallMoves
<1>14. CASE SetUp!Reboot
  BY <1>1, <1>14, Zenon DEF SetUp!Reboot, SetUp!GoTo, CallMoves
<1>15. CASE SetUp!GetInput
  BY <1>1, <1>15, Zenon DEF SetUp!GetInput, CallMoves
<1>16. QED
  BY <1>2, <1>3, <1>4, <1>5, <1>6, <1>7, <1>8, <1>9, <1>10, <1>11, <1>12, <1>13, <1>14, <1>15, Zenon
     DEF DriverStep, SetUp!Polls

(* A step of the devices, of the user or of the interrupt leaves the       *)
(* driver where it is.                                                     *)
DeviceStep ==
  SetUp!TakeCommand \/ SetUp!TakeConfiguration \/ SetUp!TakeData \/ SetUp!PressKey \/ SetUp!Deliver \/ SetUp!IRQHandler

(* A step is one of the driver, a byte that is written, or one of a        *)
(* device.                                                                 *)
LEMMA StepsOfSetUp == SetUp!Next => DriverStep \/ SetUp!Write \/ DeviceStep
BY Zenon DEF SetUp!Next, SetUp!Driver, SetUp!Device, DriverStep, DeviceStep

(* A device changes nothing of the driver. *)
LEMMA DeviceLeavesDriver ==
  DeviceStep => UNCHANGED <<hardware, at, todo, call, calls, handler, configuration, singleChannel, available, lost>>
BY Zenon DEF DeviceStep, SetUp!TakeCommand, SetUp!TakeConfiguration, SetUp!TakeData, SetUp!PressKey,
   SetUp!Deliver, SetUp!IRQHandler, SetUp!localVars, SetUp!historyVars

(* What a call begins with, and what it sends in the end. *)
LEMMA FinallyIsKnown ==
  ASSUME NEW script
  PROVE  /\ SetUp!Calling(script).script = script /\ SetUp!Calling(script).times = ResendTimesCount
         /\ SetUp!Calling(script).finally \in {<<>>, <<SetUp!Send("ENABLE_SCANNING")>>}
         /\ SetUp!Calling(script).finally = (IF script = SetUp!GetType THEN <<SetUp!Send("ENABLE_SCANNING")>> ELSE <<>>)
<1>1. SetUp!Finally(script) \in {<<>>, <<SetUp!Send("ENABLE_SCANNING")>>}
  BY Zenon DEF SetUp!Finally
<1>2. SetUp!Calling(script) = [script |-> script, finally |-> SetUp!Finally(script), times |-> ResendTimesCount]
  BY DEF SetUp!Calling
<1>3. SetUp!Finally(script) = (IF script = SetUp!GetType THEN <<SetUp!Send("ENABLE_SCANNING")>> ELSE <<>>)
  BY Zenon DEF SetUp!Finally
<1> DEFINE f == SetUp!Finally(script)
<1> HIDE DEF f
<1>4. /\ SetUp!Calling(script).script = script /\ SetUp!Calling(script).times = ResendTimesCount
      /\ SetUp!Calling(script).finally = SetUp!Finally(script)
  BY <1>2
<1>5. QED
  BY <1>1, <1>3, <1>4, Zenon

(* After every step nothing is left to write where the driver rests, and   *)
(* nothing of a call where none is under way.                              *)
LEMMA AtRestStep == SetUpTypes /\ AtRest /\ SetUp!Next => AtRest'
<1> SUFFICES ASSUME SetUpTypes, AtRest, SetUp!Next PROVE AtRest'
  OBVIOUS
<1>1. CASE DriverStep
  <2>1. GoesOn /\ CallMoves
    BY <1>1, DriverGoesOn, DriverCallMoves
  <2>2. at' \in {"keyboard flush", "idle", "no keyboard", "reboot flush"} => todo' = <<>>
    BY <2>1 DEF GoesOn, Sent, AtRest
  <2>3. CASE at \notin InCall /\ at' \notin InCall /\ call'.script = call.script /\ call'.finally = call.finally
    BY <2>2, <2>3, Zenon DEF AtRest, InCall
  <2>4. CASE at' \notin InCall /\ call'.script = <<>> /\ call'.finally = <<>>
    BY <2>2, <2>4, Zenon DEF AtRest, InCall
  <2>5. CASE at' = "call" /\ \E script \in Scripts : call' = SetUp!Calling(script)
    BY <2>2, <2>5, FinallyIsKnown, Zenon DEF AtRest, InCall
  <2>6. CASE at' = "call" /\ call.script # <<>> /\ call'.script = Tail(call.script) /\ call'.finally = call.finally
    BY <2>2, <2>6, Zenon DEF AtRest, InCall
  <2>7. CASE /\ at' = "answer" /\ call.script # <<>> /\ Head(call.script).does = "send"
             /\ call'.script = call.script /\ call'.finally = call.finally
    BY <2>2, <2>7, Zenon DEF AtRest, InCall
  <2>8. QED
    BY <2>1, <2>3, <2>4, <2>5, <2>6, <2>7, Zenon DEF CallMoves
<1>2. CASE SetUp!Write
  BY <1>2, Zenon DEF SetUp!Write, AtRest
<1>3. CASE DeviceStep
  BY <1>3, DeviceLeavesDriver, Zenon DEF AtRest
<1>4. QED
  BY <1>1, <1>2, <1>3, StepsOfSetUp

(* What remains of a call: after a step of it, what is sent and taken next. *)
SoundCall(script) == script # <<>> =>
  /\ Tail(script) \in Remains
  /\ Takes(script) /\ Takes(Tail(script)) => ~Takes(Tail(Tail(script)))
  /\ Sends(script) => /\ Head(script).name \in KeyboardCommands
                      /\ Head(script).name = "ECHO" \/ Due(Tail(script)) = Behind(Head(script).name)
  /\ Sends(Tail(script)) =>
       /\ Head(Tail(script)).name # "DISABLE_SCANNING"
       /\ Head(Tail(script)).name \in Arguments => Head(script) = SetUp!Send("GET_SET_SCAN_CODE_SET")
  /\ Head(script) = SetUp!Send("ENABLE_SCANNING") => Tail(script) = <<>>

(* The calls' steps, one by one: the head and the tail of up to four. *)
LEMMA StepsSpelled ==
  ASSUME NEW a \in StepType, NEW b \in StepType, NEW c \in StepType, NEW d \in StepType
  PROVE  /\ Head(<<a>>) = a /\ Tail(<<a>>) = <<>> /\ <<a>> # <<>>
         /\ Head(<<a, b>>) = a /\ Tail(<<a, b>>) = <<b>> /\ <<a, b>> # <<>>
         /\ Head(<<a, b, c>>) = a /\ Tail(<<a, b, c>>) = <<b, c>> /\ <<a, b, c>> # <<>>
         /\ Head(<<a, b, c, d>>) = a /\ Tail(<<a, b, c, d>>) = <<b, c, d>> /\ <<a, b, c, d>> # <<>>
<1>1. /\ <<>> \in Seq(StepType) /\ <<b>> \in Seq(StepType) /\ <<b, c>> \in Seq(StepType) /\ <<b, c, d>> \in Seq(StepType)
      /\ <<a>> \in Seq(StepType) /\ <<a, b>> \in Seq(StepType) /\ <<a, b, c>> \in Seq(StepType)
      /\ <<a, b, c, d>> \in Seq(StepType)
  OBVIOUS
<1>2. Head(<<a>>) = a /\ Head(<<a, b>>) = a /\ Head(<<a, b, c>>) = a /\ Head(<<a, b, c, d>>) = a
  OBVIOUS
<1>3. <<a>> # <<>> /\ <<a, b>> # <<>> /\ <<a, b, c>> # <<>> /\ <<a, b, c, d>> # <<>>
  OBVIOUS
<1>4. Tail(<<a>>) = <<>>
  <2>1. Tail(<<a>>) \in Seq(StepType) /\ Len(Tail(<<a>>)) = 0
    BY <1>1
  <2>2. QED
    BY <2>1, EmptySeq
<1>5. Tail(<<a, b>>) = <<b>>
  <2>1. Tail(<<a, b>>) \in Seq(StepType) /\ Len(Tail(<<a, b>>)) = 1 /\ \A i \in 1 .. 1 : Tail(<<a, b>>)[i] = <<b>>[i]
    BY <1>1
  <2>2. QED
    BY <1>1, <2>1, SeqEqual
<1>6. Tail(<<a, b, c>>) = <<b, c>>
  <2>1. /\ Tail(<<a, b, c>>) \in Seq(StepType) /\ Len(Tail(<<a, b, c>>)) = 2
        /\ \A i \in 1 .. 2 : Tail(<<a, b, c>>)[i] = <<b, c>>[i]
    BY <1>1
  <2>2. QED
    BY <1>1, <2>1, SeqEqual
<1>7. Tail(<<a, b, c, d>>) = <<b, c, d>>
  <2>1. /\ Tail(<<a, b, c, d>>) \in Seq(StepType) /\ Len(Tail(<<a, b, c, d>>)) = 3
        /\ \A i \in 1 .. 3 : Tail(<<a, b, c, d>>)[i] = <<b, c, d>>[i]
    BY <1>1
  <2>2. QED
    BY <1>1, <2>1, SeqEqual
<1>8. QED
  BY <1>2, <1>3, <1>4, <1>5, <1>6, <1>7

Spelled(script, step, rest) == script # <<>> /\ Head(script) = step /\ Tail(script) = rest
(* The same, for every step. *)
LEMMA TuplesSpelled ==
  /\ \A a \in StepType : Spelled(<<a>>, a, <<>>)
  /\ \A a, b \in StepType : Spelled(<<a, b>>, a, <<b>>)
  /\ \A a, b, c \in StepType : Spelled(<<a, b, c>>, a, <<b, c>>)
  /\ \A a, b, c, d \in StepType : Spelled(<<a, b, c, d>>, a, <<b, c, d>>)
<1>1. ASSUME NEW a \in StepType, NEW b \in StepType, NEW c \in StepType, NEW d \in StepType
      PROVE  /\ Spelled(<<a>>, a, <<>>) /\ Spelled(<<a, b>>, a, <<b>>)
             /\ Spelled(<<a, b, c>>, a, <<b, c>>) /\ Spelled(<<a, b, c, d>>, a, <<b, c, d>>)
  BY StepsSpelled DEF Spelled
<1>2. QED
  BY <1>1, Zenon

(* What a step does, and its name. *)
LEMMA NamedSteps ==
  ASSUME NEW name \in Words
  PROVE  /\ SetUp!Send(name) \in StepType /\ SetUp!Send(name).name = name /\ SetUp!Send(name).does = "send"
         /\ SetUp!Expect(name) \in StepType /\ SetUp!Expect(name).name = name /\ SetUp!Expect(name).does = "take"
BY DEF SetUp!Send, SetUp!Expect, StepType

(* One step of a call may come before another, rest being what follows. *)
Joins(a, b, rest) ==
  /\ a # SetUp!Send("ENABLE_SCANNING")
  /\ a.does = "take" /\ b.does = "take" => ~Takes(rest)
  /\ a.does = "send" =>
       /\ a.name \in KeyboardCommands
       /\ \/ a.name = "ECHO"
          \/ b.does = "send" /\ Behind(a.name) = <<>>
          \/ b.does = "take" /\ ~Takes(rest) /\ Behind(a.name) = <<b.name>>
          \/ b.does = "take" /\ Takes(rest) /\ Behind(a.name) = <<b.name, Head(rest).name>>
  /\ b.does = "send" =>
       b.name # "DISABLE_SCANNING" /\ (b.name \in Arguments => a = SetUp!Send("GET_SET_SCAN_CODE_SET"))

(* A call is sound if its first step may come before the second. *)
LEMMA SoundParts ==
  ASSUME NEW s, NEW a \in StepType, NEW t \in Remains, NEW b \in StepType, NEW u,
         Spelled(s, a, t), Spelled(t, b, u), Joins(a, b, u)
  PROVE  SoundCall(s)
<1>1. /\ s # <<>> /\ Head(s) = a /\ Tail(s) = t /\ t # <<>> /\ Head(t) = b /\ Tail(t) = u
      /\ b.does \in {"send", "take"}
  BY DEF Spelled, StepType
<1>2. Due(t) = IF b.does = "send" THEN <<>> ELSE IF ~Takes(u) THEN <<b.name>> ELSE <<b.name, Head(u).name>>
  BY <1>1, Zenon DEF Due, Takes
<1>3. a.does = "send" => a.name = "ECHO" \/ Due(t) = Behind(a.name)
  BY <1>1, <1>2, Zenon DEF Joins
<1>4. Tail(s) \in Remains /\ (Takes(s) /\ Takes(Tail(s)) => ~Takes(Tail(Tail(s))))
  BY <1>1, Zenon DEF Takes, Joins
<1>5. Sends(s) => /\ Head(s).name \in KeyboardCommands
                  /\ Head(s).name = "ECHO" \/ Due(Tail(s)) = Behind(Head(s).name)
  BY <1>1, <1>3, Zenon DEF Sends, Joins
<1>6. QED
  BY <1>1, <1>4, <1>5, Zenon DEF SoundCall, Sends, Joins

(* And one of a single step is, if nothing is to follow that step. *)
LEMMA SoundLast ==
  ASSUME NEW s, NEW a \in StepType, Spelled(s, a, <<>>),
         a.does = "send" => a.name \in KeyboardCommands /\ Behind(a.name) = <<>>
  PROVE  SoundCall(s)
<1>1. s # <<>> /\ Head(s) = a /\ Tail(s) = <<>> /\ ~Takes(<<>>) /\ ~Sends(<<>>) /\ <<>> \in Remains
  BY DEF Spelled, Takes, Sends, Remains
<1>2. Due(<<>>) = <<>>
  BY <1>1, Zenon DEF Due
<1>3. QED
  BY <1>1, <1>2, Zenon DEF SoundCall, Sends

(* Whatever remains of a call is sound. *)
LEMMA CallsAreSound == \A script \in Remains : SoundCall(script)
<1> DEFINE R == SetUp!Send("RESET")  D == SetUp!Expect("RESET_DONE")  E == SetUp!Send("ECHO")
           ee == SetUp!Expect("ECHO")  G == SetUp!Send("GET_SET_SCAN_CODE_SET")  C == SetUp!Send("GET_CURRENT_SET")
           A == SetUp!Expect("anything")  L == SetUp!Send("DISABLE_SCANNING")  I == SetUp!Send("IDENTIFY")
           M == SetUp!Expect("MF2_PREFIX")  S1 == SetUp!Send("SET_1")  S2 == SetUp!Send("SET_2")
           S3 == SetUp!Send("SET_3")  N == SetUp!Send("ENABLE_SCANNING")
           StepOf(s, does, name) == s \in StepType /\ s.does = does /\ s.name = name
<1>1. /\ StepOf(R, "send", "RESET") /\ StepOf(D, "take", "RESET_DONE") /\ StepOf(E, "send", "ECHO")
      /\ StepOf(ee, "take", "ECHO") /\ StepOf(G, "send", "GET_SET_SCAN_CODE_SET")
      /\ StepOf(C, "send", "GET_CURRENT_SET") /\ StepOf(A, "take", "anything")
      /\ StepOf(L, "send", "DISABLE_SCANNING") /\ StepOf(I, "send", "IDENTIFY") /\ StepOf(M, "take", "MF2_PREFIX")
      /\ StepOf(S1, "send", "SET_1") /\ StepOf(S2, "send", "SET_2") /\ StepOf(S3, "send", "SET_3")
      /\ StepOf(N, "send", "ENABLE_SCANNING")
  BY NamedSteps DEF Words
<1>2. Scripts = {<<R, D>>, <<E, ee>>, <<G, C, A>>, <<L, I, M, A>>, <<G, S1>>, <<G, S2>>, <<G, S3>>, <<R, D, G, S2>>, <<N>>}
  BY ScriptsSpelled, Zenon DEF Scripts
<1>3. \A s : s \in Remains <=>
        s \in {<<>>, <<R, D>>, <<D>>, <<E, ee>>, <<ee>>, <<G, C, A>>, <<C, A>>, <<A>>, <<L, I, M, A>>, <<I, M, A>>, <<M, A>>,
               <<G, S1>>, <<S1>>, <<G, S2>>, <<S2>>, <<G, S3>>, <<S3>>, <<R, D, G, S2>>, <<D, G, S2>>, <<N>>}
  BY <1>2 DEF Remains, SetUp!Anything
<1>4. /\ Behind("RESET") = <<"RESET_DONE">> /\ Behind("IDENTIFY") = <<"MF2_PREFIX", "anything">>
      /\ Behind("GET_CURRENT_SET") = <<"anything">> /\ Behind("GET_SET_SCAN_CODE_SET") = <<>>
      /\ Behind("SET_1") = <<>> /\ Behind("SET_2") = <<>> /\ Behind("SET_3") = <<>>
      /\ Behind("ENABLE_SCANNING") = <<>> /\ Behind("DISABLE_SCANNING") = <<>>
  BY DEF Behind
<1>5. \A name \in {"RESET", "ECHO", "GET_SET_SCAN_CODE_SET", "GET_CURRENT_SET", "DISABLE_SCANNING", "IDENTIFY",
                   "SET_1", "SET_2", "SET_3", "ENABLE_SCANNING"} : name \in KeyboardCommands
  BY DEF KeyboardCommands
<1>6. (\A a \in StepType : a.name # "ENABLE_SCANNING" => a # SetUp!Send("ENABLE_SCANNING"))
      /\ G = SetUp!Send("GET_SET_SCAN_CODE_SET")
  BY <1>1
<1> HIDE DEF R, D, E, ee, G, C, A, L, I, M, S1, S2, S3, N
<1>7. Spelled(<<D>>, D, <<>>) /\ Spelled(<<ee>>, ee, <<>>) /\ Spelled(<<A>>, A, <<>>) /\ Spelled(<<S1>>, S1, <<>>) /\ Spelled(<<S2>>, S2, <<>>) /\ Spelled(<<S3>>, S3, <<>>) /\ Spelled(<<N>>, N, <<>>)
  BY <1>1, TuplesSpelled, Zenon
<1>8. Spelled(<<R, D>>, R, <<D>>) /\ Spelled(<<E, ee>>, E, <<ee>>) /\ Spelled(<<C, A>>, C, <<A>>) /\ Spelled(<<M, A>>, M, <<A>>) /\ Spelled(<<G, S1>>, G, <<S1>>) /\ Spelled(<<G, S2>>, G, <<S2>>) /\ Spelled(<<G, S3>>, G, <<S3>>)
  BY <1>1, TuplesSpelled, Zenon
<1>9. Spelled(<<G, C, A>>, G, <<C, A>>) /\ Spelled(<<I, M, A>>, I, <<M, A>>) /\ Spelled(<<D, G, S2>>, D, <<G, S2>>)
  BY <1>1, TuplesSpelled, Zenon
<1>10. Spelled(<<L, I, M, A>>, L, <<I, M, A>>) /\ Spelled(<<R, D, G, S2>>, R, <<D, G, S2>>)
  BY <1>1, TuplesSpelled, Zenon
<1>11. \A s, a, t : Spelled(s, a, t) => (Takes(s) <=> a.does = "take") /\ Head(s) = a
  BY Zenon DEF Spelled, Takes
<1>12. ~Takes(<<>>)
  BY DEF Takes
<1>13. SoundCall(<<>>)
  BY DEF SoundCall
<1>14. SoundCall(<<D>>) /\ SoundCall(<<ee>>) /\ SoundCall(<<A>>) /\ SoundCall(<<S1>>) /\ SoundCall(<<S2>>) /\ SoundCall(<<S3>>) /\ SoundCall(<<N>>)
  BY <1>1, <1>4, <1>5, <1>7, SoundLast, Zenon
<1>15. Takes(<<A>>) /\ Takes(<<M, A>>) /\ ~Takes(<<G, S2>>) /\ ~Takes(<<S2>>)
  BY <1>1, <1>7, <1>8, <1>9, <1>10, <1>11, Zenon
<1>16. Head(<<A>>) = A
  BY <1>7, Zenon DEF Spelled
<1>17. SoundCall(<<R, D>>)
  <2>1. Joins(R, D, <<>>)
    BY <1>1, <1>4, <1>5, <1>6, <1>12, <1>15, <1>16 DEF Joins, Arguments
  <2>2. QED
    BY <1>1, <1>3, <1>8, <1>7, <2>1, SoundParts, Zenon
<1>18. SoundCall(<<E, ee>>)
  <2>1. Joins(E, ee, <<>>)
    BY <1>1, <1>4, <1>5, <1>6, <1>12, <1>15, <1>16 DEF Joins, Arguments
  <2>2. QED
    BY <1>1, <1>3, <1>8, <1>7, <2>1, SoundParts, Zenon
<1>19. SoundCall(<<G, C, A>>)
  <2>1. Joins(G, C, <<A>>)
    BY <1>1, <1>4, <1>5, <1>6, <1>12, <1>15, <1>16 DEF Joins, Arguments
  <2>2. QED
    BY <1>1, <1>3, <1>9, <1>8, <2>1, SoundParts, Zenon
<1>20. SoundCall(<<C, A>>)
  <2>1. Joins(C, A, <<>>)
    BY <1>1, <1>4, <1>5, <1>6, <1>12, <1>15, <1>16 DEF Joins, Arguments
  <2>2. QED
    BY <1>1, <1>3, <1>8, <1>7, <2>1, SoundParts, Zenon
<1>21. SoundCall(<<L, I, M, A>>)
  <2>1. Joins(L, I, <<M, A>>)
    BY <1>1, <1>4, <1>5, <1>6, <1>12, <1>15, <1>16 DEF Joins, Arguments
  <2>2. QED
    BY <1>1, <1>3, <1>10, <1>9, <2>1, SoundParts, Zenon
<1>22. SoundCall(<<I, M, A>>)
  <2>1. Joins(I, M, <<A>>)
    BY <1>1, <1>4, <1>5, <1>6, <1>12, <1>15, <1>16 DEF Joins, Arguments
  <2>2. QED
    BY <1>1, <1>3, <1>9, <1>8, <2>1, SoundParts, Zenon
<1>23. SoundCall(<<M, A>>)
  <2>1. Joins(M, A, <<>>)
    BY <1>1, <1>4, <1>5, <1>6, <1>12, <1>15, <1>16 DEF Joins, Arguments
  <2>2. QED
    BY <1>1, <1>3, <1>8, <1>7, <2>1, SoundParts, Zenon
<1>24. SoundCall(<<G, S1>>)
  <2>1. Joins(G, S1, <<>>)
    BY <1>1, <1>4, <1>5, <1>6, <1>12, <1>15, <1>16 DEF Joins, Arguments
  <2>2. QED
    BY <1>1, <1>3, <1>8, <1>7, <2>1, SoundParts, Zenon
<1>25. SoundCall(<<G, S2>>)
  <2>1. Joins(G, S2, <<>>)
    BY <1>1, <1>4, <1>5, <1>6, <1>12, <1>15, <1>16 DEF Joins, Arguments
  <2>2. QED
    BY <1>1, <1>3, <1>8, <1>7, <2>1, SoundParts, Zenon
<1>26. SoundCall(<<G, S3>>)
  <2>1. Joins(G, S3, <<>>)
    BY <1>1, <1>4, <1>5, <1>6, <1>12, <1>15, <1>16 DEF Joins, Arguments
  <2>2. QED
    BY <1>1, <1>3, <1>8, <1>7, <2>1, SoundParts, Zenon
<1>27. SoundCall(<<R, D, G, S2>>)
  <2>1. Joins(R, D, <<G, S2>>)
    BY <1>1, <1>4, <1>5, <1>6, <1>12, <1>15, <1>16 DEF Joins, Arguments
  <2>2. QED
    BY <1>1, <1>3, <1>10, <1>9, <2>1, SoundParts, Zenon
<1>28. SoundCall(<<D, G, S2>>)
  <2>1. Joins(D, G, <<S2>>)
    BY <1>1, <1>4, <1>5, <1>6, <1>12, <1>15, <1>16 DEF Joins, Arguments
  <2>2. QED
    BY <1>1, <1>3, <1>9, <1>8, <2>1, SoundParts, Zenon
<1>29. QED
  BY <1>3, <1>13, <1>14, <1>15, <1>16, <1>17, <1>18, <1>19, <1>20, <1>21, <1>22, <1>23, <1>24, <1>25, <1>26, <1>27, <1>28, Zenon

(* What remains of the call under way is known, and one that stops the     *)
(* keyboard's scanning starts it again.                                    *)
CallInv ==
  /\ call.script \in Remains
  /\ call.script # <<>> /\ Head(call.script) = SetUp!Send("DISABLE_SCANNING") => call.finally # <<>>

(* The calls remain of themselves, and only GetType begins with stopping   *)
(* the keyboard's scanning.                                                *)
LEMMA FirstSteps ==
  /\ \A script \in Scripts : script \in Remains
  /\ \A script \in Scripts : Head(script) = SetUp!Send("DISABLE_SCANNING") => script = SetUp!GetType
<1> DEFINE R == SetUp!Send("RESET")  D == SetUp!Expect("RESET_DONE")  E == SetUp!Send("ECHO")
           ee == SetUp!Expect("ECHO")  G == SetUp!Send("GET_SET_SCAN_CODE_SET")  C == SetUp!Send("GET_CURRENT_SET")
           A == SetUp!Expect("anything")  L == SetUp!Send("DISABLE_SCANNING")
           S1 == SetUp!Send("SET_1")  S2 == SetUp!Send("SET_2")  S3 == SetUp!Send("SET_3")  N == SetUp!Send("ENABLE_SCANNING")
           T == StepType
<1>1. R \in T /\ D \in T /\ E \in T /\ ee \in T /\ G \in T /\ C \in T /\ A \in T /\ L \in T /\ S1 \in T /\ S2 \in T
      /\ S3 \in T /\ N \in T
  BY NamedSteps DEF Words
<1>2. R # L /\ E # L /\ G # L /\ N # L
  <2>1. R.name = "RESET" /\ E.name = "ECHO" /\ G.name = "GET_SET_SCAN_CODE_SET" /\ N.name = "ENABLE_SCANNING"
        /\ L.name = "DISABLE_SCANNING"
    BY NamedSteps DEF Words
  <2> HIDE DEF R, E, G, N, L
  <2>2. QED
    BY <2>1
<1>3. /\ SetUp!Reset = <<R, D>> /\ SetUp!Echo = <<E, ee>> /\ SetUp!GetScanCodeSet = <<G, C, A>>
      /\ SetUp!SetScanCodeSet(1) = <<G, S1>> /\ SetUp!SetScanCodeSet(2) = <<G, S2>> /\ SetUp!SetScanCodeSet(3) = <<G, S3>>
      /\ SetUp!Reset \o SetUp!SetScanCodeSet(2) = <<R, D, G, S2>>
  BY ScriptsSpelled, Zenon
<1> DEFINE first == SetUp!Reset \o SetUp!SetScanCodeSet(2)
<1> HIDE DEF R, D, E, ee, G, C, A, L, S1, S2, S3, N, T
<1>4. /\ Head(SetUp!Reset) = R /\ Head(SetUp!Echo) = E /\ Head(SetUp!GetScanCodeSet) = G
      /\ Head(SetUp!SetScanCodeSet(1)) = G /\ Head(SetUp!SetScanCodeSet(2)) = G /\ Head(SetUp!SetScanCodeSet(3)) = G
      /\ Head(first) = R /\ Head(<<N>>) = N
  <2>1. \A a \in T : Head(<<a>>) = a
    BY TuplesSpelled DEF Spelled, T
  <2>2. \A a, b \in T : Head(<<a, b>>) = a
    BY TuplesSpelled DEF Spelled, T
  <2>3. \A a, b, c \in T : Head(<<a, b, c>>) = a
    BY TuplesSpelled DEF Spelled, T
  <2>4. \A a, b, c, d \in T : Head(<<a, b, c, d>>) = a
    BY TuplesSpelled DEF Spelled, T
  <2>5. Head(SetUp!Reset) = R /\ Head(SetUp!Echo) = E
    BY <1>1, <1>3, <2>2, Zenon
  <2>6. Head(SetUp!SetScanCodeSet(1)) = G /\ Head(SetUp!SetScanCodeSet(2)) = G /\ Head(SetUp!SetScanCodeSet(3)) = G
    BY <1>1, <1>3, <2>2, Zenon
  <2>7. Head(SetUp!GetScanCodeSet) = G
    BY <1>1, <1>3, <2>3, Zenon
  <2>8. Head(first) = R
    <3>1. first = <<R, D, G, S2>>
      BY <1>3, Zenon DEF first
    <3>2. Head(<<R, D, G, S2>>) = R
      BY <1>1, <2>4, Zenon
    <3>3. QED
      BY <3>1, <3>2
  <2>9. Head(<<N>>) = N
    BY <1>1, <2>1, Zenon
  <2>10. QED
    BY <2>5, <2>6, <2>7, <2>8, <2>9
<1> HIDE DEF first
<1>5. \A script \in Scripts : script \in {SetUp!Reset, SetUp!Echo, SetUp!GetScanCodeSet, SetUp!GetType,
            SetUp!SetScanCodeSet(1), SetUp!SetScanCodeSet(2), SetUp!SetScanCodeSet(3), first, <<N>>}
  BY Zenon DEF Scripts, first, N
<1>6. \A script \in Scripts : Head(script) = L => script = SetUp!GetType
  BY <1>2, <1>4, <1>5, Zenon
<1>7. \A script \in Scripts : script \in Remains
  BY Zenon DEF Remains
<1>8. QED
  BY <1>6, <1>7, Zenon DEF L

(* The set-up begins without a call. *)
LEMMA CallInvInit == SetUp!Init => CallInv
BY DEF SetUp!Init, SetUp!NoCall, CallInv, Remains

(* What remains of a call is known after every step. *)
LEMMA CallInvStep == SetUpTypes /\ AtRest /\ CallInv /\ SetUp!Next => CallInv'
<1> SUFFICES ASSUME SetUpTypes, AtRest, CallInv, SetUp!Next PROVE CallInv'
  OBVIOUS
<1>1. CASE DriverStep
  <2>1. CallMoves
    BY <1>1, DriverCallMoves
  <2>2. CASE call'.script = call.script /\ call'.finally = call.finally
    BY <2>2, Zenon DEF CallInv
  <2>3. CASE call'.script = <<>>
    <3>1. <<>> \in Remains
      BY DEF Remains
    <3>2. QED
      BY <2>3, <3>1, Zenon DEF CallInv
  <2>4. ASSUME NEW script \in Scripts, call' = SetUp!Calling(script) PROVE CallInv'
    <3>1. <<SetUp!Send("ENABLE_SCANNING")>> # <<>>
      OBVIOUS
    <3>2. QED
      BY <2>4, <3>1, FirstSteps, FinallyIsKnown, Zenon DEF CallInv
  <2>5. CASE call.script # <<>> /\ call'.script = Tail(call.script) /\ call'.finally = call.finally
    <3>1. SoundCall(call.script) /\ Tail(call.script) \in Remains
      BY <2>5, CallsAreSound, Zenon DEF CallInv, SoundCall
    <3>2. /\ SetUp!Send("DISABLE_SCANNING").does = "send"
          /\ SetUp!Send("DISABLE_SCANNING").name = "DISABLE_SCANNING"
      BY DEF SetUp!Send
    <3>3. Tail(call.script) # <<>> => Head(Tail(call.script)) # SetUp!Send("DISABLE_SCANNING")
      BY <2>5, <3>1, <3>2, Zenon DEF SoundCall, Sends
    <3>4. QED
      BY <2>5, <3>1, <3>3, Zenon DEF CallInv
  <2>6. QED
    BY <2>1, <2>2, <2>3, <2>4, <2>5, Zenon DEF CallMoves
<1>2. CASE SetUp!Write
  BY <1>2, Zenon DEF SetUp!Write, CallInv
<1>3. CASE DeviceStep
  BY <1>3, DeviceLeavesDriver, Zenon DEF CallInv
<1>4. QED
  BY <1>1, <1>2, <1>3, StepsOfSetUp

-----------------------------------------------------------------------------
(* A configuration byte follows its command, and the controller takes it   *)
(* for one.                                                                *)
Orderly(td, in, ex) ==
  /\ \A k \in 1 .. Len(td) :
       /\ Announces(td[k]) => k < Len(td) /\ IsConfiguration(td[k + 1])
       /\ IsConfiguration(td[k]) => IF k > 1 THEN Announces(td[k - 1])
            ELSE IF in = <<>> THEN ex = "configuration" ELSE Announces(in[1])
  /\ in # <<>> /\ Announces(in[1]) => td # <<>> /\ IsConfiguration(td[1])
  /\ in # <<>> /\ in[1].port = "data" => (IsConfiguration(in[1]) <=> ex = "configuration")
  /\ in = <<>> /\ ex = "configuration" => td # <<>> /\ IsConfiguration(td[1])

(* What is written before the driver waits: things that are not answered,  *)
(* and at last, where it waits for an answer, what is.                     *)
AllUnanswered(ws) == \A k \in 1 .. Len(ws) : Unanswered(ws[k])
EndsWith(ws, w) == ws # <<>> /\ ws[Len(ws)] = w /\ \A k \in 1 .. Len(ws) - 1 : Unanswered(ws[k])
Pends(w, td, in) == IF td = <<>> THEN in = <<>> \/ in = <<w>> ELSE EndsWith(td, w)
Waits == Questions \cup {"enable", "answer"}
Asks(p, script) ==
  IF p \in Questions THEN SetUp!Command(Question(p))
  ELSE IF p = "enable" THEN SetUp!Data(SetUp!Byte("ENABLE_SCANNING"))
  ELSE SetUp!Data(SetUp!Byte(Head(script).name))
Program(p, script, td, in) ==
  /\ p \in Waits => Pends(Asks(p, script), td, in)
  /\ p \notin Waits \cup {"reboot"} => AllUnanswered(td)
  /\ p = "reboot" => td = <<>> \/ (in = <<>> /\ Len(td) = 1)

-----------------------------------------------------------------------------
(* Before a key is pressed: the bytes in the queue, in the register and    *)
(* those the keyboard has still to send, one after the other, are those    *)
(* that are named.                                                         *)
Matches(names, q, o, s) ==
  /\ Len(names) = Len(q) + Len(o) + Len(s)
  /\ \A k \in 1 .. Len(q) : names[k] \in {q[k].name, "anything"}
  /\ \A k \in 1 .. Len(o) : names[Len(q) + k] \in {o[k].name, "anything"}
  /\ \A k \in 1 .. Len(s) : names[Len(q) + Len(o) + k] \in {s[k], "anything"}

(* The driver has yet to ask, or the device to take the question; the      *)
(* device has answered; or nothing is being asked.                         *)
Asking(w, td, in, q, o, s) ==
  /\ q = <<>> /\ o = <<>> /\ s = <<>>
  /\ (EndsWith(td, w) /\ AllUnanswered(in)) \/ (td = <<>> /\ in = <<w>>)
Telling(names, td, in, q, o, s) == td = <<>> /\ in = <<>> /\ Matches(names, q, o, s)
Loose(script, td, in, q, o, s) == AllUnanswered(td) /\ AllUnanswered(in) /\ Matches(Due(script), q, o, s)

Asked(p, hw, td, in, q, o, s) ==
  \/ Asking(SetUp!Command(Question(p)), td, in, q, o, s)
  \/ Telling(<<AnswerTo(p, hw)>>, td, in, q, o, s)

(* What is sent to the keyboard, what it knows before and after it has     *)
(* understood it, and that it has asked for it again: without a keyboard   *)
(* nothing is answered.                                                    *)
Replies(name) == IF name = "ECHO" THEN <<"ECHO">> ELSE <<"ACK">> \o Behind(name)
Ready(name, kb) == name \in Arguments => kb.argument
Done(name, kb) ==
  /\ name = "GET_SET_SCAN_CODE_SET" => kb.argument
  /\ name = "ENABLE_SCANNING" => kb.scanning
Told(name, td, in, q, o, kb, refused) ==
  \/ Asking(SetUp!Data(SetUp!Byte(name)), td, in, q, o, kb.sends) /\ Ready(name, kb)
  \/ Telling(<<>>, td, in, q, o, kb.sends) /\ Ready(name, kb)
  \/ Telling(<<"RESEND">>, td, in, q, o, kb.sends) /\ Ready(name, kb) /\ refused
  \/ Telling(Replies(name), td, in, q, o, kb.sends) /\ Done(name, kb)

InStep(p, hw, script, times, td, in, q, o, kb, r) ==
  /\ p \in Questions => Asked(p, hw, td, in, q, o, kb.sends)
  /\ p = "enable" => Told("ENABLE_SCANNING", td, in, q, o, kb, r > ResendTimesCount - times)
  /\ p = "answer" => Told(Head(script).name, td, in, q, o, kb, r > ResendTimesCount - times)
  /\ p \notin Waits \cup {"reboot"} => Loose(script, td, in, q, o, kb.sends)
  /\ p = "call" /\ Sends(script) => Ready(Head(script).name, kb)
  /\ p \in {"keyboard flush", "enable", "answer"} => r >= ResendTimesCount - times

ScanningComes ==
  at # "reboot" /\ refusals <= ResendTimesCount /\ ~keyboard.scanning =>
    at \in InCall /\ (call.finally # <<>> \/ call.script = <<SetUp!Send("ENABLE_SCANNING")>>)
Reasons ==
  /\ at = "no controller" => ~hardware.mentioned \/ ~hardware.controller
  /\ at \in {"mouse port", "controller ready"} => "keyboard port" \in available \/ ~hardware.ports
  /\ at = "no keyboard" => ~hardware.ports \/ refusals > ResendTimesCount
LostNames == {"LOCK_KEYBOARD", "LOCK_MOUSE", "UNLOCK_KEYBOARD", "UNLOCK_MOUSE", "configuration"}

Untyped ==
  keys = 0 => /\ InStep(at, hardware, call.script, call.times, todo, input, queue, output, keyboard, refusals)
              /\ ScanningComes /\ Reasons /\ lost \subseteq LostNames

-----------------------------------------------------------------------------
(* The first set-up, whatever is typed: what is left of its call, and the  *)
(* configuration it leaves.                                                *)
FirstScript == SetUp!Reset \o SetUp!SetScanCodeSet(2)
FirstRemains ==
  {<<>>, FirstScript, <<SetUp!Expect("RESET_DONE"), SetUp!Send("GET_SET_SCAN_CODE_SET"), SetUp!Send("SET_2")>>,
   SetUp!SetScanCodeSet(2), <<SetUp!Send("SET_2")>>}
FirstNames == {"configuration", "ENABLE_SCANNING", "RESET", "GET_SET_SCAN_CODE_SET", "SET_2"}
InUse == {"call", "answer", "idle"}
Tested == {"mouse", "keyboard port", "mouse port", "controller ready", "keyboard flush", "enable", "reconfigure"}
Before == {"flush", "configure", "test"} \cup Tested

Pending == {todo[k] : k \in 1 .. Len(todo)} \cup {input[k] : k \in 1 .. Len(input)}
Configurations == {w \in Pending : IsConfiguration(w)}
None(name, bytes) == \A k \in 1 .. Len(bytes) : bytes[k].name # name

HandlerSet == at \in InUse \cup {"reconfigure", "reboot flush", "reboot"} => handler
NoReset ==
  /\ \A w \in Pending : w.port = "data" => w.byte.name # "RESET"
  /\ None("RESET_DONE", queue) /\ None("RESET_DONE", output)
  /\ \A k \in 1 .. Len(keyboard.sends) : keyboard.sends[k] # "RESET_DONE"
FirstCommands ==
  /\ keyboard.scanning /\ keyboard.set = "SET_2" /\ call.finally = <<>> /\ call.script \in FirstRemains
  /\ \A w \in Pending : w.port = "data" => w.byte.name \in FirstNames
  /\ at \in Before => NoReset
InterruptOn ==
  at \in InUse =>
    /\ \A w \in Configurations : "KEYBOARD_IRQ" \in w.byte.flags
    /\ "KEYBOARD_IRQ" \in config \/ Configurations # {}
    /\ Configurations # {} => call.script = FirstScript /\ (at = "call" \/ todo # <<>>)
IsCommand(w, name) == w.port = "command" /\ w.byte.name = name
TestTaken ==
  /\ at = "test" => "TRANSLATE" \notin configuration
  /\ at = "test" /\ todo # <<>> => input = <<>> \/ ~IsCommand(Head(input), "TEST_CONTROLLER")
  /\ \A w \in Pending : IsCommand(w, "TEST_CONTROLLER") =>
       at \in {"test", "no controller"} /\ None("CONTROLLER_TEST_PASSED", output)
  /\ at \in {"flush", "configure"} => None("CONTROLLER_TEST_PASSED", output)
Untranslated ==
  /\ \A w \in Configurations : "TRANSLATE" \notin w.byte.flags
  /\ "TRANSLATE" \notin config \/ Configurations # {}

(* A configuration byte that comes before the answer to RESET makes the    *)
(* set-up fail.                                                            *)
Blocks(q) == \E k \in 1 .. Len(q) : q[k].name = "configuration" /\ \A j \in 1 .. k - 1 : q[j].name # "RESET_DONE"
Blocked(q, o) ==
  \/ Blocks(q)
  \/ o # <<>> /\ Head(o).name = "configuration" /\ None("RESET_DONE", q)
Reading == input # <<>> /\ IsCommand(Head(input), "READ_CONFIGURATION")
Doomed ==
  \/ /\ Reading /\ at = "call" /\ call.script = FirstScript
     /\ todo # <<>> /\ Head(todo).port = "command" /\ NoReset
  \/ call.script \in {FirstScript, Tail(FirstScript)} /\ Blocked(queue, output)
TranslationOff ==
  /\ at \in Tested =>
       /\ Untranslated
       /\ Reading => \A k \in 1 .. Len(todo) : ~IsConfiguration(todo[k])
       /\ \A k \in 1 .. Len(output) : output[k].name = "configuration" => "TRANSLATE" \notin output[k].flags
  /\ at = "reconfigure" /\ todo = <<>> => Reading \/ Blocked(queue, output)
  /\ at \in InUse => Untranslated \/ Doomed
FirstSetUp == calls = 0 => FirstCommands /\ InterruptOn /\ (lost = {} => TranslationOff)

(* What the keyboard may send; and once it is set up, nothing but a        *)
(* configuration is written to the controller.                             *)
Replied == {"key", "ACK", "RESEND", "ECHO", "RESET_DONE", "MF2_PREFIX", "MF2", "SET_1", "SET_2", "SET_3"}
SendsKnown == \A k \in 1 .. Len(keyboard.sends) : keyboard.sends[k] \in Replied
UseWrites == at \in InUse => \A k \in 1 .. Len(todo) : todo[k].port = "command" => Announces(todo[k])

(* What a write says. *)
LEMMA WriteFacts ==
  /\ \A name \in Words : /\ SetUp!Command(name).port = "command" /\ SetUp!Command(name).byte.name = name
                         /\ SetUp!Data(SetUp!Byte(name)).port = "data" /\ SetUp!Data(SetUp!Byte(name)).byte.name = name
  /\ \A flags : /\ SetUp!Data(SetUp!ConfigByte(flags)).port = "data"
                /\ SetUp!Data(SetUp!ConfigByte(flags)).byte.name = "configuration"
                /\ SetUp!Data(SetUp!ConfigByte(flags)).byte.flags = flags
<1>1. \A b : SetUp!Data(b).port = "data" /\ SetUp!Data(b).byte = b
  BY DEF SetUp!Data
<1>2. \A name : SetUp!Byte(name).name = name
  <2> DEFINE f == SetUp!Flags \ {"KEYBOARD_IRQ"}
  <2>1. \A name : SetUp!Byte(name) = [name |-> name, flags |-> f]
    BY DEF SetUp!Byte
  <2> HIDE DEF f
  <2>2. QED
    BY <2>1
<1>3. \A name : SetUp!Command(name).port = "command" /\ SetUp!Command(name).byte = SetUp!Byte(name)
  BY DEF SetUp!Command
<1>4. \A flags : SetUp!ConfigByte(flags).name = "configuration" /\ SetUp!ConfigByte(flags).flags = flags
  BY DEF SetUp!ConfigByte
<1>5. QED
  BY <1>1, <1>2, <1>3, <1>4

(* What is sent at a time, spelled out. *)
LEMMA SentSpelled ==
  ASSUME NEW p \in Places, NEW td, NEW script, NEW in, Sent(p, td, script, in)
  PROVE  \/ p \in {"keyboard flush", "no keyboard", "idle", "reboot flush", "call"} /\ td = <<>>
         \/ p \in Questions /\ td = <<SetUp!Command(Question(p))>>
         \/ \E flags \in SUBSET SetUp!Flags :
              \/ /\ p \in {"no controller", "call"}
                 /\ td = <<SetUp!Command("WRITE_CONFIGURATION"), SetUp!Data(SetUp!ConfigByte(flags))>>
              \/ /\ p \in Questions
                 /\ td = <<SetUp!Command("WRITE_CONFIGURATION"), SetUp!Data(SetUp!ConfigByte(flags)),
                           SetUp!Command(Question(p))>>
              \/ /\ p \in Questions
                 /\ td = <<SetUp!Command("WRITE_CONFIGURATION"), SetUp!Data(SetUp!ConfigByte(flags)),
                           SetUp!Command("UNLOCK_MOUSE"), SetUp!Command(Question(p))>>
         \/ p \in Questions /\ td = <<SetUp!Command("LOCK_MOUSE"), SetUp!Command(Question(p))>>
         \/ p = "controller ready" /\ td = <<SetUp!Command("UNLOCK_KEYBOARD"), SetUp!Command("UNLOCK_MOUSE")>>
         \/ p \in {"enable", "answer"} /\ td = <<Asks(p, script)>> /\ (p = "answer" => script # <<>>)
         \/ p = "reboot" /\ in = <<>> /\ td = <<SetUp!Command("REBOOT")>>
<1>1. /\ Question("configure") = "READ_CONFIGURATION" /\ Question("reconfigure") = "READ_CONFIGURATION"
      /\ Question("mouse") = "READ_CONFIGURATION" /\ Question("mouse port") = "TEST_MOUSE_PORT"
      /\ Question("keyboard port") = "TEST_KEYBOARD_PORT"
      /\ SetUp!TestKeyboardPort = <<SetUp!Command(Question("keyboard port"))>>
  BY DEF Question, SetUp!TestKeyboardPort
<1>2. \A q \in {"configure", "reconfigure", "mouse", "mouse port", "keyboard port", "test"} : q \in Questions
  BY DEF Questions
<1>3. /\ SetUp!Command(Question(p)) \in WriteType /\ SetUp!Command("UNLOCK_MOUSE") \in WriteType
      /\ SetUp!Command("LOCK_MOUSE") \in WriteType /\ SetUp!Command("READ_CONFIGURATION") \in WriteType
  BY WordsKnown, ByteTypes, Zenon
<1>4. /\ p = "enable" => Asks(p, script) = SetUp!Data(SetUp!Byte("ENABLE_SCANNING"))
      /\ p = "answer" => Asks(p, script) = SetUp!Data(SetUp!Byte(Head(script).name))
  BY DEF Asks, Questions
<1>5. ASSUME NEW flags \in SUBSET SetUp!Flags
      PROVE  /\ SetUp!WriteConfiguration(flags) =
                  <<SetUp!Command("WRITE_CONFIGURATION"), SetUp!Data(SetUp!ConfigByte(flags))>>
             /\ SetUp!WriteConfiguration(flags) \o <<SetUp!Command(Question(p))>> =
                  <<SetUp!Command("WRITE_CONFIGURATION"), SetUp!Data(SetUp!ConfigByte(flags)), SetUp!Command(Question(p))>>
             /\ SetUp!WriteConfiguration(flags) \o <<SetUp!Command("UNLOCK_MOUSE"), SetUp!Command("READ_CONFIGURATION")>> =
                  <<SetUp!Command("WRITE_CONFIGURATION"), SetUp!Data(SetUp!ConfigByte(flags)),
                    SetUp!Command("UNLOCK_MOUSE"), SetUp!Command("READ_CONFIGURATION")>>
  BY <1>3, WritesSpelled, Zenon
<1>6. /\ p = "keyboard port" => <<>> \o SetUp!TestKeyboardPort = <<SetUp!Command(Question(p))>>
      /\ p = "keyboard port" =>
           <<SetUp!Command("LOCK_MOUSE")>> \o SetUp!TestKeyboardPort
             = <<SetUp!Command("LOCK_MOUSE"), SetUp!Command(Question(p))>>
  <2>1. {} \in SUBSET SetUp!Flags
    OBVIOUS
  <2>2. QED
    BY <1>1, <1>3, <2>1, WritesSpelled, Zenon
<1>7. CASE p \in {"keyboard flush", "no keyboard", "idle", "reboot flush", "call"} /\ td = <<>>
  BY <1>7, Zenon
<1>8. CASE p \in {"configure", "reconfigure"} /\ td = <<SetUp!Command("READ_CONFIGURATION")>>
  BY <1>1, <1>2, <1>8, Zenon
<1>9. ASSUME NEW flags \in SUBSET SetUp!Flags,
             p \in {"no controller", "call"} /\ td = SetUp!WriteConfiguration(flags)
      PROVE  p \in {"no controller", "call"}
             /\ td = <<SetUp!Command("WRITE_CONFIGURATION"), SetUp!Data(SetUp!ConfigByte(flags))>>
  BY <1>5, <1>9, Zenon
<1>10. ASSUME NEW flags \in SUBSET SetUp!Flags, p \in {"test", "keyboard port"},
              td = SetUp!WriteConfiguration(flags) \o <<SetUp!Command(Question(p))>>
       PROVE  p \in Questions
              /\ td = <<SetUp!Command("WRITE_CONFIGURATION"), SetUp!Data(SetUp!ConfigByte(flags)), SetUp!Command(Question(p))>>
  BY <1>2, <1>5, <1>10, Zenon
<1>11. ASSUME NEW flags \in SUBSET SetUp!Flags, p = "mouse",
              td = SetUp!WriteConfiguration(flags)
                     \o <<SetUp!Command("UNLOCK_MOUSE"), SetUp!Command("READ_CONFIGURATION")>>
       PROVE  p \in Questions
              /\ td = <<SetUp!Command("WRITE_CONFIGURATION"), SetUp!Data(SetUp!ConfigByte(flags)),
                        SetUp!Command("UNLOCK_MOUSE"), SetUp!Command(Question(p))>>
  BY <1>1, <1>2, <1>5, <1>11, Zenon
<1>12. CASE p = "keyboard port" /\ td = <<SetUp!Command("LOCK_MOUSE")>> \o SetUp!TestKeyboardPort
  BY <1>2, <1>6, <1>12, Zenon
<1>13. CASE p = "keyboard port" /\ td = <<>> \o SetUp!TestKeyboardPort
  BY <1>2, <1>6, <1>13, Zenon
<1>14. CASE p = "mouse port" /\ td = <<SetUp!Command("TEST_MOUSE_PORT")>>
  BY <1>1, <1>2, <1>14, Zenon
<1>15. CASE p = "controller ready" /\ td = SetUp!UnlockInput
  BY <1>15, Zenon DEF SetUp!UnlockInput
<1>16. CASE p = "enable" /\ td = <<SetUp!Data(SetUp!Byte("ENABLE_SCANNING"))>>
  <2>1. p # "answer"
    BY <1>16
  <2>2. QED
    BY <1>4, <1>16, <2>1, Zenon
<1>17. CASE p = "answer" /\ script # <<>> /\ td = <<SetUp!Data(SetUp!Byte(Head(script).name))>>
  BY <1>4, <1>17, Zenon
<1>18. CASE p = "reboot" /\ in = <<>> /\ td = <<SetUp!Command("REBOOT")>>
  BY <1>18, Zenon
<1>19. QED
  BY <1>7, <1>8, <1>9, <1>10, <1>11, <1>12, <1>13, <1>14, <1>15, <1>16, <1>17, <1>18, Zenon DEF Sent

(* The name of what the driver asks. *)
LEMMA AsksFacts ==
  ASSUME NEW p \in Waits, NEW script \in Remains, p = "answer" => Sends(script)
  PROVE  /\ Asks(p, script) \in WriteType /\ ~IsConfiguration(Asks(p, script)) /\ ~Announces(Asks(p, script))
         /\ p \in Questions => Asks(p, script) = SetUp!Command(Question(p)) /\ Question(p) \in Words
         /\ p = "enable" => Asks(p, script) = SetUp!Data(SetUp!Byte("ENABLE_SCANNING"))
         /\ p = "answer" => Asks(p, script) = SetUp!Data(SetUp!Byte(Head(script).name))
                            /\ Head(script).name \in KeyboardCommands
<1>1. CASE p \in Questions
  <2>1. Asks(p, script) = SetUp!Command(Question(p)) /\ p # "enable" /\ p # "answer"
    BY <1>1 DEF Asks, Questions
  <2>2. Question(p) \in {"TEST_CONTROLLER", "TEST_KEYBOARD_PORT", "TEST_MOUSE_PORT", "READ_CONFIGURATION"}
    BY DEF Question
  <2>3. Question(p) \in Words /\ Question(p) # "WRITE_CONFIGURATION"
    BY <2>2 DEF Words
  <2>4. Asks(p, script) \in WriteType
    BY <2>1, <2>3, ByteTypes, Zenon
  <2>5. Asks(p, script).port = "command" /\ Asks(p, script).byte.name = Question(p)
    BY <2>1, <2>3, WriteFacts, Zenon
  <2>6. ~IsConfiguration(Asks(p, script)) /\ ~Announces(Asks(p, script))
    BY <2>3, <2>5 DEF IsConfiguration, Announces
  <2>7. QED
    BY <2>1, <2>3, <2>4, <2>6
<1>2. CASE p = "enable"
  <2>1. Asks(p, script) = SetUp!Data(SetUp!Byte("ENABLE_SCANNING")) /\ p \notin Questions /\ p # "answer"
    BY <1>2 DEF Asks, Questions
  <2>2. "ENABLE_SCANNING" \in Words
    BY DEF Words
  <2>3. Asks(p, script) \in WriteType /\ Asks(p, script).port = "data" /\ Asks(p, script).byte.name = "ENABLE_SCANNING"
    BY <2>1, <2>2, ByteTypes, WriteFacts, ZenonT(60)
  <2>4. QED
    BY <2>1, <2>3 DEF IsConfiguration, Announces
<1>3. CASE p = "answer"
  <2>1. Asks(p, script) = SetUp!Data(SetUp!Byte(Head(script).name)) /\ p \notin Questions /\ p # "enable"
    BY <1>3 DEF Asks, Questions
  <2>2. Head(script).name \in KeyboardCommands
    BY <1>3, CallsAreSound, Zenon DEF SoundCall, Sends
  <2>3. Head(script).name \in Words /\ Head(script).name # "configuration"
    BY <2>2 DEF Words, KeyboardCommands
  <2>4. Asks(p, script) \in WriteType /\ Asks(p, script).port = "data" /\ Asks(p, script).byte.name = Head(script).name
    BY <2>1, <2>3, ByteTypes, WriteFacts, ZenonT(60)
  <2>5. QED
    BY <2>1, <2>2, <2>3, <2>4 DEF IsConfiguration, Announces
<1>4. QED
  BY <1>1, <1>2, <1>3 DEF Waits

(* What is sent at a time begins afresh. *)
Fresh(td) == \A k \in 1 .. Len(td) :
  /\ Announces(td[k]) => k < Len(td) /\ IsConfiguration(td[k + 1])
  /\ IsConfiguration(td[k]) => k > 1 /\ Announces(td[k - 1])

(* What the driver writes before it goes to a place: configurations behind *)
(* their commands, and what it waits for at the end.                       *)
LEMMA SentIsFresh ==
  ASSUME NEW p \in Places, NEW td, NEW script \in Remains, NEW in, Sent(p, td, script, in),
         p = "answer" => Sends(script)
  PROVE  /\ Fresh(td) /\ (td = <<>> => p \notin Waits)
         /\ p \in Waits => EndsWith(td, Asks(p, script))
         /\ p \notin Waits \cup {"reboot"} => AllUnanswered(td)
         /\ p = "reboot" => in = <<>> /\ Len(td) = 1
<1> DEFINE wc == SetUp!Command("WRITE_CONFIGURATION")
           um == SetUp!Command("UNLOCK_MOUSE")  uk == SetUp!Command("UNLOCK_KEYBOARD")
           lm == SetUp!Command("LOCK_MOUSE")  rb == SetUp!Command("REBOOT")
           a == Asks(p, script)
           Plain(w) == ~Announces(w) /\ ~IsConfiguration(w)
<1>1. /\ "WRITE_CONFIGURATION" \in Words /\ "UNLOCK_MOUSE" \in Words /\ "UNLOCK_KEYBOARD" \in Words
      /\ "LOCK_MOUSE" \in Words /\ "REBOOT" \in Words
  BY DEF Words
<1>2. /\ wc.port = "command" /\ wc.byte.name = "WRITE_CONFIGURATION"
      /\ um.port = "command" /\ um.byte.name = "UNLOCK_MOUSE"
      /\ uk.port = "command" /\ uk.byte.name = "UNLOCK_KEYBOARD"
      /\ lm.port = "command" /\ lm.byte.name = "LOCK_MOUSE"
      /\ rb.port = "command" /\ rb.byte.name = "REBOOT"
  BY <1>1, WriteFacts, Zenon
<1>3. Announces(wc) /\ ~IsConfiguration(wc) /\ Unanswered(wc)
  BY <1>2 DEF Announces, IsConfiguration, Unanswered, Changes
<1>4. Plain(um) /\ Plain(uk) /\ Plain(lm) /\ Plain(rb) /\ Unanswered(um) /\ Unanswered(uk) /\ Unanswered(lm)
  BY <1>2 DEF Announces, IsConfiguration, Unanswered, Changes
<1>5. \A flags : LET d == SetUp!Data(SetUp!ConfigByte(flags)) IN IsConfiguration(d) /\ ~Announces(d) /\ Unanswered(d)
  <2> TAKE flags
  <2> DEFINE d == SetUp!Data(SetUp!ConfigByte(flags))
  <2>1. d.port = "data" /\ d.byte.name = "configuration"
    BY WriteFacts, Zenon
  <2> HIDE DEF d
  <2>2. IsConfiguration(d) /\ ~Announces(d) /\ Unanswered(d)
    BY <2>1 DEF Announces, IsConfiguration, Unanswered
  <2>3. QED
    BY <2>2 DEF d
<1>6. p \in Waits => Plain(a)
  BY AsksFacts, Zenon
<1>7. p \in Questions => a = SetUp!Command(Question(p))
  BY DEF Asks
<1>8. Questions \subseteq Waits
  BY DEF Waits
<1> HIDE DEF wc, um, uk, lm, rb, a
<1>9. ASSUME NEW x, NEW y PROVE Plain(x) => Fresh(<<x>>) /\ EndsWith(<<x>>, x) /\ Len(<<x>>) = 1 /\ <<x>> # <<>>
  BY DEF Fresh, EndsWith
<1>10. ASSUME NEW x, NEW y PROVE Plain(x) /\ Plain(y) => Fresh(<<x, y>>)
  BY DEF Fresh
<1>11. ASSUME NEW x, NEW y
       PROVE  /\ Unanswered(x) => EndsWith(<<x, y>>, y) /\ <<x, y>> # <<>>
              /\ Unanswered(x) /\ Unanswered(y) => AllUnanswered(<<x, y>>)
  BY DEF EndsWith, AllUnanswered
<1>12. ASSUME NEW d, IsConfiguration(d), ~Announces(d), Unanswered(d)
       PROVE  /\ Fresh(<<wc, d>>) /\ AllUnanswered(<<wc, d>>) /\ <<wc, d>> # <<>>
              /\ \A y : Plain(y) => Fresh(<<wc, d, y>>) /\ EndsWith(<<wc, d, y>>, y) /\ <<wc, d, y>> # <<>>
              /\ \A y : Plain(y) => Fresh(<<wc, d, um, y>>) /\ EndsWith(<<wc, d, um, y>>, y) /\ <<wc, d, um, y>> # <<>>
  <2>1. Fresh(<<wc, d>>) /\ AllUnanswered(<<wc, d>>) /\ <<wc, d>> # <<>>
    BY <1>3, <1>12 DEF Fresh, AllUnanswered
  <2>2. ASSUME NEW y, Plain(y) PROVE Fresh(<<wc, d, y>>) /\ EndsWith(<<wc, d, y>>, y) /\ <<wc, d, y>> # <<>>
    BY <1>3, <1>12, <2>2 DEF Fresh, EndsWith
  <2>3. ASSUME NEW y, Plain(y)
        PROVE  Fresh(<<wc, d, um, y>>) /\ EndsWith(<<wc, d, um, y>>, y) /\ <<wc, d, um, y>> # <<>>
    BY <1>3, <1>4, <1>12, <2>3 DEF Fresh, EndsWith
  <2>4. QED
    BY <2>1, <2>2, <2>3
<1>13. CASE p \in {"keyboard flush", "no keyboard", "idle", "reboot flush", "call"} /\ td = <<>>
  <2>1. Fresh(<<>>) /\ AllUnanswered(<<>>)
    BY DEF Fresh, AllUnanswered
  <2>2. p \notin Waits /\ p # "reboot"
    BY <1>13 DEF Waits, Questions
  <2>3. QED
    BY <1>13, <2>1, <2>2, Zenon
<1>14. CASE p \in Waits /\ td = <<a>>
  <2>1. p # "reboot"
    BY <1>14 DEF Waits, Questions
  <2>2. QED
    BY <1>6, <1>9, <1>14, <2>1, Zenon DEF a
<1>15. ASSUME NEW flags \in SUBSET SetUp!Flags, p \in {"no controller", "call"},
              td = <<wc, SetUp!Data(SetUp!ConfigByte(flags))>>
       PROVE  Fresh(td) /\ AllUnanswered(td) /\ td # <<>> /\ p \notin Waits /\ p # "reboot"
  <2>1. p \notin Waits /\ p # "reboot"
    BY <1>15 DEF Waits, Questions
  <2>2. QED
    BY <1>5, <1>12, <1>15, <2>1, Zenon
<1>16. ASSUME NEW flags \in SUBSET SetUp!Flags, p \in Questions,
              td = <<wc, SetUp!Data(SetUp!ConfigByte(flags)), a>> \/ td = <<wc, SetUp!Data(SetUp!ConfigByte(flags)), um, a>>
       PROVE  Fresh(td) /\ EndsWith(td, a) /\ td # <<>> /\ p \in Waits /\ p # "reboot"
  <2>1. p # "reboot"
    BY <1>16 DEF Questions
  <2>2. QED
    BY <1>5, <1>6, <1>8, <1>12, <1>16, <2>1, Zenon
<1>17. CASE p \in Questions /\ td = <<lm, a>>
  <2>1. p # "reboot"
    BY <1>17 DEF Questions
  <2>2. QED
    BY <1>4, <1>6, <1>8, <1>10, <1>11, <1>17, <2>1, Zenon DEF a
<1>18. CASE p = "controller ready" /\ td = <<uk, um>>
  <2>1. p \notin Waits /\ p # "reboot"
    BY <1>18 DEF Waits, Questions
  <2>2. QED
    BY <1>4, <1>10, <1>11, <1>18, <2>1, Zenon
<1>19. CASE p = "reboot" /\ in = <<>> /\ td = <<rb>>
  <2>1. p \notin Waits
    BY <1>19 DEF Waits, Questions
  <2>2. QED
    BY <1>4, <1>9, <1>19, <2>1, Zenon
<1>20. QED
  <2>1. \/ p \in {"keyboard flush", "no keyboard", "idle", "reboot flush", "call"} /\ td = <<>>
        \/ p \in Waits /\ td = <<a>>
        \/ \E flags \in SUBSET SetUp!Flags :
             \/ p \in {"no controller", "call"} /\ td = <<wc, SetUp!Data(SetUp!ConfigByte(flags))>>
             \/ p \in Questions /\ td = <<wc, SetUp!Data(SetUp!ConfigByte(flags)), a>>
             \/ p \in Questions /\ td = <<wc, SetUp!Data(SetUp!ConfigByte(flags)), um, a>>
        \/ p \in Questions /\ td = <<lm, a>>
        \/ p = "controller ready" /\ td = <<uk, um>>
        \/ p = "reboot" /\ in = <<>> /\ td = <<rb>>
    <3>1. p \in {"enable", "answer"} => p \in Waits
      BY DEF Waits
    <3>2. QED
      BY <1>7, <1>8, <3>1, SentSpelled, Zenon DEF a, wc, um, uk, lm, rb
  <2>2. QED
    BY <2>1, <1>13, <1>14, <1>15, <1>16, <1>17, <1>18, <1>19, Zenon DEF a

(* A write moves the first of what is to be written into the register. *)
LEMMA WriteMoves ==
  ASSUME SetUpTypes, SetUp!Write
  PROVE  /\ todo # <<>> /\ Len(input') = 1 /\ input'[1] = todo[1] /\ Len(todo') = Len(todo) - 1 /\ input' = <<todo[1]>>
         /\ \A k \in 1 .. Len(todo') : todo'[k] = todo[k + 1]
         /\ todo[1].port = "data" => input = <<>>
         /\ todo' \in Seq(WriteType) /\ input' # <<>> /\ Len(todo) \in Nat /\ Len(todo) > 0
         /\ UNCHANGED <<hardware, output, expects, config, keyboard, queue, handler, at, call, calls, keys, refusals>>
<1>1. todo # <<>> /\ input' = <<Head(todo)>> /\ todo' = Tail(todo) /\ SetUp!MayWrite(Head(todo))
  BY Zenon DEF SetUp!Write
<1>2. todo \in Seq(WriteType)
  BY DEF SetUpTypes
<1>3. Head(todo) = todo[1] /\ Len(todo) \in Nat /\ Len(todo) > 0
  BY <1>1, <1>2
<1>4. UNCHANGED <<hardware, output, expects, config, keyboard, queue, handler, at, call, calls, keys, refusals>>
  BY Zenon DEF SetUp!Write
<1>5. Len(todo') = Len(todo) - 1 /\ (\A k \in 1 .. Len(todo') : todo'[k] = todo[k + 1]) /\ todo' \in Seq(WriteType)
  BY <1>1, <1>2
<1>6. Len(input') = 1 /\ input'[1] = todo[1] /\ input' = <<todo[1]>> /\ input' # <<>>
  BY <1>1, <1>3
<1>7. todo[1].port = "data" => input = <<>>
  BY <1>1, <1>3 DEF SetUp!MayWrite
<1>8. QED
  BY <1>1, <1>3, <1>4, <1>5, <1>6, <1>7

(* What a device takes leaves the register empty. *)
LEMMA DeviceMoves ==
  ASSUME SetUpTypes, DeviceStep
  PROVE  \/ UNCHANGED <<input, expects>>
         \/ /\ input # <<>> /\ Len(input) = 1 /\ Head(input) = input[1] /\ input' = <<>>
            /\ \/ input[1].port = "command" /\ SetUp!TakeCommand
                  /\ expects' = (IF input[1].byte.name = "WRITE_CONFIGURATION" THEN "configuration" ELSE "keyboard")
               \/ input[1].port = "data" /\ SetUp!TakeConfiguration /\ expects = "configuration" /\ expects' = "keyboard"
               \/ input[1].port = "data" /\ SetUp!TakeData /\ expects = "keyboard" /\ expects' = "keyboard"
<1>1. input # <<>> => Len(input) = 1 /\ Head(input) = input[1]
  <2>1. input \in Seq(WriteType) /\ Len(input) <= 1
    BY DEF SetUpTypes
  <2>2. input # <<>> => Len(input) \in Nat /\ Len(input) # 0
    BY <2>1, EmptySeq
  <2>3. input # <<>> => Len(input) = 1
    BY <2>1, <2>2
  <2>4. Head(input) = input[1]
    BY <2>1
  <2>5. QED
    BY <2>3, <2>4
<1>2. CASE SetUp!TakeCommand
  BY <1>1, <1>2, Zenon DEF SetUp!TakeCommand
<1>3. CASE SetUp!TakeConfiguration
  BY <1>1, <1>3, Zenon DEF SetUp!TakeConfiguration
<1>4. CASE SetUp!TakeData
  BY <1>1, <1>4, Zenon DEF SetUp!TakeData
<1>5. CASE SetUp!PressKey \/ SetUp!Deliver \/ SetUp!IRQHandler
  BY <1>5, Zenon DEF SetUp!PressKey, SetUp!Deliver, SetUp!IRQHandler, SetUp!controllerVars
<1>6. QED
  BY <1>2, <1>3, <1>4, <1>5, Zenon DEF DeviceStep

(* Written when all before it has been, it is in order. *)
LEMMA FreshIsOrderly ==
  ASSUME NEW in, NEW ex, NEW td, Orderly(<<>>, in, ex), Fresh(td)
  PROVE  Orderly(td, in, ex)
<1>1. /\ in # <<>> => ~Announces(in[1])
      /\ in # <<>> /\ in[1].port = "data" => (IsConfiguration(in[1]) <=> ex = "configuration")
      /\ in = <<>> => ex # "configuration"
  BY DEF Orderly
<1>2. QED
  BY <1>1, Zenon DEF Orderly, Fresh

(* A configuration follows its command at every step, also if bytes are    *)
(* lost.                                                                   *)
LEMMA OrderlyStep ==
  SetUpTypes /\ AtRest /\ CallInv /\ Orderly(todo, input, expects) /\ SetUp!Next => Orderly(todo, input, expects)'
<1> SUFFICES ASSUME SetUpTypes, AtRest, CallInv, Orderly(todo, input, expects), SetUp!Next
             PROVE  Orderly(todo', input', expects')
  BY Zenon
<1>1. CASE DriverStep
  <2>1. GoesOn /\ CallInv' /\ AtRest' /\ SetUpTypes'
    BY <1>1, DriverGoesOn, CallInvStep, AtRestStep, SetUpTypesStep
  <2>2. input' = input /\ expects' = expects /\ todo = <<>>
    BY <2>1, Zenon DEF GoesOn
  <2>3. CASE todo' = todo
    BY <2>2, <2>3
  <2>4. CASE Sent(at', todo', call'.script, input)
    <3>1. at' = "answer" => Sends(call'.script)
      BY <2>1, Zenon DEF AtRest, Sends
    <3>2. at' \in Places /\ call'.script \in Remains
      BY <2>1, Zenon DEF SetUpTypes, CallInv
    <3>3. Fresh(todo')
      BY <2>4, <3>1, <3>2, SentIsFresh, Zenon
    <3>4. QED
      BY <2>2, <3>3, FreshIsOrderly
  <2>5. QED
    BY <2>1, <2>3, <2>4, Zenon DEF GoesOn
<1>2. CASE SetUp!Write
  <2> DEFINE n == Len(todo)
             ti == todo'
             in == input'
             ex == expects
  <2>1. /\ n \in Nat /\ n > 0 /\ todo # <<>> /\ in # <<>> /\ in[1] = todo[1] /\ Len(ti) = n - 1
        /\ \A k \in 1 .. Len(ti) : ti[k] = todo[k + 1]
        /\ todo[1].port = "data" => input = <<>>
        /\ expects' = ex /\ ti \in Seq(WriteType)
    BY <1>2, WriteMoves
  <2>2. ti # <<>> <=> n > 1
    BY <2>1, EmptySeq
  <2>3. \A k \in 1 .. n :
          /\ Announces(todo[k]) => k < n /\ IsConfiguration(todo[k + 1])
          /\ k > 1 /\ IsConfiguration(todo[k]) => Announces(todo[k - 1])
    BY DEF Orderly
  <2>4. IsConfiguration(todo[1]) => ex = "configuration"
    <3>1. IsConfiguration(todo[1]) => input = <<>>
      BY <2>1 DEF IsConfiguration
    <3>2. 1 \in 1 .. n /\ ~(1 > 1)
      BY <2>1
    <3>3. QED
      BY <3>1, <3>2 DEF Orderly
  <2>5. todo[1].port = "data" /\ ~IsConfiguration(todo[1]) => ex # "configuration"
    BY <2>1 DEF Orderly
  <2> HIDE DEF n, ti, in, ex
  <2>6. \A k \in 1 .. Len(ti) :
          /\ Announces(ti[k]) => k < Len(ti) /\ IsConfiguration(ti[k + 1])
          /\ IsConfiguration(ti[k]) => IF k > 1 THEN Announces(ti[k - 1])
               ELSE IF in = <<>> THEN ex = "configuration" ELSE Announces(in[1])
    <3> TAKE k \in 1 .. Len(ti)
    <3>1. k + 1 \in 1 .. n /\ ti[k] = todo[k + 1] /\ k + 1 > 1 /\ (k + 1) - 1 = k
      BY <2>1
    <3>2. Announces(todo[k + 1]) => k + 1 < n /\ IsConfiguration(todo[(k + 1) + 1])
      BY <3>1, <2>3
    <3>3. IsConfiguration(todo[k + 1]) => Announces(todo[k])
      <4>1. IsConfiguration(todo[k + 1]) => Announces(todo[(k + 1) - 1])
        BY <3>1, <2>3, Zenon
      <4>2. QED
        BY <3>1, <4>1
    <3>4. k + 1 < n => k < Len(ti) /\ k + 1 \in 1 .. Len(ti) /\ ti[k + 1] = todo[(k + 1) + 1]
      BY <2>1
    <3>5. k > 1 => ti[k - 1] = todo[k]
      <4>1. k > 1 => k - 1 \in 1 .. Len(ti) /\ (k - 1) + 1 = k
        BY <2>1
      <4>2. QED
        BY <2>1, <4>1
    <3>6. ~(k > 1) => todo[k] = in[1]
      <4>1. ~(k > 1) => k = 1
        BY <2>1
      <4>2. QED
        BY <2>1, <4>1
    <3>7. QED
      BY <2>1, <3>1, <3>2, <3>3, <3>4, <3>5, <3>6, Zenon
  <2>7. Announces(in[1]) => ti # <<>> /\ IsConfiguration(ti[1])
    <3>1. 1 \in 1 .. n /\ (1 < n => 1 \in 1 .. Len(ti)) /\ 1 + 1 = 2
      BY <2>1
    <3>2. Announces(todo[1]) => 1 < n /\ IsConfiguration(todo[1 + 1])
      BY <3>1, <2>3, Zenon
    <3>3. 1 < n => ti[1] = todo[1 + 1]
      BY <3>1, <2>1
    <3>4. QED
      BY <2>1, <2>2, <3>2, <3>3
  <2>8. Orderly(ti, in, ex)
    BY <2>1, <2>4, <2>5, <2>6, <2>7, Zenon DEF Orderly
  <2>9. QED
    BY <2>1, <2>8 DEF ti, in, ex
<1>3. CASE DeviceStep
  <2>1. todo' = todo
    BY <1>3, DeviceLeavesDriver
  <2>2. CASE UNCHANGED <<input, expects>>
    BY <2>1, <2>2
  <2>3. ASSUME input # <<>>, input' = <<>>, input[1].port = "command",
               expects' = (IF input[1].byte.name = "WRITE_CONFIGURATION" THEN "configuration" ELSE "keyboard")
        PROVE  Orderly(todo', input', expects')
    <3>1. Announces(input[1]) <=> expects' = "configuration"
      BY <2>3 DEF Announces
    <3>2. QED
      BY <2>1, <2>3, <3>1, Zenon DEF Orderly
  <2>4. ASSUME input # <<>>, input' = <<>>, input[1].port = "data", expects' = "keyboard"
        PROVE  Orderly(todo', input', expects')
    <3>1. ~Announces(input[1]) /\ expects' # "configuration"
      BY <2>4 DEF Announces
    <3>2. QED
      BY <2>1, <2>4, <3>1, Zenon DEF Orderly
  <2>5. QED
    BY <1>3, <2>2, <2>3, <2>4, DeviceMoves, Zenon
<1>4. QED
  BY <1>1, <1>2, <1>3, StepsOfSetUp

(* It does in the beginning, with two commands to write. *)
LEMMA OrderlyInit == SetUp!Init => Orderly(todo, input, expects)
<1> SUFFICES ASSUME SetUp!Init PROVE Orderly(todo, input, expects)
  OBVIOUS
<1>1. input = <<>> /\ expects = "keyboard"
  BY DEF SetUp!Init
<1>2. Fresh(todo)
  <2>1. CASE hardware.mentioned
    <3> DEFINE a == SetUp!Command("LOCK_KEYBOARD")  b == SetUp!Command("LOCK_MOUSE")
    <3>1. "LOCK_KEYBOARD" \in Words /\ "LOCK_MOUSE" \in Words
      BY DEF Words
    <3>2. a.byte.name = "LOCK_KEYBOARD" /\ b.byte.name = "LOCK_MOUSE" /\ a.port = "command" /\ b.port = "command"
      BY <3>1, WriteFacts, Zenon
    <3>3. todo = <<a, b>>
      BY <2>1, Zenon DEF SetUp!Init, SetUp!Start, SetUp!LockInput
    <3> HIDE DEF a, b
    <3>4. ~Announces(a) /\ ~Announces(b) /\ ~IsConfiguration(a) /\ ~IsConfiguration(b)
      BY <3>2 DEF Announces, IsConfiguration
    <3>5. Fresh(<<a, b>>)
      BY <3>4 DEF Fresh
    <3>6. QED
      BY <3>3, <3>5
  <2>2. CASE ~hardware.mentioned
    <3>1. todo = <<>>
      BY <2>2, Zenon DEF SetUp!Init, SetUp!Start
    <3>2. Fresh(<<>>)
      BY DEF Fresh
    <3>3. QED
      BY <3>1, <3>2
  <2>3. QED
    BY <2>1, <2>2
<1>3. Orderly(<<>>, input, expects)
  BY <1>1 DEF Orderly
<1>4. QED
  BY <1>2, <1>3, FreshIsOrderly

(* The set-up begins between calls. *)
LEMMA AtRestInit == SetUp!Init => AtRest
<1> SUFFICES ASSUME SetUp!Init PROVE AtRest
  OBVIOUS
<1>1. at = "flush" \/ (at = "no controller" /\ todo = <<>>)
  BY Zenon DEF SetUp!Init, SetUp!Start
<1>2. call.script = <<>> /\ call.finally = <<>>
  BY DEF SetUp!Init, SetUp!NoCall
<1>3. at \notin {"keyboard flush", "idle", "no keyboard", "reboot flush"} /\ at # "answer"
  BY <1>1
<1>4. QED
  BY <1>2, <1>3, Zenon DEF AtRest

(* The set-up begins with writing what is not answered. *)
LEMMA ProgramInit == SetUp!Init => Program(at, call.script, todo, input)
<1> SUFFICES ASSUME SetUp!Init PROVE Program(at, call.script, todo, input)
  OBVIOUS
<1>1. at \in {"flush", "no controller"}
  BY Zenon DEF SetUp!Init, SetUp!Start
<1>2. at \notin Waits /\ at # "reboot"
  BY <1>1 DEF Waits, Questions
<1>3. AllUnanswered(todo)
  <2> DEFINE a == SetUp!Command("LOCK_KEYBOARD")  b == SetUp!Command("LOCK_MOUSE")
  <2>1. "LOCK_KEYBOARD" \in Words /\ "LOCK_MOUSE" \in Words
    BY DEF Words
  <2>2. a.byte.name = "LOCK_KEYBOARD" /\ b.byte.name = "LOCK_MOUSE" /\ a.port = "command" /\ b.port = "command"
    BY <2>1, WriteFacts, Zenon
  <2>3. todo = <<a, b>> \/ todo = <<>>
    BY Zenon DEF SetUp!Init, SetUp!Start, SetUp!LockInput
  <2> HIDE DEF a, b
  <2>4. Unanswered(a) /\ Unanswered(b)
    BY <2>2 DEF Unanswered, Changes
  <2>5. QED
    BY <2>3, <2>4 DEF AllUnanswered
<1>4. QED
  BY <1>2, <1>3 DEF Program

(* Writing leaves less to write. *)
LEMMA WritingGoesOn ==
  ASSUME NEW td \in Seq(WriteType), td # <<>>, NEW rest \in Seq(WriteType), Len(rest) = Len(td) - 1,
         \A k \in 1 .. Len(rest) : rest[k] = td[k + 1]
  PROVE  /\ AllUnanswered(td) => AllUnanswered(rest) /\ AllUnanswered(<<td[1]>>)
         /\ \A w : EndsWith(td, w) =>
              IF rest = <<>> THEN td[1] = w ELSE EndsWith(rest, w) /\ AllUnanswered(<<td[1]>>)
<1>1. Len(td) \in Nat /\ Len(td) > 0 /\ Len(rest) \in Nat /\ (rest = <<>> <=> Len(td) = 1)
  BY EmptySeq
<1>2. ASSUME Unanswered(td[1]) PROVE AllUnanswered(<<td[1]>>)
  BY <1>2 DEF AllUnanswered
<1>3. ASSUME AllUnanswered(td) PROVE AllUnanswered(rest) /\ AllUnanswered(<<td[1]>>)
  <2>1. Unanswered(td[1])
    BY <1>1, <1>3 DEF AllUnanswered
  <2>2. ASSUME NEW k \in 1 .. Len(rest) PROVE Unanswered(rest[k])
    BY <1>1, <1>3 DEF AllUnanswered
  <2>3. QED
    BY <1>2, <2>1, <2>2 DEF AllUnanswered
<1>4. ASSUME NEW w, EndsWith(td, w), rest # <<>> PROVE EndsWith(rest, w) /\ AllUnanswered(<<td[1]>>)
  <2>1. td[Len(td)] = w /\ (\A k \in 1 .. Len(td) - 1 : Unanswered(td[k]))
    BY <1>4 DEF EndsWith
  <2>2. rest[Len(rest)] = w
    BY <1>1, <1>4, <2>1
  <2>3. Unanswered(td[1])
    BY <1>1, <1>4, <2>1
  <2>4. ASSUME NEW k \in 1 .. Len(rest) - 1 PROVE Unanswered(rest[k])
    BY <1>1, <2>1
  <2>5. QED
    BY <1>2, <1>4, <2>2, <2>3, <2>4 DEF EndsWith
<1>5. ASSUME NEW w, EndsWith(td, w), rest = <<>> PROVE td[1] = w
  BY <1>1, <1>5 DEF EndsWith
<1>6. QED
  BY <1>3, <1>4, <1>5

(* The driver waits only where it has written what is answered. *)
LEMMA ProgramStep ==
  SetUpTypes /\ AtRest /\ CallInv /\ Program(at, call.script, todo, input) /\ SetUp!Next
    => Program(at, call.script, todo, input)'
<1> SUFFICES ASSUME SetUpTypes, AtRest, CallInv, Program(at, call.script, todo, input), SetUp!Next
             PROVE  Program(at', call'.script, todo', input')
  BY Zenon
<1>1. CASE DriverStep
  <2>1. GoesOn /\ CallMoves /\ CallInv' /\ AtRest' /\ SetUpTypes'
    BY <1>1, DriverGoesOn, DriverCallMoves, CallInvStep, AtRestStep, SetUpTypesStep
  <2>2. input' = input /\ todo = <<>>
    BY <2>1, Zenon DEF GoesOn
  <2>3. CASE at' = at /\ todo' = todo
    <3>1. CASE call'.script = call.script
      BY <2>2, <2>3, <3>1
    <3>2. CASE call'.script # call.script
      <4>1. at # "answer"
        BY <2>1, <2>3, <3>2 DEF CallMoves, InCall
      <4>2. Asks(at, call'.script) = Asks(at, call.script) \/ at \notin Waits
        BY <4>1, Zenon DEF Asks, Waits
      <4>3. QED
        BY <2>2, <2>3, <4>2, Zenon DEF Program
    <3>3. QED
      BY <3>1, <3>2
  <2>4. CASE Sent(at', todo', call'.script, input)
    <3>1. at' = "answer" => Sends(call'.script)
      BY <2>1, Zenon DEF AtRest, Sends
    <3>2. at' \in Places /\ call'.script \in Remains
      BY <2>1, Zenon DEF SetUpTypes, CallInv
    <3>3. /\ todo' = <<>> => at' \notin Waits
          /\ at' \in Waits => EndsWith(todo', Asks(at', call'.script))
          /\ at' \notin Waits \cup {"reboot"} => AllUnanswered(todo')
          /\ at' = "reboot" => input = <<>> /\ Len(todo') = 1
      BY <2>4, <3>1, <3>2, SentIsFresh, Zenon
    <3>4. QED
      BY <2>2, <3>3, Zenon DEF Program, Pends
  <2>5. QED
    BY <2>1, <2>3, <2>4, Zenon DEF GoesOn
<1>2. CASE SetUp!Write
  <2>1. /\ todo # <<>> /\ Len(todo') = Len(todo) - 1 /\ input' = <<todo[1]>> /\ at' = at /\ call' = call
        /\ \A k \in 1 .. Len(todo') : todo'[k] = todo[k + 1]
        /\ todo' \in Seq(WriteType)
    BY <1>2, WriteMoves
  <2>2. todo \in Seq(WriteType)
    BY DEF SetUpTypes
  <2>3. /\ AllUnanswered(todo) => AllUnanswered(todo')
        /\ \A w : EndsWith(todo, w) => IF todo' = <<>> THEN todo[1] = w ELSE EndsWith(todo', w)
    BY <2>1, <2>2, WritingGoesOn, Zenon
  <2>4. at \in Waits => Pends(Asks(at, call.script), todo', input')
    BY <2>1, <2>3, Zenon DEF Program, Pends
  <2>5. at = "reboot" => todo' = <<>>
    <3>1. at = "reboot" => Len(todo) = 1
      BY <2>1, Zenon DEF Program
    <3>2. QED
      BY <2>1, <3>1, EmptySeq
  <2>6. QED
    BY <2>1, <2>3, <2>4, <2>5, Zenon DEF Program
<1>3. CASE DeviceStep
  <2>1. at' = at /\ todo' = todo /\ call' = call /\ (input' = input \/ input' = <<>>)
    BY <1>3, DeviceLeavesDriver, DeviceMoves, Zenon
  <2>2. QED
    BY <2>1, Zenon DEF Program, Pends
<1>4. QED
  BY <1>1, <1>2, <1>3, StepsOfSetUp

-----------------------------------------------------------------------------
(* Bytes move from the register into the queue, from the keyboard into the *)
(* register, and out of the queue: what they are named stays.              *)
LEMMA MatchesMoves ==
  ASSUME NEW names \in Seq(Words), NEW q \in Seq(ByteType), NEW o \in Seq(ByteType), NEW s \in Seq(Words),
         Matches(names, q, o, s)
  PROVE  /\ Matches(names, q \o o, <<>>, s)
         /\ o = <<>> /\ s # <<>> => Matches(names, q, <<SetUp!Byte(Head(s))>>, Tail(s))
         /\ q # <<>> => names # <<>> /\ names[1] \in {Head(q).name, "anything"} /\ Matches(Tail(names), Tail(q), o, s)
<1>1. Len(names) = Len(q) + Len(o) + Len(s)
  BY DEF Matches
<1>2. \A k \in 1 .. Len(q) : names[k] \in {q[k].name, "anything"}
  BY DEF Matches
<1>3. \A k \in 1 .. Len(o) : names[Len(q) + k] \in {o[k].name, "anything"}
  BY DEF Matches
<1>4. \A k \in 1 .. Len(s) : names[Len(q) + Len(o) + k] \in {s[k], "anything"}
  BY DEF Matches
<1>5. Len(names) \in Nat /\ Len(q) \in Nat /\ Len(o) \in Nat /\ Len(s) \in Nat
  OBVIOUS
<1>6. Matches(names, q \o o, <<>>, s)
  <2> DEFINE qo == q \o o
  <2>1. Len(qo) = Len(q) + Len(o) /\ (\A k \in 1 .. Len(q) : qo[k] = q[k])
        /\ (\A k \in 1 .. Len(o) : qo[Len(q) + k] = o[k])
    BY ConcatProperties
  <2> HIDE DEF qo
  <2>2. Len(<<>>) = 0
    OBVIOUS
  <2>3. \A k \in 1 .. Len(qo) : names[k] \in {qo[k].name, "anything"}
    <3> TAKE k \in 1 .. Len(qo)
    <3>1. CASE k <= Len(q)
      <4>1. k \in 1 .. Len(q)
        BY <1>5, <2>1, <3>1
      <4>2. QED
        BY <1>2, <2>1, <4>1
    <3>2. CASE k > Len(q)
      <4> DEFINE j == k - Len(q)
      <4>1. j \in 1 .. Len(o) /\ Len(q) + j = k
        BY <1>5, <2>1, <3>2
      <4> HIDE DEF j
      <4>2. names[Len(q) + j] \in {o[j].name, "anything"} /\ qo[Len(q) + j] = o[j]
        BY <1>3, <2>1, <4>1
      <4>3. QED
        BY <4>1, <4>2
    <3>3. QED
      BY <1>5, <2>1, <3>1, <3>2
  <2>4. \A k \in 1 .. Len(s) : names[Len(qo) + Len(<<>>) + k] \in {s[k], "anything"}
    <3>1. Len(qo) + Len(<<>>) = Len(q) + Len(o)
      BY <1>5, <2>1, <2>2
    <3>2. QED
      BY <1>4, <3>1
  <2>5. Len(names) = Len(qo) + Len(<<>>) + Len(s)
    BY <1>1, <1>5, <2>1, <2>2
  <2>6. \A k \in 1 .. Len(<<>>) : names[Len(qo) + k] \in {<<>>[k].name, "anything"}
    BY <2>2
  <2>7. QED
    BY <2>3, <2>4, <2>5, <2>6 DEF Matches, qo
<1>7. ASSUME o = <<>>, s # <<>> PROVE Matches(names, q, <<SetUp!Byte(Head(s))>>, Tail(s))
  <2> DEFINE b == SetUp!Byte(Head(s))  t == Tail(s)
  <2>1. Len(o) = 0 /\ Len(s) > 0 /\ Head(s) = s[1] /\ Len(t) = Len(s) - 1 /\ \A k \in 1 .. Len(t) : t[k] = s[k + 1]
    BY <1>7, EmptySeq
  <2>2. b.name = Head(s)
    BY DEF SetUp!Byte
  <2> HIDE DEF b, t
  <2>3. Len(<<b>>) = 1 /\ <<b>>[1] = b
    OBVIOUS
  <2>4. Len(names) = Len(q) + Len(<<b>>) + Len(t)
    BY <1>1, <1>5, <2>1, <2>3
  <2>5. \A k \in 1 .. Len(<<b>>) : names[Len(q) + k] \in {<<b>>[k].name, "anything"}
    <3>1. 1 \in 1 .. Len(s) /\ Len(q) + Len(o) + 1 = Len(q) + 1
      BY <1>5, <2>1
    <3>2. names[Len(q) + 1] \in {s[1], "anything"}
      BY <1>4, <3>1
    <3>3. \A k \in 1 .. Len(<<b>>) : k = 1
      BY <2>3
    <3>4. QED
      BY <2>1, <2>2, <2>3, <3>2, <3>3
  <2>6. \A k \in 1 .. Len(t) : names[Len(q) + Len(<<b>>) + k] \in {t[k], "anything"}
    <3> TAKE k \in 1 .. Len(t)
    <3>1. k + 1 \in 1 .. Len(s) /\ t[k] = s[k + 1] /\ Len(q) + Len(<<b>>) + k = Len(q) + Len(o) + (k + 1)
      BY <1>5, <2>1, <2>3
    <3>2. names[Len(q) + Len(o) + (k + 1)] \in {s[k + 1], "anything"}
      BY <1>4, <3>1
    <3>3. QED
      BY <3>1, <3>2
  <2>7. QED
    BY <1>2, <2>4, <2>5, <2>6 DEF Matches, b, t
<1>8. ASSUME q # <<>>
      PROVE  names # <<>> /\ names[1] \in {Head(q).name, "anything"} /\ Matches(Tail(names), Tail(q), o, s)
  <2> DEFINE t == Tail(q)  n == Tail(names)
  <2>1. Len(q) > 0 /\ Head(q) = q[1] /\ Len(t) = Len(q) - 1 /\ \A k \in 1 .. Len(t) : t[k] = q[k + 1]
    BY <1>8, EmptySeq
  <2>2. Len(names) > 0
    BY <1>1, <1>5, <2>1
  <2>3. names # <<>> /\ Len(n) = Len(names) - 1 /\ \A k \in 1 .. Len(n) : n[k] = names[k + 1]
    BY <2>2
  <2>4. names[1] \in {Head(q).name, "anything"}
    <3>1. 1 \in 1 .. Len(q)
      BY <1>5, <2>1
    <3>2. QED
      BY <1>2, <2>1, <3>1
  <2> HIDE DEF t, n
  <2>5. Len(n) = Len(t) + Len(o) + Len(s)
    BY <1>1, <1>5, <2>1, <2>3
  <2>6. \A k \in 1 .. Len(t) : n[k] \in {t[k].name, "anything"}
    <3> TAKE k \in 1 .. Len(t)
    <3>1. k + 1 \in 1 .. Len(q) /\ k \in 1 .. Len(n)
      BY <1>5, <2>1, <2>5
    <3>2. QED
      BY <1>2, <2>1, <2>3, <3>1
  <2>7. \A k \in 1 .. Len(o) : n[Len(t) + k] \in {o[k].name, "anything"}
    <3> TAKE k \in 1 .. Len(o)
    <3>1. Len(t) + k \in 1 .. Len(n) /\ (Len(t) + k) + 1 = Len(q) + k
      BY <1>5, <2>1, <2>5
    <3>2. n[Len(t) + k] = names[Len(q) + k]
      BY <2>3, <3>1
    <3>3. QED
      BY <1>3, <3>2
  <2>8. \A k \in 1 .. Len(s) : n[Len(t) + Len(o) + k] \in {s[k], "anything"}
    <3> TAKE k \in 1 .. Len(s)
    <3>1. Len(t) + Len(o) + k \in 1 .. Len(n) /\ (Len(t) + Len(o) + k) + 1 = Len(q) + Len(o) + k
      BY <1>5, <2>1, <2>5
    <3>2. n[Len(t) + Len(o) + k] = names[Len(q) + Len(o) + k]
      BY <2>3, <3>1
    <3>3. QED
      BY <1>4, <3>2
  <2>9. QED
    BY <2>3, <2>4, <2>5, <2>6, <2>7, <2>8 DEF Matches, t, n
<1>9. QED
  BY <1>6, <1>7, <1>8

(* No byte, and one byte. *)
LEMMA MatchesFew ==
  ASSUME NEW q \in Seq(ByteType), NEW o \in Seq(ByteType), NEW s \in Seq(Words)
  PROVE  /\ Matches(<<>>, q, o, s) <=> q = <<>> /\ o = <<>> /\ s = <<>>
         /\ \A name : Matches(<<name>>, q, o, s) /\ o # <<>> =>
              q = <<>> /\ Len(o) = 1 /\ s = <<>> /\ name \in {o[1].name, "anything"}
         /\ \A name : q = <<>> /\ s = <<>> /\ Len(o) = 1 /\ o[1].name = name => Matches(<<name>>, q, o, s)
<1>1. Len(q) \in Nat /\ Len(o) \in Nat /\ Len(s) \in Nat /\ Len(<<>>) = 0
  OBVIOUS
<1>2. (q = <<>> <=> Len(q) = 0) /\ (o = <<>> <=> Len(o) = 0) /\ (s = <<>> <=> Len(s) = 0)
  BY EmptySeq
<1>3. Matches(<<>>, q, o, s) => q = <<>> /\ o = <<>> /\ s = <<>>
  <2>1. Matches(<<>>, q, o, s) => 0 = Len(q) + Len(o) + Len(s)
    BY <1>1 DEF Matches
  <2>2. QED
    BY <1>1, <1>2, <2>1
<1>4. q = <<>> /\ o = <<>> /\ s = <<>> => Matches(<<>>, q, o, s)
  BY <1>1 DEF Matches
<1>5. ASSUME NEW name, Matches(<<name>>, q, o, s), o # <<>>
      PROVE  q = <<>> /\ Len(o) = 1 /\ s = <<>> /\ name \in {o[1].name, "anything"}
  <2>1. Len(<<name>>) = 1 /\ <<name>>[1] = name
    OBVIOUS
  <2>2. 1 = Len(q) + Len(o) + Len(s)
    BY <1>5, <2>1 DEF Matches
  <2>3. Len(q) = 0 /\ Len(o) = 1 /\ Len(s) = 0
    BY <1>1, <1>2, <1>5, <2>2
  <2>4. <<name>>[Len(q) + 1] \in {o[1].name, "anything"}
    BY <1>5, <2>3 DEF Matches
  <2>5. QED
    BY <1>2, <2>1, <2>3, <2>4
<1>6. ASSUME NEW name, q = <<>>, s = <<>>, Len(o) = 1, o[1].name = name PROVE Matches(<<name>>, q, o, s)
  <2>1. Len(<<name>>) = 1 /\ <<name>>[1] = name /\ Len(q) = 0 /\ Len(s) = 0
    BY <1>2, <1>6
  <2>2. \A k \in 1 .. Len(o) : <<name>>[Len(q) + k] \in {o[k].name, "anything"}
    <3>1. \A k \in 1 .. Len(o) : k = 1 /\ Len(q) + k = 1
      BY <1>6, <2>1
    <3>2. QED
      BY <1>6, <2>1, <3>1
  <2>3. QED
    BY <1>6, <2>1, <2>2 DEF Matches
<1>7. QED
  BY <1>3, <1>4, <1>5, <1>6

(* What is answered to a command of the keyboard. *)
LEMMA RepliesSpelled ==
  ASSUME NEW name \in Words
  PROVE  /\ Replies(name) \in Seq(Words) /\ Replies(name) # <<>> /\ Behind(name) \in Seq(Words)
         /\ name = "ECHO" => Replies(name) = <<"ECHO">>
         /\ name # "ECHO" => Replies(name)[1] = "ACK" /\ Tail(Replies(name)) = Behind(name)
<1>1. "ECHO" \in Words /\ "ACK" \in Words /\ "RESET_DONE" \in Words /\ "MF2_PREFIX" \in Words /\ "anything" \in Words
  BY DEF Words
<1>2. Behind(name) \in Seq(Words)
  BY <1>1 DEF Behind
<1>3. ASSUME NEW b \in Seq(Words)
      PROVE  /\ <<"ACK">> \o b \in Seq(Words) /\ <<"ACK">> \o b # <<>>
             /\ (<<"ACK">> \o b)[1] = "ACK" /\ Tail(<<"ACK">> \o b) = b
  <2> DEFINE c == <<"ACK">> \o b
  <2>1. <<"ACK">> \in Seq(Words) /\ Len(<<"ACK">>) = 1 /\ <<"ACK">>[1] = "ACK" /\ Len(b) \in Nat
    BY <1>1
  <2>2. c \in Seq(Words) /\ Len(c) = 1 + Len(b) /\ c[1] = "ACK" /\ \A i \in 1 .. Len(b) : c[1 + i] = b[i]
    <3>1. c \in Seq(Words) /\ Len(c) = 1 + Len(b)
      BY <2>1, ConcatProperties
    <3>2. c[1] = "ACK"
      BY <2>1, ConcatProperties
    <3>3. \A i \in 1 .. Len(b) : c[1 + i] = b[i]
      BY <2>1, ConcatProperties
    <3>4. QED
      BY <3>1, <3>2, <3>3
  <2> HIDE DEF c
  <2>3. c # <<>> /\ Tail(c) \in Seq(Words) /\ Len(Tail(c)) = Len(b)
    BY <2>1, <2>2, EmptySeq
  <2>4. \A i \in 1 .. Len(b) : Tail(c)[i] = b[i]
    <3>1. \A i \in 1 .. Len(b) : Tail(c)[i] = c[i + 1] /\ i + 1 = 1 + i
      BY <2>1, <2>2
    <3>2. QED
      BY <2>2, <3>1
  <2>5. Tail(c) = b
    BY <2>3, <2>4, SeqEqual
  <2>6. QED
    BY <2>2, <2>3, <2>5 DEF c
<1>4. CASE name = "ECHO"
  BY <1>1, <1>2, <1>4 DEF Replies
<1>5. CASE name # "ECHO"
  <2>1. Replies(name) = <<"ACK">> \o Behind(name)
    BY <1>5, Zenon DEF Replies
  <2>2. QED
    BY <1>2, <1>3, <1>5, <2>1, Zenon
<1>6. QED
  BY <1>4, <1>5

(* What a call takes next, it takes in this order. *)
LEMMA DueFacts ==
  ASSUME NEW script \in Remains, script \in Seq(StepType)
  PROVE  /\ Due(script) \in Seq(Words) /\ (~Takes(script) => Due(script) = <<>>)
         /\ Takes(script) => /\ Due(script) # <<>> /\ Due(script)[1] = Head(script).name
                             /\ Tail(Due(script)) = Due(Tail(script))
<1>1. CASE ~Takes(script)
  <2>1. Due(script) = <<>>
    BY <1>1, Zenon DEF Due
  <2>2. <<>> \in Seq(Words)
    OBVIOUS
  <2>3. QED
    BY <1>1, <2>1, <2>2
<1>2. CASE Takes(script)
  <2>1. script # <<>> /\ Head(script) \in StepType /\ Tail(script) \in Seq(StepType)
    BY <1>2, HeadTailProperties DEF Takes
  <2>2. Takes(Tail(script)) => ~Takes(Tail(Tail(script))) /\ Tail(script) # <<>>
    BY <1>2, CallsAreSound, Zenon DEF SoundCall, Takes
  <2>3. Takes(Tail(script)) => Head(Tail(script)) \in StepType
    BY <2>1, <2>2, HeadTailProperties
  <2>4. \A s \in StepType : s.name \in Words
    BY DEF StepType
  <2>5. \A a, b \in Words : /\ <<a>> \in Seq(Words) /\ <<a>> # <<>> /\ <<a>>[1] = a /\ Tail(<<a>>) = <<>>
                            /\ <<a, b>> \in Seq(Words) /\ <<a, b>> # <<>> /\ <<a, b>>[1] = a /\ Tail(<<a, b>>) = <<b>>
    <3>1. ASSUME NEW a \in Words, NEW b \in Words
          PROVE  /\ <<a>> \in Seq(Words) /\ <<a>> # <<>> /\ <<a>>[1] = a /\ Tail(<<a>>) = <<>>
                 /\ <<a, b>> \in Seq(Words) /\ <<a, b>> # <<>> /\ <<a, b>>[1] = a /\ Tail(<<a, b>>) = <<b>>
      <4>1. /\ <<a>> \in Seq(Words) /\ <<a>> # <<>> /\ <<a>>[1] = a /\ <<b>> \in Seq(Words)
            /\ <<a, b>> \in Seq(Words) /\ <<a, b>> # <<>> /\ <<a, b>>[1] = a
        OBVIOUS
      <4>2. Tail(<<a>>) \in Seq(Words) /\ Len(Tail(<<a>>)) = 0
        BY <4>1
      <4>3. Tail(<<a, b>>) \in Seq(Words) /\ Len(Tail(<<a, b>>)) = 1 /\ \A i \in 1 .. 1 : Tail(<<a, b>>)[i] = <<b>>[i]
        BY <4>1
      <4>4. Tail(<<a, b>>) = <<b>>
        BY <4>1, <4>3, SeqEqual
      <4>5. QED
        BY <4>1, <4>2, <4>4, EmptySeq
    <3>2. QED
      BY <3>1
  <2>6. CASE ~Takes(Tail(script))
    <3>1. Due(script) = <<Head(script).name>> /\ Due(Tail(script)) = <<>>
      BY <1>2, <2>6, Zenon DEF Due
    <3>2. QED
      BY <1>2, <2>1, <2>4, <2>5, <3>1, Zenon
  <2>7. CASE Takes(Tail(script))
    <3>1. Due(script) = <<Head(script).name, Head(Tail(script)).name>>
      BY <1>2, <2>7, Zenon DEF Due
    <3>2. Due(Tail(script)) = <<Head(Tail(script)).name>>
      BY <2>2, <2>7, Zenon DEF Due
    <3>3. QED
      BY <1>2, <2>1, <2>3, <2>4, <2>5, <2>7, <3>1, <3>2, Zenon
  <2>8. QED
    BY <2>6, <2>7
<1>3. QED
  BY <1>1, <1>2

(* A call begins with a command that is no argument of another. *)
LEMMA ScriptsBegin ==
  \A script \in Scripts : Sends(script) /\ ~Takes(script) /\ Head(script).name \notin Arguments /\ Due(script) = <<>>
<1> DEFINE R == SetUp!Send("RESET")  D == SetUp!Expect("RESET_DONE")  E == SetUp!Send("ECHO")
           ee == SetUp!Expect("ECHO")  G == SetUp!Send("GET_SET_SCAN_CODE_SET")  C == SetUp!Send("GET_CURRENT_SET")
           A == SetUp!Expect("anything")  L == SetUp!Send("DISABLE_SCANNING")  I == SetUp!Send("IDENTIFY")
           M == SetUp!Expect("MF2_PREFIX")
           S1 == SetUp!Send("SET_1")  S2 == SetUp!Send("SET_2")  S3 == SetUp!Send("SET_3")  N == SetUp!Send("ENABLE_SCANNING")
           T == StepType
           Good(s) == Sends(s) /\ ~Takes(s) /\ Head(s).name \notin Arguments
<1>1. R \in T /\ D \in T /\ E \in T /\ ee \in T /\ G \in T /\ C \in T /\ A \in T /\ L \in T /\ S1 \in T /\ S2 \in T
      /\ S3 \in T /\ N \in T /\ I \in T /\ M \in T
  BY NamedSteps DEF Words
<1>2. /\ R.does = "send" /\ E.does = "send" /\ G.does = "send" /\ N.does = "send" /\ L.does = "send"
      /\ R.name \notin Arguments /\ E.name \notin Arguments /\ G.name \notin Arguments
      /\ N.name \notin Arguments /\ L.name \notin Arguments
  BY NamedSteps DEF Words, Arguments
<1>3. /\ SetUp!Reset = <<R, D>> /\ SetUp!Echo = <<E, ee>> /\ SetUp!GetScanCodeSet = <<G, C, A>>
      /\ SetUp!SetScanCodeSet(1) = <<G, S1>> /\ SetUp!SetScanCodeSet(2) = <<G, S2>> /\ SetUp!SetScanCodeSet(3) = <<G, S3>>
      /\ SetUp!Reset \o SetUp!SetScanCodeSet(2) = <<R, D, G, S2>> /\ SetUp!GetType = <<L, I, M, A>>
  BY ScriptsSpelled, Zenon
<1> HIDE DEF R, D, E, ee, G, C, A, L, I, M, S1, S2, S3, N
<1>4. ASSUME NEW s, NEW a \in T, NEW t, Spelled(s, a, t), a.does = "send", a.name \notin Arguments PROVE Good(s)
  BY <1>4 DEF Spelled, Sends, Takes
<1> HIDE DEF Good
<1>5. Good(<<R, D>>) /\ Good(<<E, ee>>) /\ Good(<<G, S1>>) /\ Good(<<G, S2>>) /\ Good(<<G, S3>>)
  <2>1. ASSUME NEW a \in T, NEW b \in T, a.does = "send", a.name \notin Arguments PROVE Good(<<a, b>>)
    BY <2>1, <1>4, TuplesSpelled, Zenon
  <2>2. Good(<<R, D>>) /\ Good(<<E, ee>>)
    BY <1>1, <1>2, <2>1, Zenon
  <2>3. QED
    BY <1>1, <1>2, <2>1, <2>2, Zenon
<1>6. Good(<<G, C, A>>) /\ Good(<<N>>)
  <2>1. Spelled(<<G, C, A>>, G, <<C, A>>) /\ Spelled(<<N>>, N, <<>>)
    BY <1>1, TuplesSpelled, Zenon
  <2>2. QED
    BY <1>1, <1>2, <1>4, <2>1, Zenon
<1>7. Good(<<L, I, M, A>>) /\ Good(<<R, D, G, S2>>)
  <2>1. Spelled(<<L, I, M, A>>, L, <<I, M, A>>) /\ Spelled(<<R, D, G, S2>>, R, <<D, G, S2>>)
    BY <1>1, TuplesSpelled, Zenon
  <2>2. QED
    BY <1>1, <1>2, <1>4, <2>1, Zenon
<1>8. \A script \in Scripts : Good(script)
  BY <1>3, <1>5, <1>6, <1>7, Zenon DEF Scripts, N
<1>9. QED
  BY <1>8, Zenon DEF Good, Due

(* The keyboard has understood a command. *)
LEMMA KeyboardAnswers ==
  ASSUME SetUpTypes, NEW name \in KeyboardCommands, keyboard.sends = <<>>,
         keyboard' = [SetUp!Obeyed(name) EXCEPT !.sends = @ \o SetUp!Reply(name)]
  PROVE  /\ Matches(Replies(name), <<>>, <<>>, keyboard'.sends) /\ Done(name, keyboard')
         /\ keyboard.scanning /\ name # "DISABLE_SCANNING" => keyboard'.scanning
<1>1. name \in Words
  BY DEF KeyboardCommands, Words
<1>2. SetUp!Obeyed(name) \in KeyboardState /\ SetUp!Obeyed(name).sends = <<>> /\ SetUp!Reply(name) \in Seq(Words)
  BY <1>1, KeyboardTypes
<1>3. keyboard \in KeyboardState
  BY DEF SetUpTypes
<1> DEFINE o == SetUp!Obeyed(name)
<1>4. /\ o.scanning = (IF name \in {"RESET", "ENABLE_SCANNING"} THEN TRUE
                       ELSE IF name = "DISABLE_SCANNING" THEN FALSE ELSE keyboard.scanning)
      /\ name = "GET_SET_SCAN_CODE_SET" => o.argument
  <2>1. SetUp!Sets = {"SET_1", "SET_2", "SET_3"}
    <3>1. 1 .. 3 = {1, 2, 3}
      OBVIOUS
    <3>2. SetUp!ScanCodeSet(1) = "SET_1" /\ SetUp!ScanCodeSet(2) = "SET_2" /\ SetUp!ScanCodeSet(3) = "SET_3"
      BY DEF SetUp!ScanCodeSet
    <3>3. QED
      BY <3>1, <3>2 DEF SetUp!Sets
  <2>2. QED
    BY <1>3, <2>1 DEF SetUp!Obeyed, KeyboardState
<1> DEFINE r == SetUp!Reply(name)
<1> HIDE DEF o, r
<1>5. keyboard' = [o EXCEPT !.sends = @ \o r] /\ o \in KeyboardState /\ o.sends = <<>> /\ r \in Seq(Words)
  BY <1>2 DEF o, r
<1>6. keyboard'.sends = o.sends \o r /\ keyboard'.scanning = o.scanning /\ keyboard'.argument = o.argument
  BY <1>5 DEF KeyboardState
<1>7. keyboard'.sends = r
  BY <1>5, <1>6, ConcatEmptySeq
<1>8. Matches(Replies(name), <<>>, <<>>, r)
  <2>1. ASSUME NEW a PROVE Matches(<<a>>, <<>>, <<>>, <<a>>)
    BY DEF Matches
  <2>2. ASSUME NEW a, NEW b, NEW c PROVE Matches(<<a, b>>, <<>>, <<>>, <<a, b>>) /\ Matches(<<a, "anything">>, <<>>, <<>>, <<a, b>>)
    BY DEF Matches
  <2>3. ASSUME NEW a, NEW b, NEW c PROVE Matches(<<a, b, "anything">>, <<>>, <<>>, <<a, b, c>>)
    BY DEF Matches
  <2>4. "ACK" \in Words /\ "RESET_DONE" \in Words /\ "MF2_PREFIX" \in Words /\ "anything" \in Words
    BY DEF Words
  <2>5. /\ <<"ACK">> \o <<"RESET_DONE">> = <<"ACK", "RESET_DONE">> /\ <<"ACK">> \o <<"anything">> = <<"ACK", "anything">>
        /\ <<"ACK">> \o <<"MF2_PREFIX", "anything">> = <<"ACK", "MF2_PREFIX", "anything">>
        /\ <<"ACK">> \o <<>> = <<"ACK">>
    <3>1. <<"ACK">> \o <<"RESET_DONE">> = <<"ACK", "RESET_DONE">> /\ <<"ACK">> \o <<"anything">> = <<"ACK", "anything">>
      BY <2>4, SmallConcat, Zenon
    <3>2. <<"ACK">> \o <<>> = <<"ACK">>
      <4>1. <<"ACK">> \in Seq(Words)
        BY <2>4
      <4>2. QED
        BY <4>1, ConcatEmptySeq
    <3>3. <<"ACK">> \o <<"MF2_PREFIX", "anything">> = <<"ACK", "MF2_PREFIX", "anything">>
      <4> DEFINE a == <<"ACK">>  b == <<"MF2_PREFIX", "anything">>  c == <<"ACK", "MF2_PREFIX", "anything">>
      <4>1. a \in Seq(Words) /\ b \in Seq(Words) /\ c \in Seq(Words) /\ Len(a) = 1 /\ Len(b) = 2 /\ Len(c) = 3
            /\ a[1] = "ACK" /\ b[1] = "MF2_PREFIX" /\ b[2] = "anything"
            /\ c[1] = "ACK" /\ c[2] = "MF2_PREFIX" /\ c[3] = "anything"
        BY <2>4
      <4> HIDE DEF a, b, c
      <4>2. a \o b \in Seq(Words) /\ Len(a \o b) = Len(a) + Len(b)
            /\ \A i \in 1 .. Len(a) + Len(b) : (a \o b)[i] = (IF i <= Len(a) THEN a[i] ELSE b[i - Len(a)])
        BY <4>1, ConcatProperties, Zenon
      <4>3. Len(a \o b) = 3
        BY <4>1, <4>2
      <4>4. \A i \in 1 .. 3 : (a \o b)[i] = c[i]
        <5>1. /\ 1 \in 1 .. Len(a) + Len(b) /\ 2 \in 1 .. Len(a) + Len(b) /\ 3 \in 1 .. Len(a) + Len(b)
              /\ 1 <= Len(a) /\ ~(2 <= Len(a)) /\ ~(3 <= Len(a)) /\ 2 - Len(a) = 1 /\ 3 - Len(a) = 2
          BY <4>1
        <5>2. (a \o b)[1] = "ACK" /\ (a \o b)[2] = "MF2_PREFIX" /\ (a \o b)[3] = "anything"
          BY <4>1, <4>2, <5>1
        <5>3. \A i \in 1 .. 3 : i \in {1, 2, 3}
          OBVIOUS
        <5>4. QED
          BY <4>1, <5>2, <5>3
      <4>5. a \o b = c
        BY <4>1, <4>2, <4>3, <4>4, SeqEqual
      <4>6. QED
        BY <4>5 DEF a, b, c
    <3>4. QED
      BY <3>1, <3>2, <3>3
  <2>6. Replies(name) = IF name = "ECHO" THEN <<"ECHO">> ELSE IF name = "RESET" THEN <<"ACK", "RESET_DONE">>
           ELSE IF name = "IDENTIFY" THEN <<"ACK", "MF2_PREFIX", "anything">>
           ELSE IF name = "GET_CURRENT_SET" THEN <<"ACK", "anything">> ELSE <<"ACK">>
    BY <2>5 DEF Replies, Behind
  <2>7. r = IF name = "ECHO" THEN <<"ECHO">> ELSE IF name = "RESET" THEN <<"ACK", "RESET_DONE">>
           ELSE IF name = "IDENTIFY" THEN <<"ACK", "MF2_PREFIX", "MF2">>
           ELSE IF name = "GET_CURRENT_SET" THEN <<"ACK", keyboard.set>> ELSE <<"ACK">>
    BY DEF SetUp!Reply, r
  <2>8. QED
    BY <2>1, <2>2, <2>3, <2>6, <2>7, Zenon
<1>9. Done(name, keyboard')
  BY <1>4, <1>6 DEF Done
<1>10. keyboard.scanning /\ name # "DISABLE_SCANNING" => keyboard'.scanning
  BY <1>4, <1>6
<1>11. QED
  BY <1>7, <1>8, <1>9, <1>10

(* What is known of the driver and of what it writes. *)
Known ==
  SetUpTypes /\ AtRest /\ CallInv /\ Orderly(todo, input, expects) /\ Program(at, call.script, todo, input)
InStepNow == InStep(at, hardware, call.script, call.times, todo, input, queue, output, keyboard, refusals)

(* While the driver writes, it does not overwrite what it waits for. *)
LEMMA WriteInStep ==
  ASSUME Known, InStepNow, SetUp!Write
  PROVE  InStepNow' /\ (lost \subseteq LostNames => lost' \subseteq LostNames)
<1> DEFINE q == queue  o == output  s == keyboard.sends  r == refusals > ResendTimesCount - call.times
<1>1. /\ todo # <<>> /\ Len(todo') = Len(todo) - 1 /\ input' = <<todo[1]>> /\ todo' \in Seq(WriteType)
      /\ \A k \in 1 .. Len(todo') : todo'[k] = todo[k + 1]
      /\ todo[1].port = "data" => input = <<>>
      /\ UNCHANGED <<hardware, output, keyboard, queue, at, call, refusals>>
  BY WriteMoves DEF Known
<1>2. todo \in Seq(WriteType) /\ input \in Seq(WriteType) /\ Len(input) <= 1
  BY DEF Known, SetUpTypes
<1>3. /\ AllUnanswered(todo) => AllUnanswered(todo') /\ AllUnanswered(input')
      /\ \A w : EndsWith(todo, w) =>
           IF todo' = <<>> THEN todo[1] = w ELSE EndsWith(todo', w) /\ AllUnanswered(input')
  BY <1>1, <1>2, WritingGoesOn, Zenon
<1>4. ASSUME NEW w, Asking(w, todo, input, q, o, s)
      PROVE  AllUnanswered(input) /\ Asking(w, todo', input', q, o, s)
  BY <1>1, <1>3, <1>4, Zenon DEF Asking
<1>5. \A names : ~Telling(names, todo, input, q, o, s)
  BY <1>1, Zenon DEF Telling
<1>6. Loose(call.script, todo, input, q, o, s) =>
        AllUnanswered(input) /\ Loose(call.script, todo', input', q, o, s)
  BY <1>1, <1>3, Zenon DEF Loose
<1>7. ASSUME NEW name, Told(name, todo, input, q, o, keyboard, r)
      PROVE  AllUnanswered(input) /\ Told(name, todo', input', q, o, keyboard, r)
  BY <1>4, <1>5, <1>7, Zenon DEF Told
<1>8. ASSUME NEW p, Asked(p, hardware, todo, input, q, o, s)
      PROVE  AllUnanswered(input) /\ Asked(p, hardware, todo', input', q, o, s)
  BY <1>4, <1>5, <1>8, Zenon DEF Asked
<1> HIDE DEF q, o, s, r
<1>9. InStep(at, hardware, call.script, call.times, todo', input', queue, output, keyboard, refusals)
  BY <1>6, <1>7, <1>8, Zenon DEF InStep, InStepNow, q, o, s, r
<1>10. InStepNow'
  BY <1>1, <1>9, Zenon DEF InStepNow
<1>11. AllUnanswered(input)
  <2>1. CASE at = "reboot"
    <3>1. input = <<>>
      BY <1>1, <2>1, Zenon DEF Known, Program
    <3>2. QED
      BY <3>1 DEF AllUnanswered
  <2>2. CASE at # "reboot"
    BY <1>6, <1>7, <1>8, <2>2, Zenon DEF InStep, InStepNow, Waits, q, o, s, r
  <2>3. QED
    BY <2>1, <2>2
<1>12. ASSUME NEW w \in SetUp!ToSet(input) PROVE w.byte.name \in LostNames
  <2>1. w = input[1] /\ input # <<>> /\ 1 \in 1 .. Len(input)
    BY <1>2, <1>12 DEF SetUp!ToSet
  <2>2. todo[1].port # "data"
    BY <1>1, <2>1
  <2>3. ~Announces(input[1])
    BY <2>1, <2>2, Zenon DEF Known, Orderly, IsConfiguration
  <2>4. Unanswered(w)
    BY <1>11, <2>1 DEF AllUnanswered
  <2>5. w.port \in {"command", "data"}
    <3>1. input[1] \in WriteType
      BY <1>2, <2>1
    <3>2. QED
      BY <2>1, <3>1 DEF WriteType
  <2>6. QED
    BY <2>1, <2>3, <2>4, <2>5 DEF Unanswered, Announces, Changes, LostNames
<1>13. lost' = lost \cup {w.byte.name : w \in SetUp!ToSet(input)}
  BY Zenon DEF SetUp!Write
<1>14. QED
  BY <1>10, <1>12, <1>13

(* Where the driver still asks, and where nothing is asked. *)
LEMMA AskingIsInStep ==
  ASSUME NEW p \in Waits, NEW hw, NEW script, NEW times, NEW td, NEW in, NEW q, NEW o, NEW kb, NEW r,
         Asking(Asks(p, script), td, in, q, o, kb.sends),
         p \in {"enable", "answer"} => r >= ResendTimesCount - times,
         p = "answer" => Ready(Head(script).name, kb)
  PROVE  InStep(p, hw, script, times, td, in, q, o, kb, r)
<1>1. /\ p \in Questions => Asks(p, script) = SetUp!Command(Question(p)) /\ p # "enable" /\ p # "answer"
      /\ p = "enable" => Asks(p, script) = SetUp!Data(SetUp!Byte("ENABLE_SCANNING"))
      /\ p = "answer" => Asks(p, script) = SetUp!Data(SetUp!Byte(Head(script).name))
      /\ p # "call" /\ p # "keyboard flush" /\ Ready("ENABLE_SCANNING", kb)
  BY DEF Asks, Questions, Waits, Ready, Arguments
<1>2. QED
  BY <1>1, Zenon DEF InStep, Asked, Told, Waits

(* Where no answer is waited for, nothing more is to be said. *)
LEMMA LooseIsInStep ==
  ASSUME NEW p, p \notin Waits,
         NEW hw, NEW script, NEW times, NEW td, NEW in, NEW q, NEW o, NEW kb, NEW r,
         p # "reboot" => Loose(script, td, in, q, o, kb.sends),
         p = "keyboard flush" => r >= ResendTimesCount - times,
         p = "call" /\ Sends(script) => Ready(Head(script).name, kb)
  PROVE  InStep(p, hw, script, times, td, in, q, o, kb, r)
<1>1. p \notin Questions /\ p # "enable" /\ p # "answer"
  BY DEF Waits
<1>2. QED
  BY <1>1, Zenon DEF InStep

(* What the driver waits for, it has asked, or it is being told. *)
LEMMA WaitingFacts ==
  ASSUME Known, InStepNow, at \in Waits
  PROVE  /\ Asks(at, call.script) \in WriteType /\ ~Unanswered(Asks(at, call.script))
         /\ \/ Asking(Asks(at, call.script), todo, input, queue, output, keyboard.sends)
            \/ todo = <<>> /\ input = <<>>
         /\ at \in {"enable", "answer"} => refusals >= ResendTimesCount - call.times
<1>1. call.script \in Remains /\ (at = "answer" => Sends(call.script))
  BY Zenon DEF Known, CallInv, AtRest, Sends
<1>2. /\ Asks(at, call.script) \in WriteType /\ ~IsConfiguration(Asks(at, call.script))
      /\ at \in Questions => Asks(at, call.script) = SetUp!Command(Question(at)) /\ Question(at) \in Words
      /\ at = "enable" => Asks(at, call.script) = SetUp!Data(SetUp!Byte("ENABLE_SCANNING"))
      /\ at = "answer" => Asks(at, call.script) = SetUp!Data(SetUp!Byte(Head(call.script).name))
                          /\ Head(call.script).name \in KeyboardCommands
  BY <1>1, AsksFacts, Zenon
<1>3. ~Unanswered(Asks(at, call.script))
  <2>1. CASE at \in Questions
    <3>1. Asks(at, call.script).port = "command" /\ Asks(at, call.script).byte.name = Question(at)
      BY <1>2, <2>1, WriteFacts, ZenonT(60)
    <3>2. Question(at) \notin Changes
      BY DEF Question, Changes
    <3>3. QED
      BY <3>1, <3>2 DEF Unanswered
  <2>2. CASE at \in {"enable", "answer"}
    <3>1. "ENABLE_SCANNING" \in Words /\ KeyboardCommands \subseteq Words /\ "configuration" \notin KeyboardCommands
      BY DEF Words, KeyboardCommands
    <3>2. Asks(at, call.script).port = "data" /\ Asks(at, call.script).byte.name # "configuration"
      BY <1>2, <2>2, <3>1, WriteFacts
    <3>3. QED
      BY <3>2 DEF Unanswered
  <2>3. QED
    BY <2>1, <2>2 DEF Waits
<1>4. CASE at \in Questions
  <2>1. Asked(at, hardware, todo, input, queue, output, keyboard.sends)
    BY <1>4, Zenon DEF InStepNow, InStep
  <2>2. at \notin {"enable", "answer"}
    BY <1>4 DEF Questions
  <2>3. QED
    BY <1>2, <1>3, <1>4, <2>1, <2>2, Zenon DEF Asked, Telling
<1>5. CASE at \in {"enable", "answer"}
  <2>1. /\ at = "enable" => Told("ENABLE_SCANNING", todo, input, queue, output, keyboard, refusals > ResendTimesCount - call.times)
        /\ at = "answer" => Told(Head(call.script).name, todo, input, queue, output, keyboard, refusals > ResendTimesCount - call.times)
        /\ refusals >= ResendTimesCount - call.times
    BY <1>5, Zenon DEF InStepNow, InStep
  <2>2. QED
    BY <1>2, <1>3, <1>5, <2>1, Zenon DEF Told, Telling
<1>6. QED
  BY <1>4, <1>5 DEF Waits

(* Bytes that move on make no difference. *)
LEMMA BytesInStep ==
  ASSUME Known, InStepNow, UNCHANGED <<hardware, at, todo, call, refusals, input>>,
         keyboard'.scanning = keyboard.scanning, keyboard'.argument = keyboard.argument,
         output # <<>> \/ keyboard.sends # <<>>,
         \A names \in Seq(Words) : Matches(names, queue, output, keyboard.sends)
                                     => Matches(names, queue', output', keyboard'.sends)
  PROVE  InStepNow'
<1>1. call.script \in Remains /\ call.script \in Seq(StepType) /\ (at = "answer" => Sends(call.script))
  BY CallParts, Zenon DEF Known, CallInv, AtRest, Sends
<1>2. at = "answer" => Head(call.script).name \in Words
  <2>1. at = "answer" => Head(call.script).name \in KeyboardCommands
    BY <1>1, CallsAreSound, Zenon DEF SoundCall, Sends
  <2>2. QED
    BY <2>1 DEF KeyboardCommands, Words
<1>3. /\ Due(call.script) \in Seq(Words) /\ <<AnswerTo(at, hardware)>> \in Seq(Words)
      /\ <<>> \in Seq(Words) /\ <<"RESEND">> \in Seq(Words)
  <2>1. Due(call.script) \in Seq(Words)
    BY <1>1, DueFacts, Zenon
  <2>2. AnswerTo(at, hardware) \in Words /\ "RESEND" \in Words
    BY DEF AnswerTo, Words
  <2>3. QED
    BY <2>1, <2>2
<1>4. ASSUME NEW names \in Seq(Words), Telling(names, todo, input, queue, output, keyboard.sends)
      PROVE  Telling(names, todo, input, queue', output', keyboard'.sends)
  BY <1>4, Zenon DEF Telling
<1>5. \A w : ~Asking(w, todo, input, queue, output, keyboard.sends)
  BY Zenon DEF Asking
<1>6. Loose(call.script, todo, input, queue, output, keyboard.sends)
        => Loose(call.script, todo, input, queue', output', keyboard'.sends)
  BY <1>3, Zenon DEF Loose
<1>7. ASSUME NEW name \in Words, NEW r, Told(name, todo, input, queue, output, keyboard, r)
      PROVE  Told(name, todo, input, queue', output', keyboard', r)
  <2>1. Replies(name) \in Seq(Words)
    BY RepliesSpelled
  <2>2. (Ready(name, keyboard) => Ready(name, keyboard')) /\ (Done(name, keyboard) => Done(name, keyboard'))
    BY DEF Ready, Done
  <2>3. QED
    BY <1>3, <1>4, <1>5, <1>7, <2>1, <2>2, Zenon DEF Told
<1>8. Asked(at, hardware, todo, input, queue, output, keyboard.sends)
        => Asked(at, hardware, todo, input, queue', output', keyboard'.sends)
  BY <1>3, <1>4, <1>5, Zenon DEF Asked
<1>9. Ready(Head(call.script).name, keyboard) => Ready(Head(call.script).name, keyboard')
  BY DEF Ready
<1>10. "ENABLE_SCANNING" \in Words
  BY DEF Words
<1>11. InStep(at, hardware, call.script, call.times, todo, input, queue', output', keyboard', refusals)
  <2> DEFINE r == refusals > ResendTimesCount - call.times  g == refusals >= ResendTimesCount - call.times
  <2>1. /\ at \in Questions => Asked(at, hardware, todo, input, queue, output, keyboard.sends)
        /\ at = "enable" => Told("ENABLE_SCANNING", todo, input, queue, output, keyboard, r)
        /\ at = "answer" => Told(Head(call.script).name, todo, input, queue, output, keyboard, r)
        /\ at \notin Waits \cup {"reboot"} => Loose(call.script, todo, input, queue, output, keyboard.sends)
        /\ at = "call" /\ Sends(call.script) => Ready(Head(call.script).name, keyboard)
        /\ at \in {"keyboard flush", "enable", "answer"} => g
    BY Zenon DEF InStepNow, InStep
  <2>2. /\ at = "enable" => Told("ENABLE_SCANNING", todo, input, queue', output', keyboard', r)
        /\ at = "answer" => Told(Head(call.script).name, todo, input, queue', output', keyboard', r)
    BY <1>2, <1>7, <1>10, <2>1, Zenon
  <2>3. /\ at \in Questions => Asked(at, hardware, todo, input, queue', output', keyboard'.sends)
        /\ at \notin Waits \cup {"reboot"} => Loose(call.script, todo, input, queue', output', keyboard'.sends)
        /\ at = "call" /\ Sends(call.script) => Ready(Head(call.script).name, keyboard')
    BY <1>6, <1>8, <1>9, <2>1, Zenon
  <2>4. QED
    BY <2>1, <2>2, <2>3, Zenon DEF InStep
<1>12. QED
  BY <1>11, Zenon DEF InStepNow

(* What lies in the input register is either not answered, or what the     *)
(* driver waits for.                                                       *)
LEMMA InputKnown ==
  ASSUME Known, InStepNow, at # "reboot", input # <<>>
  PROVE  \/ /\ Unanswered(input[1])
            /\ \/ at \notin Waits /\ Loose(call.script, todo, input, queue, output, keyboard.sends)
                  /\ Loose(call.script, todo, <<>>, queue, output, keyboard.sends)
               \/ at \in Waits /\ Asking(Asks(at, call.script), todo, <<>>, queue, output, keyboard.sends)
         \/ at \in Waits /\ ~Unanswered(input[1]) /\ todo = <<>> /\ input[1] = Asks(at, call.script)
            /\ queue = <<>> /\ output = <<>> /\ keyboard.sends = <<>>
<1>1. input \in Seq(WriteType) /\ Len(input) <= 1
  BY DEF Known, SetUpTypes
<1>2. 1 \in 1 .. Len(input)
  BY <1>1
<1>3. AllUnanswered(<<>>) /\ (AllUnanswered(input) => Unanswered(input[1]))
  BY <1>2 DEF AllUnanswered
<1>4. CASE at \notin Waits
  BY <1>3, <1>4, Zenon DEF InStepNow, InStep, Loose
<1>5. CASE at \in Waits
  <2>1. Asking(Asks(at, call.script), todo, input, queue, output, keyboard.sends) /\ ~Unanswered(Asks(at, call.script))
    BY <1>5, WaitingFacts, Zenon
  <2>2. \A w : input = <<w>> => input[1] = w
    OBVIOUS
  <2>3. QED
    BY <1>3, <1>5, <2>1, <2>2, Zenon DEF Asking
<1>6. QED
  BY <1>4, <1>5

(* The controller takes what it does not answer, and the driver asks on.   *)
LEMMA TakenInStep ==
  ASSUME Known, InStepNow, at # "reboot", input # <<>>, Unanswered(input[1]), input' = <<>>,
         UNCHANGED <<hardware, at, todo, call, refusals, queue, output, keyboard>>
  PROVE  InStepNow'
<1>1. CASE at \notin Waits
  <2>1. Loose(call.script, todo, <<>>, queue, output, keyboard.sends)
    BY <1>1, InputKnown, Zenon
  <2>2. /\ at = "keyboard flush" => refusals >= ResendTimesCount - call.times
        /\ at = "call" /\ Sends(call.script) => Ready(Head(call.script).name, keyboard)
    BY <1>1, Zenon DEF InStepNow, InStep
  <2>3. InStep(at, hardware, call.script, call.times, todo, <<>>, queue, output, keyboard, refusals)
    BY <1>1, <2>1, <2>2, LooseIsInStep
  <2>4. QED
    BY <2>3, Zenon DEF InStepNow
<1>2. CASE at \in Waits
  <2>1. Asking(Asks(at, call.script), todo, <<>>, queue, output, keyboard.sends)
    BY <1>2, InputKnown, Zenon
  <2>2. at \in {"enable", "answer"} => refusals >= ResendTimesCount - call.times
    BY <1>2, WaitingFacts
  <2>3. at = "answer" => Ready(Head(call.script).name, keyboard)
    <3>1. \A names : ~Telling(names, todo, input, queue, output, keyboard.sends)
      BY Zenon DEF Telling
    <3>2. QED
      BY <3>1, Zenon DEF InStepNow, InStep, Told
  <2>4. InStep(at, hardware, call.script, call.times, todo, <<>>, queue, output, keyboard, refusals)
    BY <1>2, <2>1, <2>2, <2>3, AskingIsInStep
  <2>5. QED
    BY <2>4, Zenon DEF InStepNow
<1>3. QED
  BY <1>1, <1>2

(* At the end nothing is asked any more. *)
LEMMA RebootInStep ==
  ASSUME at' = "reboot" PROVE InStepNow'
<1>1. InStep("reboot", hardware', call'.script, call'.times, todo', input', queue', output', keyboard', refusals')
  BY LooseIsInStep DEF Waits, Questions
<1>2. QED
  BY <1>1, Zenon DEF InStepNow

(* The controller takes a command, and answers a question.                 *)
LEMMA CommandInStep ==
  ASSUME Known, InStepNow, at # "reboot", SetUp!TakeCommand
  PROVE  InStepNow' /\ keyboard' = keyboard
<1> DEFINE name == input[1].byte.name
<1>1. /\ input # <<>> /\ input[1].port = "command" /\ input' = <<>>
      /\ output' = output \o SetUp!Answers(name)
      /\ UNCHANGED <<hardware, at, todo, call, refusals, queue, keyboard>>
  <2>1. Head(input) = input[1]
    OBVIOUS
  <2>2. QED
    BY <2>1, Zenon DEF SetUp!TakeCommand, SetUp!historyVars
<1>2. output \in Seq(ByteType)
  BY DEF Known, SetUpTypes
<1>3. CASE Unanswered(input[1])
  <2>1. name \in Changes
    BY <1>1, <1>3 DEF Unanswered
  <2>2. SetUp!Answers(name) = <<>>
    BY <2>1 DEF Changes, SetUp!Answers
  <2>3. output' = output
    BY <1>1, <1>2, <2>2, ConcatEmptySeq, Zenon
  <2>4. QED
    BY <1>1, <1>3, <2>3, TakenInStep, Zenon
<1>4. CASE ~Unanswered(input[1])
  <2>1. /\ at \in Waits /\ todo = <<>> /\ input[1] = Asks(at, call.script)
        /\ queue = <<>> /\ output = <<>> /\ keyboard.sends = <<>>
    BY <1>1, <1>4, InputKnown, Zenon
  <2>2. call.script \in Remains /\ (at = "answer" => Sends(call.script))
    BY Zenon DEF Known, CallInv, AtRest, Sends
  <2>3. at \in Questions
    <3>1. ASSUME at \in {"enable", "answer"} PROVE FALSE
      <4>1. \A b : SetUp!Data(b).port = "data"
        BY DEF SetUp!Data
      <4>2. input[1].port = "data"
        BY <2>1, <2>2, <3>1, <4>1, AsksFacts
      <4>3. QED
        BY <1>1, <4>2
    <3>2. QED
      BY <2>1, <3>1 DEF Waits
  <2>4. input[1] = SetUp!Command(Question(at)) /\ Question(at) \in Words
    BY <2>1, <2>2, <2>3, AsksFacts, Zenon
  <2>5. name = Question(at)
    BY <2>4, WriteFacts, Zenon
  <2>6. Len(SetUp!Answers(name)) = 1 /\ SetUp!Answers(name)[1].name = AnswerTo(at, hardware)
        /\ SetUp!Answers(name) \in Seq(ByteType)
    <3>1. SetUp!ConfigByte(config).name = "configuration" /\ (\A n : SetUp!Byte(n).name = n)
      BY DEF SetUp!ConfigByte, SetUp!Byte
    <3>2. \A b : Len(<<b>>) = 1 /\ <<b>>[1] = b
      OBVIOUS
    <3>3. \E b : SetUp!Answers(name) = <<b>> /\ b.name = AnswerTo(at, hardware)
      <4>1. CASE at = "test"
        <5>1. /\ name = "TEST_CONTROLLER" /\ name # "READ_CONFIGURATION"
              /\ AnswerTo(at, hardware) = IF hardware.controller THEN "CONTROLLER_TEST_PASSED" ELSE "CONTROLLER_TEST_FAILED"
          BY <2>5, <4>1 DEF Question, AnswerTo
        <5>2. QED
          BY <3>1, <5>1, Zenon DEF SetUp!Answers
      <4>2. CASE at \in {"keyboard port", "mouse port"}
        <5>1. /\ name \in {"TEST_KEYBOARD_PORT", "TEST_MOUSE_PORT"} /\ name # "READ_CONFIGURATION" /\ name # "TEST_CONTROLLER"
              /\ AnswerTo(at, hardware) = IF hardware.ports THEN "PORT_TEST_PASSED" ELSE "PORT_TEST_FAILED"
          BY <2>5, <4>2 DEF Question, AnswerTo
        <5>2. QED
          BY <3>1, <5>1, Zenon DEF SetUp!Answers
      <4>3. CASE at \notin {"test", "keyboard port", "mouse port"}
        <5>1. name = "READ_CONFIGURATION" /\ AnswerTo(at, hardware) = "configuration"
          BY <2>5, <4>3 DEF Question, AnswerTo
        <5>2. QED
          BY <3>1, <5>1, Zenon DEF SetUp!Answers
      <4>4. QED
        BY <4>1, <4>2, <4>3
    <3>4. SetUp!Answers(name) \in Seq(ByteType)
      <4>1. SetUp!Answers(name) \in {<<>>} \cup {<<b>> : b \in ByteType}
        BY AnswersTypes DEF Known
      <4>2. <<>> \in Seq(ByteType) /\ \A b \in ByteType : <<b>> \in Seq(ByteType)
        OBVIOUS
      <4>3. QED
        BY <4>1, <4>2, Zenon
    <3>5. QED
      BY <3>2, <3>3, <3>4, Zenon
  <2>7. output' = SetUp!Answers(name)
    BY <1>1, <2>1, <2>6, ConcatEmptySeq, Zenon
  <2>8. Matches(<<AnswerTo(at, hardware)>>, queue, output', keyboard.sends)
    <3>1. queue \in Seq(ByteType) /\ keyboard.sends \in Seq(Words)
      BY <2>1
    <3>2. output' \in Seq(ByteType) /\ Len(output') = 1 /\ output'[1].name = AnswerTo(at, hardware)
      BY <2>6, <2>7
    <3>3. QED
      BY <2>1, <3>1, <3>2, MatchesFew, Zenon
  <2>9. Asked(at, hardware, todo, input', queue, output', keyboard.sends)
    BY <1>1, <2>1, <2>8, Zenon DEF Asked, Telling
  <2>10. at # "enable" /\ at # "answer" /\ at # "keyboard flush" /\ at # "call"
    BY <2>3 DEF Questions
  <2>11. InStep(at, hardware, call.script, call.times, todo, input', queue, output', keyboard, refusals)
    BY <2>1, <2>9, <2>10, Zenon DEF InStep
  <2>12. QED
    BY <1>1, <2>11, Zenon DEF InStepNow
<1>5. QED
  BY <1>1, <1>3, <1>4

(* The controller takes a configuration byte. *)
LEMMA ConfigurationInStep ==
  ASSUME Known, InStepNow, at # "reboot", SetUp!TakeConfiguration
  PROVE  InStepNow' /\ keyboard' = keyboard
<1>1. /\ input # <<>> /\ input[1].port = "data" /\ input' = <<>> /\ expects = "configuration"
      /\ UNCHANGED <<hardware, at, todo, call, refusals, queue, output, keyboard>>
  <2>1. Head(input) = input[1]
    OBVIOUS
  <2>2. QED
    BY <2>1, Zenon DEF SetUp!TakeConfiguration, SetUp!historyVars
<1>2. IsConfiguration(input[1])
  BY <1>1, Zenon DEF Known, Orderly
<1>3. Unanswered(input[1])
  BY <1>2, SMTT(30) DEF IsConfiguration, Unanswered
<1>4. QED
  BY <1>1, <1>3, TakenInStep, Zenon

(* The keyboard is sent a byte.  It answers, or asks for it again: only    *)
(* what it was not ready for it need not count as a refusal.               *)
LEMMA DataInStep ==
  ASSUME Known, InStepNow, at # "reboot", SetUp!TakeData
  PROVE  /\ InStepNow'
         /\ refusals' >= refusals
         /\ keyboard.scanning => keyboard'.scanning \/ (at = "answer" /\ Head(call.script).name = "DISABLE_SCANNING")
<1> DEFINE name == input[1].byte.name
<1>1. /\ input # <<>> /\ input[1].port = "data" /\ input' = <<>> /\ expects = "keyboard"
      /\ UNCHANGED <<hardware, at, todo, call, queue, output>>
      /\ \/ UNCHANGED <<keyboard, refusals>>
         \/ /\ SetUp!Understood(name) /\ UNCHANGED refusals
            /\ keyboard' = [SetUp!Obeyed(name) EXCEPT !.sends = @ \o SetUp!Reply(name)]
         \/ /\ IF SetUp!Understood(name) THEN refusals' = refusals + 1 ELSE UNCHANGED refusals
            /\ keyboard' = [keyboard EXCEPT !.sends = Append(@, "RESEND")]
  <2>1. Head(input) = input[1]
    OBVIOUS
  <2>2. QED
    BY <2>1, Zenon DEF SetUp!TakeData
<1>2. ~IsConfiguration(input[1])
  <2>1. expects # "configuration"
    BY <1>1
  <2>2. QED
    BY <1>1, <2>1, Zenon DEF Known, Orderly
<1>3. ~Unanswered(input[1])
  BY <1>1, <1>2 DEF IsConfiguration, Unanswered
<1>4. /\ at \in Waits /\ todo = <<>> /\ input[1] = Asks(at, call.script)
      /\ queue = <<>> /\ output = <<>> /\ keyboard.sends = <<>>
  BY <1>1, <1>3, InputKnown, Zenon
<1>5. call.script \in Remains /\ (at = "answer" => Sends(call.script))
  BY Zenon DEF Known, CallInv, AtRest, Sends
<1>6. at \in {"enable", "answer"}
  <2>1. ASSUME at \in Questions PROVE FALSE
    <3>1. \A n : SetUp!Command(n).port = "command"
      BY DEF SetUp!Command
    <3>2. input[1].port = "command"
      BY <1>4, <1>5, <2>1, <3>1, AsksFacts
    <3>3. QED
      BY <1>1, <3>2
  <2>2. QED
    BY <1>4, <2>1 DEF Waits
<1>7. /\ at = "enable" => name = "ENABLE_SCANNING"
      /\ at = "answer" => name = Head(call.script).name /\ name \in KeyboardCommands
  <2>1. KeyboardCommands \subseteq Words /\ "ENABLE_SCANNING" \in Words
    BY DEF KeyboardCommands, Words
  <2>2. at = "enable" => input[1] = SetUp!Data(SetUp!Byte("ENABLE_SCANNING"))
    BY <1>4, <1>5, AsksFacts, Zenon
  <2>3. at = "answer" => input[1] = SetUp!Data(SetUp!Byte(Head(call.script).name)) /\ Head(call.script).name \in KeyboardCommands
    BY <1>4, <1>5, AsksFacts, Zenon
  <2>4. \A n \in Words : SetUp!Data(SetUp!Byte(n)).byte.name = n
    BY WriteFacts, Zenon
  <2>5. QED
    BY <2>1, <2>2, <2>3, <2>4
<1>8. name \in KeyboardCommands /\ name \in Words
  <2>1. "ENABLE_SCANNING" \in KeyboardCommands
    BY DEF KeyboardCommands
  <2>2. name \in KeyboardCommands
    BY <1>6, <1>7, <2>1
  <2>3. QED
    BY <2>2 DEF KeyboardCommands, Words
<1>9. /\ SetUpTypes /\ keyboard \in KeyboardState
      /\ refusals \in Nat /\ call.times \in 0 .. ResendTimesCount /\ ResendTimesCount \in Nat
  <2>1. SetUpTypes
    BY DEF Known
  <2>2. call.times \in 0 .. ResendTimesCount
    BY <2>1, CallParts
  <2>3. QED
    BY <2>1, <2>2, PS2Assumption DEF SetUpTypes, SetUp!PS2SetupAssumption
<1>10. refusals >= ResendTimesCount - call.times
  BY <1>4, <1>6, WaitingFacts
<1>11. Ready(name, keyboard)
  <2>1. \A names : ~Telling(names, todo, input, queue, output, keyboard.sends)
    BY <1>1, Zenon DEF Telling
  <2>2. at = "answer" => Ready(Head(call.script).name, keyboard)
    BY <2>1, Zenon DEF InStepNow, InStep, Told
  <2>3. at = "enable" => Ready("ENABLE_SCANNING", keyboard)
    BY <2>1, Zenon DEF InStepNow, InStep, Told
  <2>4. QED
    BY <1>6, <1>7, <2>2, <2>3
<1>12. SetUp!Understood(name)
  <2>1. SetUp!Sets = {"SET_1", "SET_2", "SET_3"}
    <3>1. 1 .. 3 = {1, 2, 3}
      OBVIOUS
    <3>2. SetUp!ScanCodeSet(1) = "SET_1" /\ SetUp!ScanCodeSet(2) = "SET_2" /\ SetUp!ScanCodeSet(3) = "SET_3"
      BY DEF SetUp!ScanCodeSet
    <3>3. QED
      BY <3>1, <3>2 DEF SetUp!Sets
  <2>2. QED
    BY <1>11, <2>1 DEF SetUp!Understood, Ready, Arguments
<1> HIDE DEF name
<1>13. ASSUME Told(name, todo, <<>>, queue, output, keyboard', refusals' > ResendTimesCount - call.times),
              refusals' >= ResendTimesCount - call.times
       PROVE  InStepNow'
  <2>1. at \notin Questions /\ at \notin {"keyboard flush", "call"}
    BY <1>6 DEF Questions
  <2>2. /\ at = "enable" => Told("ENABLE_SCANNING", todo, <<>>, queue, output, keyboard', refusals' > ResendTimesCount - call.times)
        /\ at = "answer" => Told(Head(call.script).name, todo, <<>>, queue, output, keyboard', refusals' > ResendTimesCount - call.times)
    BY <1>7, <1>13
  <2>3. InStep(at, hardware, call.script, call.times, todo, <<>>, queue, output, keyboard', refusals')
    BY <1>4, <1>13, <2>1, <2>2, Zenon DEF InStep
  <2>4. QED
    BY <1>1, <2>3, Zenon DEF InStepNow
<1>14. <<>> \in Seq(ByteType) /\ <<>> \in Seq(Words) /\ <<"RESEND">> \in Seq(Words)
  BY DEF Words
<1>15. CASE UNCHANGED <<keyboard, refusals>>
  <2>1. Matches(<<>>, queue, output, keyboard'.sends)
    BY <1>4, <1>14, <1>15, MatchesFew, Zenon
  <2>2. Told(name, todo, <<>>, queue, output, keyboard', refusals' > ResendTimesCount - call.times)
    BY <1>4, <1>11, <1>15, <2>1, Zenon DEF Told, Telling
  <2>3. refusals' >= ResendTimesCount - call.times /\ refusals' >= refusals
    BY <1>9, <1>10, <1>15
  <2>4. QED
    BY <1>13, <1>15, <2>2, <2>3
<1>16. CASE /\ SetUp!Understood(name) /\ UNCHANGED refusals
            /\ keyboard' = [SetUp!Obeyed(name) EXCEPT !.sends = @ \o SetUp!Reply(name)]
  <2>1. Matches(Replies(name), <<>>, <<>>, keyboard'.sends) /\ Done(name, keyboard')
        /\ (keyboard.scanning /\ name # "DISABLE_SCANNING" => keyboard'.scanning)
    BY <1>4, <1>8, <1>9, <1>16, KeyboardAnswers, Zenon
  <2>2. Told(name, todo, <<>>, queue, output, keyboard', refusals' > ResendTimesCount - call.times)
    BY <1>4, <2>1, Zenon DEF Told, Telling
  <2>3. refusals' >= ResendTimesCount - call.times /\ refusals' >= refusals
    BY <1>9, <1>10, <1>16
  <2>4. name = "DISABLE_SCANNING" => at = "answer" /\ Head(call.script).name = "DISABLE_SCANNING"
    BY <1>6, <1>7
  <2>5. QED
    BY <1>13, <2>1, <2>2, <2>3, <2>4
<1>17. CASE /\ IF SetUp!Understood(name) THEN refusals' = refusals + 1 ELSE UNCHANGED refusals
            /\ keyboard' = [keyboard EXCEPT !.sends = Append(@, "RESEND")]
  <2>1. refusals' = refusals + 1
    BY <1>12, <1>17
  <2>2. keyboard'.sends = <<"RESEND">> /\ keyboard'.scanning = keyboard.scanning /\ keyboard'.argument = keyboard.argument
    <3>1. /\ keyboard'.sends = Append(keyboard.sends, "RESEND")
          /\ keyboard'.scanning = keyboard.scanning /\ keyboard'.argument = keyboard.argument
      BY <1>9, <1>17 DEF KeyboardState
    <3>2. QED
      BY <1>4, <3>1
  <2>3. Matches(<<"RESEND">>, <<>>, <<>>, <<"RESEND">>)
    BY DEF Matches
  <2>4. Ready(name, keyboard')
    BY <1>11, <2>2 DEF Ready
  <2>5. refusals' > ResendTimesCount - call.times /\ refusals' >= ResendTimesCount - call.times /\ refusals' >= refusals
    BY <1>9, <1>10, <2>1
  <2>6. Told(name, todo, <<>>, queue, output, keyboard', refusals' > ResendTimesCount - call.times)
    BY <1>4, <2>2, <2>3, <2>4, <2>5, Zenon DEF Told, Telling
  <2>7. QED
    BY <1>13, <2>2, <2>5, <2>6
<1>18. QED
  BY <1>1, <1>15, <1>16, <1>17 DEF name

(* Bytes are queued, or sent. *)
LEMMA MovesInStep ==
  ASSUME Known, InStepNow, SetUp!Deliver \/ SetUp!IRQHandler
  PROVE  InStepNow' /\ refusals' = refusals /\ keyboard'.scanning = keyboard.scanning
<1>1. /\ queue \in Seq(ByteType) /\ output \in Seq(ByteType) /\ keyboard.sends \in Seq(Words)
      /\ keyboard \in KeyboardState
  BY DEF Known, SetUpTypes, KeyboardState
<1>2. CASE SetUp!Deliver
  <2>1. /\ UNCHANGED <<hardware, at, todo, call, refusals, input>> /\ queue' = queue
        /\ output = <<>> /\ keyboard.sends # <<>> /\ output' = <<SetUp!Byte(Head(keyboard.sends))>>
        /\ keyboard' = [keyboard EXCEPT !.sends = Tail(@)]
    BY <1>2, Zenon DEF SetUp!Deliver, SetUp!historyVars
  <2>2. /\ keyboard'.sends = Tail(keyboard.sends) /\ keyboard'.scanning = keyboard.scanning
        /\ keyboard'.argument = keyboard.argument
    BY <1>1, <2>1 DEF KeyboardState
  <2>3. \A names \in Seq(Words) : Matches(names, queue, output, keyboard.sends)
                                     => Matches(names, queue', output', keyboard'.sends)
    <3> SUFFICES ASSUME NEW names \in Seq(Words), Matches(names, queue, output, keyboard.sends)
                 PROVE  Matches(names, queue', output', keyboard'.sends)
      OBVIOUS
    <3>1. Matches(names, queue, <<SetUp!Byte(Head(keyboard.sends))>>, Tail(keyboard.sends))
      BY <1>1, <2>1, MatchesMoves, Zenon
    <3>2. QED
      BY <2>1, <2>2, <3>1, Zenon
  <2>4. QED
    BY <2>1, <2>2, <2>3, BytesInStep
<1>3. CASE SetUp!IRQHandler
  <2>1. /\ UNCHANGED <<hardware, at, todo, call, refusals, input>> /\ keyboard' = keyboard
        /\ output # <<>> /\ output' = <<>> /\ queue' = queue \o output
    BY <1>3, Zenon DEF SetUp!IRQHandler, SetUp!historyVars
  <2>2. \A names \in Seq(Words) : Matches(names, queue, output, keyboard.sends)
                                     => Matches(names, queue', output', keyboard'.sends)
    BY <1>1, <2>1, MatchesMoves, Zenon
  <2>3. QED
    BY <2>1, <2>2, BytesInStep
<1>4. QED
  BY <1>2, <1>3

(* A step of a device keeps what holds before a key is pressed.            *)
LEMMA UntypedDevice == Known /\ Untyped /\ DeviceStep => Untyped'
<1> SUFFICES ASSUME Known, Untyped, DeviceStep, keys' = 0 PROVE
      InStepNow' /\ ScanningComes' /\ Reasons' /\ lost' \subseteq LostNames
  BY Zenon DEF Untyped, InStepNow
<1>1. UNCHANGED <<hardware, at, todo, call, available, lost>>
  BY DeviceLeavesDriver
<1>2. keys = 0 /\ ~SetUp!PressKey
  <2>1. keys \in Nat
    BY DEF Known, SetUpTypes
  <2>2. ASSUME SetUp!PressKey PROVE FALSE
    <3>1. keys' = keys + 1
      BY <2>2 DEF SetUp!PressKey
    <3>2. QED
      BY <2>1, <3>1
  <2>3. keys' = keys
    BY <2>2, Zenon DEF DeviceStep, SetUp!TakeCommand, SetUp!TakeConfiguration, SetUp!TakeData, SetUp!Deliver,
       SetUp!IRQHandler, SetUp!historyVars
  <2>4. QED
    BY <2>2, <2>3
<1>3. InStepNow /\ ScanningComes /\ Reasons /\ lost \subseteq LostNames
  BY <1>2, Zenon DEF Untyped, InStepNow
<1>4. refusals \in Nat /\ refusals' \in Nat /\ call.script \in Seq(StepType) /\ ResendTimesCount \in Nat
  <2>1. SetUpTypes'
    BY SetUpTypesStep, Zenon DEF Known, SetUp!Next, SetUp!Device, DeviceStep
  <2>2. SetUpTypes
    BY DEF Known
  <2>3. call.script \in Seq(StepType)
    BY <2>2, CallParts
  <2>4. QED
    BY <2>1, <2>2, <2>3, PS2Assumption DEF SetUpTypes, SetUp!PS2SetupAssumption
<1>5. /\ at # "reboot" => InStepNow'
      /\ refusals' >= refusals
      /\ keyboard.scanning => keyboard'.scanning
           \/ (at = "answer" /\ Head(call.script).name = "DISABLE_SCANNING") \/ at = "reboot"
  <2>1. CASE at = "reboot"
    <3>1. refusals' = refusals \/ refusals' = refusals + 1
      BY <1>2, Zenon DEF DeviceStep, SetUp!TakeCommand, SetUp!TakeConfiguration, SetUp!TakeData, SetUp!Deliver,
         SetUp!IRQHandler, SetUp!historyVars
    <3>2. QED
      BY <1>4, <2>1, <3>1
  <2>2. CASE at # "reboot"
    <3>1. CASE SetUp!TakeCommand
      <4>1. refusals' = refusals
        BY <3>1, Zenon DEF SetUp!TakeCommand, SetUp!historyVars
      <4>2. QED
        BY <1>3, <1>4, <2>2, <3>1, <4>1, CommandInStep
    <3>2. CASE SetUp!TakeConfiguration
      <4>1. refusals' = refusals
        BY <3>2, Zenon DEF SetUp!TakeConfiguration, SetUp!historyVars
      <4>2. QED
        BY <1>3, <1>4, <2>2, <3>2, <4>1, ConfigurationInStep
    <3>3. CASE SetUp!TakeData
      BY <1>3, <2>2, <3>3, DataInStep
    <3>4. CASE SetUp!Deliver \/ SetUp!IRQHandler
      BY <1>3, <1>4, <3>4, MovesInStep
    <3>5. QED
      BY <1>2, <3>1, <3>2, <3>3, <3>4, Zenon DEF DeviceStep
  <2>3. QED
    BY <2>1, <2>2
<1>6. InStepNow'
  BY <1>1, <1>5, RebootInStep
<1>7. Reasons'
  <2>1. refusals > ResendTimesCount => refusals' > ResendTimesCount
    BY <1>4, <1>5
  <2>2. QED
    BY <1>1, <1>3, <2>1, Zenon DEF Reasons
<1>8. ScanningComes'
  <2>1. ASSUME at = "answer", Head(call.script).name = "DISABLE_SCANNING" PROVE call.finally # <<>>
    <3>1. call.script # <<>> /\ Head(call.script).does = "send"
      BY <2>1, Zenon DEF Known, AtRest
    <3>2. Head(call.script) \in StepType
      BY <1>4, <3>1
    <3>3. Head(call.script) = SetUp!Send("DISABLE_SCANNING")
      BY <2>1, <3>1, <3>2 DEF StepType, SetUp!Send
    <3>4. QED
      BY <3>1, <3>3, Zenon DEF Known, CallInv
  <2>2. refusals' <= ResendTimesCount => refusals <= ResendTimesCount
    BY <1>4, <1>5
  <2>3. "answer" \in InCall
    BY DEF InCall
  <2>4. CASE at # "reboot"
    BY <1>1, <1>3, <1>5, <2>1, <2>2, <2>3, <2>4, Zenon DEF ScanningComes
  <2>5. CASE at = "reboot"
    BY <1>1, <2>5, Zenon DEF ScanningComes
  <2>6. QED
    BY <2>4, <2>5
<1>9. QED
  BY <1>1, <1>3, <1>6, <1>7, <1>8

(* A write keeps what holds before a key is pressed.                       *)
LEMMA UntypedWrite == Known /\ Untyped /\ SetUp!Write => Untyped'
<1> SUFFICES ASSUME Known, Untyped, SetUp!Write, keys' = 0 PROVE
      InStepNow' /\ ScanningComes' /\ Reasons' /\ lost' \subseteq LostNames
  BY Zenon DEF Untyped, InStepNow
<1>1. UNCHANGED <<hardware, keyboard, at, available, call, keys, refusals>>
  BY Zenon DEF SetUp!Write, SetUp!localVars
<1>2. InStepNow /\ ScanningComes /\ Reasons /\ lost \subseteq LostNames
  BY <1>1, Zenon DEF Untyped, InStepNow
<1>3. InStepNow' /\ lost' \subseteq LostNames
  BY <1>2, WriteInStep
<1>4. ScanningComes' /\ Reasons'
  BY <1>1, <1>2, Zenon DEF ScanningComes, Reasons
<1>5. QED
  BY <1>3, <1>4

(* What the driver is told where it polls. *)
LEMMA PolledFacts ==
  ASSUME Known, InStepNow, output # <<>>, todo = <<>>
  PROVE  /\ at \in Questions \cup {"enable"} =>
              input = <<>> /\ queue = <<>> /\ keyboard.sends = <<>>
         /\ at \in Questions => Head(output).name = AnswerTo(at, hardware)
         /\ at = "enable" => \/ Head(output).name = "RESEND" /\ refusals > ResendTimesCount - call.times
                             \/ Head(output).name = "ACK"
         /\ at \notin Waits \cup InCall \cup {"reboot"} => FALSE
<1>1. queue \in Seq(ByteType) /\ output \in Seq(ByteType) /\ keyboard.sends \in Seq(Words) /\ Head(output) = output[1]
  <2>1. queue \in Seq(ByteType) /\ output \in Seq(ByteType) /\ keyboard.sends \in Seq(Words)
    BY DEF Known, SetUpTypes, KeyboardState
  <2>2. Head(output) = output[1]
    OBVIOUS
  <2>3. QED
    BY <2>1, <2>2
<1>2. \A w : ~Asking(w, todo, input, queue, output, keyboard.sends)
  BY Zenon DEF Asking
<1>3. ~Telling(<<>>, todo, input, queue, output, keyboard.sends)
  BY <1>1, MatchesFew, Zenon DEF Telling
<1>4. ASSUME NEW name, Telling(<<name>>, todo, input, queue, output, keyboard.sends)
      PROVE  input = <<>> /\ queue = <<>> /\ keyboard.sends = <<>> /\ name \in {Head(output).name, "anything"}
  BY <1>1, <1>4, MatchesFew, Zenon DEF Telling
<1>5. ASSUME at \in Questions
      PROVE  input = <<>> /\ queue = <<>> /\ keyboard.sends = <<>> /\ Head(output).name = AnswerTo(at, hardware)
  <2>1. Asked(at, hardware, todo, input, queue, output, keyboard.sends)
    BY <1>5, Zenon DEF InStepNow, InStep
  <2>2. Telling(<<AnswerTo(at, hardware)>>, todo, input, queue, output, keyboard.sends)
    BY <1>2, <2>1, Zenon DEF Asked
  <2>3. AnswerTo(at, hardware) # "anything"
    BY DEF AnswerTo
  <2>4. QED
    BY <1>4, <2>2, <2>3
<1>6. ASSUME at = "enable"
      PROVE  /\ input = <<>> /\ queue = <<>> /\ keyboard.sends = <<>>
             /\ \/ Head(output).name = "RESEND" /\ refusals > ResendTimesCount - call.times
                \/ Head(output).name = "ACK"
  <2>1. Told("ENABLE_SCANNING", todo, input, queue, output, keyboard, refusals > ResendTimesCount - call.times)
    BY <1>6, Zenon DEF InStepNow, InStep
  <2>2. Replies("ENABLE_SCANNING") = <<"ACK">>
    <3>1. Replies("ENABLE_SCANNING") = <<"ACK">> \o <<>>
      BY DEF Replies, Behind
    <3>2. <<"ACK">> \in Seq(Words)
      BY DEF Words
    <3>3. QED
      BY <3>1, <3>2, ConcatEmptySeq
  <2>3. \/ Telling(<<"RESEND">>, todo, input, queue, output, keyboard.sends) /\ refusals > ResendTimesCount - call.times
        \/ Telling(<<"ACK">>, todo, input, queue, output, keyboard.sends)
    BY <1>2, <1>3, <2>1, <2>2, Zenon DEF Told
  <2>4. QED
    BY <1>4, <2>3
<1>7. ASSUME at \notin Waits \cup InCall \cup {"reboot"} PROVE FALSE
  <2>1. Loose(call.script, todo, input, queue, output, keyboard.sends)
    BY <1>7, Zenon DEF InStepNow, InStep
  <2>2. call.script = <<>>
    BY <1>7, Zenon DEF Known, AtRest
  <2>3. Due(call.script) = <<>>
    BY <2>2 DEF Due, Takes
  <2>4. Matches(<<>>, queue, output, keyboard.sends)
    BY <2>1, <2>3, Zenon DEF Loose
  <2>5. QED
    BY <1>1, <2>4, MatchesFew, Zenon
<1>8. QED
  BY <1>5, <1>6, <1>7

(* Nothing is under way, and the driver begins something. *)
LEMMA AskNext ==
  ASSUME Known, DriverStep, Sent(at', todo', call'.script, input), AllUnanswered(input),
         queue' = <<>>, output' = <<>>, keyboard.sends = <<>>,
         at' \notin Waits => Due(call'.script) = <<>>,
         at' \in {"keyboard flush", "enable", "answer"} => refusals >= ResendTimesCount - call'.times,
         at' = "answer" \/ (at' = "call" /\ Sends(call'.script)) => Ready(Head(call'.script).name, keyboard)
  PROVE  InStepNow'
<1>1. SetUp!Next
  BY Zenon DEF DriverStep, SetUp!Next, SetUp!Driver
<1>2. SetUpTypes' /\ AtRest' /\ CallInv'
  BY <1>1, SetUpTypesStep, AtRestStep, CallInvStep DEF Known
<1>3. UNCHANGED <<hardware, input, keyboard, refusals>>
  BY DriverGoesOn, Zenon DEF Known, GoesOn
<1>4. /\ at' \in Waits => EndsWith(todo', Asks(at', call'.script))
      /\ at' \notin Waits \cup {"reboot"} => AllUnanswered(todo')
  <2>1. at' = "answer" => Sends(call'.script)
    BY <1>2, Zenon DEF AtRest, Sends
  <2>2. at' \in Places /\ call'.script \in Remains
    BY <1>2, Zenon DEF SetUpTypes, CallInv
  <2>3. QED
    BY <2>1, <2>2, SentIsFresh, Zenon
<1>5. CASE at' \in Waits
  <2>1. Asking(Asks(at', call'.script), todo', input, queue', output', keyboard.sends)
    BY <1>4, <1>5, Zenon DEF Asking
  <2>2. InStep(at', hardware, call'.script, call'.times, todo', input, queue', output', keyboard, refusals)
    BY <1>5, <2>1, AskingIsInStep
  <2>3. QED
    BY <1>3, <2>2, Zenon DEF InStepNow
<1>6. CASE at' \notin Waits
  <2>1. Matches(<<>>, <<>>, <<>>, <<>>)
    <3>1. <<>> \in Seq(ByteType) /\ <<>> \in Seq(Words)
      BY EmptySeq, Zenon
    <3>2. QED
      BY <3>1, MatchesFew, Zenon
  <2>2. at' # "reboot" => Loose(call'.script, todo', input, queue', output', keyboard.sends)
    BY <1>4, <1>6, <2>1, Zenon DEF Loose
  <2>3. InStep(at', hardware, call'.script, call'.times, todo', input, queue', output', keyboard, refusals)
    BY <1>6, <2>2, LooseIsInStep
  <2>4. QED
    BY <1>3, <2>3, Zenon DEF InStepNow
<1>7. QED
  BY <1>5, <1>6

(* The driver polls an answer, and goes on. *)
LEMMA PollInStep ==
  ASSUME Known, InStepNow, Reasons, SetUp!Polls
  PROVE  InStepNow' /\ Reasons'
<1>1. DriverStep
  BY Zenon DEF DriverStep
<1>2. GoesOn
  BY <1>1, DriverGoesOn DEF Known
<1>3. todo = <<>> /\ UNCHANGED <<hardware, input, keyboard, refusals>>
  BY <1>2, Zenon DEF GoesOn
<1>4. AllUnanswered(<<>>)
  BY DEF AllUnanswered
<1>5. call.times \in 0 .. ResendTimesCount /\ refusals \in Nat /\ ResendTimesCount \in Nat
  BY CallParts, PS2Assumption DEF Known, SetUpTypes, SetUp!PS2SetupAssumption
<1>6. ASSUME NEW place, SetUp!ReadAnswer(place)
      PROVE  at = place /\ output # <<>> /\ queue' = queue /\ output' = <<>>
  BY <1>6, Zenon DEF SetUp!ReadAnswer
<1>7. at \notin InCall => call.script = <<>>
  BY Zenon DEF Known, AtRest
<1>8. \A p \in Questions \cup {"enable"} : p \notin InCall
  BY DEF Questions, InCall
<1>9. Due(<<>>) = <<>>
  BY DEF Due, Takes
<1>10. ASSUME NEW place \in {"flush", "keyboard flush", "reboot flush"}, SetUp!Flush(place) PROVE FALSE
  <2>1. at = place /\ output # <<>>
    BY <1>6, <1>10, Zenon DEF SetUp!Flush
  <2>2. at \notin Waits \cup InCall \cup {"reboot"}
    BY <2>1 DEF Waits, Questions, InCall
  <2>3. QED
    BY <1>3, <2>1, <2>2, PolledFacts
<1>11. ASSUME at \in Questions, output # <<>>, queue' = queue, output' = <<>>, call' = call, at' # at,
              at' \notin {"keyboard flush", "enable", "answer", "call"}
       PROVE  InStepNow'
  <2>1. Sent(at', todo', call'.script, input)
    BY <1>2, <1>11, Zenon DEF GoesOn
  <2>2. input = <<>> /\ queue = <<>> /\ keyboard.sends = <<>>
    BY <1>3, <1>11, PolledFacts
  <2>3. Due(call'.script) = <<>>
    BY <1>7, <1>8, <1>9, <1>11
  <2>4. QED
    BY <1>1, <1>4, <1>11, <2>1, <2>2, <2>3, AskNext, Zenon
<1>12. CASE SetUp!Configure
  <2>1. SetUp!ReadAnswer("configure") /\ at' = "test" /\ call' = call
    BY <1>12, Zenon DEF SetUp!Configure, SetUp!GoTo
  <2>2. at = "configure" /\ output # <<>> /\ queue' = queue /\ output' = <<>>
    BY <1>6, <2>1
  <2>3. at \in Questions /\ at' # at /\ at' \notin {"keyboard flush", "enable", "answer", "call"}
    BY <2>1, <2>2 DEF Questions
  <2>4. Reasons'
    BY <2>1 DEF Reasons
  <2>5. QED
    BY <1>11, <2>1, <2>2, <2>3, <2>4
<1>13. CASE SetUp!TestController
  <2>1. /\ SetUp!ReadAnswer("test") /\ call' = call
        /\ at' \in {"no controller", "keyboard port", "mouse"}
        /\ at' = "no controller" => Head(output).name # "CONTROLLER_TEST_PASSED"
    BY <1>13, Zenon DEF SetUp!TestController, SetUp!GoTo, SetUp!Answer
  <2>2. at = "test" /\ output # <<>> /\ queue' = queue /\ output' = <<>>
    BY <1>6, <2>1
  <2>3. at \in Questions /\ at' # at /\ at' \notin {"keyboard flush", "enable", "answer", "call"}
    BY <2>1, <2>2 DEF Questions
  <2>4. Head(output).name = IF hardware.controller THEN "CONTROLLER_TEST_PASSED" ELSE "CONTROLLER_TEST_FAILED"
    BY <1>3, <2>2, <2>3, PolledFacts DEF AnswerTo
  <2>5. Reasons'
    BY <1>3, <2>1, <2>4 DEF Reasons
  <2>6. QED
    BY <1>11, <2>1, <2>2, <2>3, <2>5
<1>14. CASE SetUp!FindMouse
  <2>1. SetUp!ReadAnswer("mouse") /\ at' = "keyboard port" /\ call' = call
    BY <1>14, Zenon DEF SetUp!FindMouse, SetUp!GoTo
  <2>2. at = "mouse" /\ output # <<>> /\ queue' = queue /\ output' = <<>>
    BY <1>6, <2>1
  <2>3. at \in Questions /\ at' # at /\ at' \notin {"keyboard flush", "enable", "answer", "call"}
    BY <2>1, <2>2 DEF Questions
  <2>4. Reasons'
    BY <2>1 DEF Reasons
  <2>5. QED
    BY <1>11, <2>1, <2>2, <2>3, <2>4
<1>15. ASSUME NEW port \in {"keyboard port", "mouse port"}, SetUp!TestPort(port)
       PROVE  InStepNow' /\ Reasons'
  <2>1. /\ SetUp!ReadAnswer(port) /\ call' = call
        /\ at' = "controller ready" \/ (at' = "mouse port" /\ port = "keyboard port")
        /\ available' = IF Head(output).name = "PORT_TEST_PASSED" THEN available \cup {port} ELSE available \ {port}
    BY <1>15, Zenon DEF SetUp!TestPort, SetUp!GoTo, SetUp!Answer
  <2>2. at = port /\ output # <<>> /\ queue' = queue /\ output' = <<>>
    BY <1>6, <2>1
  <2>3. at \in Questions /\ at' # at /\ at' \notin {"keyboard flush", "enable", "answer", "call"}
    BY <2>1, <2>2 DEF Questions
  <2>4. Head(output).name = IF hardware.ports THEN "PORT_TEST_PASSED" ELSE "PORT_TEST_FAILED"
    BY <1>3, <2>2, <2>3, PolledFacts DEF AnswerTo
  <2>5. "keyboard port" \in available' \/ ~hardware.ports
    <3>1. CASE port = "keyboard port"
      BY <2>1, <2>4, <3>1
    <3>2. CASE port = "mouse port"
      <4>1. "keyboard port" \in available \/ ~hardware.ports
        BY <2>2, <3>2 DEF Reasons
      <4>2. QED
        BY <2>1, <3>2, <4>1
    <3>3. QED
      BY <3>1, <3>2
  <2>6. Reasons'
    BY <1>3, <2>1, <2>5 DEF Reasons
  <2>7. QED
    BY <1>11, <2>1, <2>2, <2>3, <2>6
<1>16. CASE SetUp!EnableScanning
  <2>1. SetUp!ReadAnswer("enable")
    BY <1>16, Zenon DEF SetUp!EnableScanning
  <2>2. at = "enable" /\ output # <<>> /\ queue' = queue /\ output' = <<>>
    BY <1>6, <2>1
  <2>3. /\ input = <<>> /\ queue = <<>> /\ keyboard.sends = <<>>
        /\ \/ Head(output).name = "RESEND" /\ refusals > ResendTimesCount - call.times
           \/ Head(output).name = "ACK"
    BY <1>3, <2>2, PolledFacts
  <2>4. call.script = <<>>
    BY <1>7, <1>8, <2>2
  <2>5. \/ at' = "reconfigure" /\ call' = call
        \/ /\ Head(output).name # "ACK" /\ at' = "no keyboard" /\ call' = call
           /\ ~(Head(output).name = "RESEND" /\ SetUp!MayResend(call.times))
        \/ /\ Head(output).name # "ACK" /\ SetUp!MayResend(call.times) /\ at' = at /\ todo' = todo
           /\ call' = [call EXCEPT !.times = @ - 1]
    BY <1>16, Zenon DEF SetUp!EnableScanning, SetUp!GoTo, SetUp!Answer
  <2>6. CASE at' = "reconfigure" /\ call' = call
    <3>1. Sent(at', todo', call'.script, input)
      BY <1>2, <2>2, <2>6, Zenon DEF GoesOn
    <3>2. InStepNow'
      BY <1>1, <1>4, <1>9, <2>2, <2>3, <2>4, <2>6, <3>1, AskNext, Zenon
    <3>3. QED
      BY <2>6, <3>2 DEF Reasons
  <2>7. CASE /\ Head(output).name # "ACK" /\ at' = "no keyboard" /\ call' = call
             /\ ~(Head(output).name = "RESEND" /\ SetUp!MayResend(call.times))
    <3>1. Sent(at', todo', call'.script, input)
      BY <1>2, <2>2, <2>7, Zenon DEF GoesOn
    <3>2. InStepNow'
      BY <1>1, <1>4, <1>9, <2>2, <2>3, <2>4, <2>7, <3>1, AskNext, Zenon
    <3>3. refusals > ResendTimesCount
      <4>1. refusals > ResendTimesCount - call.times /\ ~(call.times > 0)
        BY <2>3, <2>7, Zenon DEF SetUp!MayResend
      <4>2. QED
        BY <1>5, <4>1
    <3>4. QED
      BY <1>3, <2>7, <3>2, <3>3 DEF Reasons
  <2>8. CASE /\ Head(output).name # "ACK" /\ SetUp!MayResend(call.times) /\ at' = at /\ todo' = todo
             /\ call' = [call EXCEPT !.times = @ - 1]
    <3>1. call'.times = call.times - 1 /\ call'.script = call.script
      BY <2>8, CallParts, Zenon DEF Known
    <3>2. refusals >= ResendTimesCount - call'.times
      BY <1>5, <2>3, <2>8, <3>1
    <3>3. Matches(<<>>, queue', output', keyboard.sends)
      <4>1. <<>> \in Seq(ByteType) /\ <<>> \in Seq(Words)
        BY EmptySeq, Zenon
      <4>2. QED
        BY <2>2, <2>3, <4>1, MatchesFew, Zenon
    <3>4. Told("ENABLE_SCANNING", todo', input, queue', output', keyboard, refusals > ResendTimesCount - call'.times)
      <4>1. Ready("ENABLE_SCANNING", keyboard)
        BY DEF Ready, Arguments
      <4>2. QED
        BY <1>3, <2>3, <2>8, <3>3, <4>1, Zenon DEF Told, Telling
    <3>5. at' \notin Questions \cup {"answer", "call"} /\ at' \in Waits
      BY <2>2, <2>8 DEF Questions, Waits
    <3>6. InStep(at', hardware, call'.script, call'.times, todo', input, queue', output', keyboard, refusals)
      BY <3>2, <3>4, <3>5, Zenon DEF InStep
    <3>7. InStepNow'
      BY <1>3, <3>6, Zenon DEF InStepNow
    <3>8. QED
      BY <2>2, <2>8, <3>7 DEF Reasons
  <2>9. QED
    BY <2>5, <2>6, <2>7, <2>8
<1>17. CASE SetUp!Reconfigure
  <2>1. SetUp!ReadAnswer("reconfigure") /\ at' = "call" /\ call' = SetUp!Calling(SetUp!Reset \o SetUp!SetScanCodeSet(2))
    BY <1>17, Zenon DEF SetUp!Reconfigure, SetUp!GoTo
  <2>2. at = "reconfigure" /\ output # <<>> /\ queue' = queue /\ output' = <<>>
    BY <1>6, <2>1
  <2>3. at \in Questions /\ at' # at
    BY <2>1, <2>2 DEF Questions
  <2>4. input = <<>> /\ queue = <<>> /\ keyboard.sends = <<>>
    BY <1>3, <2>2, <2>3, PolledFacts
  <2>5. Sent(at', todo', call'.script, input)
    BY <1>2, <2>3, Zenon DEF GoesOn
  <2>6. Due(call'.script) = <<>> /\ Head(call'.script).name \notin Arguments
    BY <2>1, ScriptsBegin, FinallyIsKnown, Zenon DEF Scripts
  <2>7. Ready(Head(call'.script).name, keyboard)
    BY <2>6 DEF Ready
  <2>8. at' \notin {"keyboard flush", "enable", "answer"}
    BY <2>1
  <2>9. InStepNow'
    BY <1>1, <1>4, <2>2, <2>4, <2>5, <2>6, <2>7, <2>8, AskNext, Zenon
  <2>10. QED
    BY <2>1, <2>9 DEF Reasons
<1>18. QED
  BY <1>10, <1>12, <1>13, <1>14, <1>15, <1>16, <1>17, Zenon DEF SetUp!Polls

(* Where nothing is under way, nothing is on its way. *)
LEMMA NothingUnderWay ==
  ASSUME Known, InStepNow, at \notin Waits \cup {"reboot"}, Due(call.script) = <<>>
  PROVE  AllUnanswered(input) /\ queue = <<>> /\ output = <<>> /\ keyboard.sends = <<>>
<1>1. queue \in Seq(ByteType) /\ output \in Seq(ByteType) /\ keyboard.sends \in Seq(Words)
  BY DEF Known, SetUpTypes, KeyboardState
<1>2. AllUnanswered(input) /\ Matches(<<>>, queue, output, keyboard.sends)
  BY Zenon DEF InStepNow, InStep, Loose
<1>3. QED
  BY <1>1, <1>2, MatchesFew, Zenon

(* What the driver takes from the queue where it waits for an answer. *)
LEMMA AnswerTaken ==
  ASSUME Known, InStepNow, at = "answer", todo = <<>>, queue # <<>>
  PROVE  /\ input = <<>>
         /\ \/ /\ Head(queue).name = "RESEND" /\ refusals > ResendTimesCount - call.times
               /\ Ready(Head(call.script).name, keyboard)
               /\ Tail(queue) = <<>> /\ output = <<>> /\ keyboard.sends = <<>>
            \/ /\ Head(call.script).name = "ECHO" /\ Head(queue).name = "ECHO"
               /\ Tail(queue) = <<>> /\ output = <<>> /\ keyboard.sends = <<>>
            \/ /\ Head(call.script).name # "ECHO" /\ Head(queue).name = "ACK" /\ Done(Head(call.script).name, keyboard)
               /\ Matches(Behind(Head(call.script).name), Tail(queue), output, keyboard.sends)
<1> DEFINE name == Head(call.script).name
           tells(names) == Telling(names, todo, input, queue, output, keyboard.sends)
<1>1. /\ queue \in Seq(ByteType) /\ output \in Seq(ByteType) /\ keyboard.sends \in Seq(Words)
      /\ Tail(queue) \in Seq(ByteType)
  <2>1. queue \in Seq(ByteType) /\ output \in Seq(ByteType) /\ keyboard.sends \in Seq(Words)
    BY DEF Known, SetUpTypes, KeyboardState
  <2>2. QED
    BY <2>1, HeadTailProperties
<1>2. call.script \in Remains /\ Sends(call.script)
  BY Zenon DEF Known, CallInv, AtRest, Sends
<1>3. name \in Words
  <2>1. name \in KeyboardCommands
    BY <1>2, CallsAreSound, Zenon DEF SoundCall, Sends
  <2>2. QED
    BY <2>1 DEF KeyboardCommands, Words
<1>4. \A w : ~Asking(w, todo, input, queue, output, keyboard.sends)
  BY Zenon DEF Asking
<1>5. Told(name, todo, input, queue, output, keyboard, refusals > ResendTimesCount - call.times)
  BY Zenon DEF InStepNow, InStep
<1> HIDE DEF name
<1>6. ~tells(<<>>)
  BY <1>1, MatchesFew, Zenon DEF Telling
<1> HIDE DEF tells
<1>7. \/ tells(<<"RESEND">>) /\ Ready(name, keyboard) /\ refusals > ResendTimesCount - call.times
      \/ tells(Replies(name)) /\ Done(name, keyboard)
  BY <1>4, <1>5, <1>6, Zenon DEF Told, tells
<1>8. ASSUME NEW names \in Seq(Words), tells(names)
      PROVE  input = <<>> /\ names # <<>> /\ names[1] \in {Head(queue).name, "anything"}
             /\ Matches(Tail(names), Tail(queue), output, keyboard.sends)
  BY <1>1, <1>8, MatchesMoves, Zenon DEF Telling, tells
<1>9. ASSUME NEW word \in Words, tells(<<word>>), word # "anything"
      PROVE  input = <<>> /\ Head(queue).name = word /\ Tail(queue) = <<>> /\ output = <<>> /\ keyboard.sends = <<>>
  <2>1. <<word>> \in Seq(Words) /\ <<word>>[1] = word
    OBVIOUS
  <2>2. Tail(<<word>>) = <<>>
    <3>1. Tail(<<word>>) \in Seq(Words) /\ Len(Tail(<<word>>)) = 0
      BY <2>1
    <3>2. QED
      BY <3>1, EmptySeq
  <2>3. Matches(<<>>, Tail(queue), output, keyboard.sends)
    BY <1>8, <1>9, <2>1, <2>2, Zenon
  <2>4. input = <<>> /\ Head(queue).name = word
    BY <1>8, <1>9, <2>1
  <2>5. Tail(queue) = <<>> /\ output = <<>> /\ keyboard.sends = <<>>
    BY <1>1, <2>3, MatchesFew, Zenon
  <2>6. QED
    BY <2>4, <2>5
<1>10. "RESEND" \in Words /\ "ECHO" \in Words
  BY DEF Words
<1>11. CASE tells(<<"RESEND">>) /\ Ready(name, keyboard) /\ refusals > ResendTimesCount - call.times
  <2>1. input = <<>> /\ Head(queue).name = "RESEND" /\ Tail(queue) = <<>> /\ output = <<>> /\ keyboard.sends = <<>>
    BY <1>9, <1>10, <1>11
  <2>2. QED
    BY <1>11, <2>1, Zenon DEF name
<1>12. CASE tells(Replies(name)) /\ name = "ECHO"
  <2>1. tells(<<"ECHO">>)
    BY <1>3, <1>12, RepliesSpelled, Zenon
  <2>2. input = <<>> /\ Head(queue).name = "ECHO" /\ Tail(queue) = <<>> /\ output = <<>> /\ keyboard.sends = <<>>
    BY <1>9, <1>10, <2>1
  <2>3. QED
    BY <1>12, <2>2, Zenon DEF name
<1>13. CASE tells(Replies(name)) /\ Done(name, keyboard) /\ name # "ECHO"
  <2>1. Replies(name) \in Seq(Words) /\ Replies(name)[1] = "ACK" /\ Tail(Replies(name)) = Behind(name)
    BY <1>3, <1>13, RepliesSpelled, Zenon
  <2>2. input = <<>> /\ "ACK" \in {Head(queue).name, "anything"}
        /\ Matches(Behind(name), Tail(queue), output, keyboard.sends)
    BY <1>8, <1>13, <2>1, Zenon
  <2>3. Head(queue).name = "ACK"
    BY <2>2
  <2>4. QED
    BY <1>13, <2>2, <2>3, Zenon DEF name
<1>14. QED
  BY <1>7, <1>11, <1>12, <1>13, Zenon

(* What it takes where it waits for a result. *)
LEMMA ResultTaken ==
  ASSUME Known, InStepNow, at = "call", Takes(call.script), queue # <<>>
  PROVE  /\ AllUnanswered(input) /\ Head(call.script).name \in {Head(queue).name, "anything"}
         /\ Matches(Due(Tail(call.script)), Tail(queue), output, keyboard.sends)
<1>1. /\ queue \in Seq(ByteType) /\ output \in Seq(ByteType) /\ keyboard.sends \in Seq(Words)
      /\ call.script \in Remains /\ call.script \in Seq(StepType)
  <2>1. queue \in Seq(ByteType) /\ output \in Seq(ByteType) /\ keyboard.sends \in Seq(Words)
    BY DEF Known, SetUpTypes, KeyboardState
  <2>2. call.script \in Remains /\ call.script \in Seq(StepType)
    BY CallParts, Zenon DEF Known, CallInv
  <2>3. QED
    BY <2>1, <2>2
<1>2. at \notin Waits \cup {"reboot"}
  BY DEF Waits, Questions
<1>3. AllUnanswered(input) /\ Matches(Due(call.script), queue, output, keyboard.sends)
  BY <1>2, Zenon DEF InStepNow, InStep, Loose
<1>4. Due(call.script) \in Seq(Words) /\ Due(call.script)[1] = Head(call.script).name
      /\ Tail(Due(call.script)) = Due(Tail(call.script))
  BY <1>1, DueFacts, Zenon
<1>5. Due(call.script)[1] \in {Head(queue).name, "anything"}
      /\ Matches(Tail(Due(call.script)), Tail(queue), output, keyboard.sends)
  BY <1>1, <1>3, <1>4, MatchesMoves, Zenon
<1>6. QED
  BY <1>3, <1>4, <1>5, Zenon

(* The first set-up's call, of which nothing is ECHO. *)
FirstCall == calls = 0 => call.script \in FirstRemains /\ call.finally = <<>>
(* The steps of the first call. *)
LEMMA FirstIsNoEcho ==
  \A script \in FirstRemains : script # <<>> => Head(script).name \in {"RESET", "RESET_DONE", "GET_SET_SCAN_CODE_SET", "SET_2"}
<1> DEFINE R == SetUp!Send("RESET")  D == SetUp!Expect("RESET_DONE")
           G == SetUp!Send("GET_SET_SCAN_CODE_SET")  S2 == SetUp!Send("SET_2")
           T == StepType
<1>1. R \in T /\ D \in T /\ G \in T /\ S2 \in T
  BY NamedSteps DEF Words
<1>2. R.name = "RESET" /\ D.name = "RESET_DONE" /\ G.name = "GET_SET_SCAN_CODE_SET" /\ S2.name = "SET_2"
  BY NamedSteps DEF Words
<1>3. SetUp!SetScanCodeSet(2) = <<G, S2>> /\ FirstScript = <<R, D, G, S2>>
  BY ScriptsSpelled, Zenon DEF FirstScript
<1> HIDE DEF R, D, G, S2
<1>4. Head(<<R, D, G, S2>>) = R /\ Head(<<D, G, S2>>) = D /\ Head(<<G, S2>>) = G /\ Head(<<S2>>) = S2
  <2>1. Spelled(<<R, D, G, S2>>, R, <<D, G, S2>>) /\ Spelled(<<D, G, S2>>, D, <<G, S2>>)
    BY <1>1, TuplesSpelled, Zenon
  <2>2. Spelled(<<G, S2>>, G, <<S2>>) /\ Spelled(<<S2>>, S2, <<>>)
    BY <1>1, TuplesSpelled, Zenon
  <2>3. QED
    BY <2>1, <2>2, Zenon DEF Spelled
<1>5. FirstRemains = {<<>>, <<R, D, G, S2>>, <<D, G, S2>>, <<G, S2>>, <<S2>>}
  BY <1>3, Zenon DEF FirstRemains, R, D, G, S2
<1>6. QED
  BY <1>2, <1>4, <1>5, Zenon

(* A call is over, and nothing is on its way. *)
LEMMA LeaveInStep ==
  ASSUME Known, DriverStep, NEW place \in {"no keyboard", "idle"}, SetUp!Leave(place), AllUnanswered(input),
         queue' = <<>>, output' = <<>>, keyboard.sends = <<>>
  PROVE  InStepNow'
<1>1. Sent(at', todo', call'.script, input)
  BY LeaveGoesOn
<1>2. CASE call.finally # <<>>
  <2>1. call' = SetUp!Calling(call.finally) /\ at' = "call"
    BY <1>2, Zenon DEF SetUp!Leave, SetUp!GoTo
  <2>2. call.finally \in Scripts
    BY <1>2, Zenon DEF Known, AtRest, Scripts
  <2>3. Due(call'.script) = <<>> /\ Head(call'.script).name \notin Arguments
    BY <2>1, <2>2, ScriptsBegin, FinallyIsKnown, Zenon
  <2>4. Ready(Head(call'.script).name, keyboard)
    BY <2>3 DEF Ready
  <2>5. at' \notin {"keyboard flush", "enable", "answer"}
    BY <2>1
  <2>6. QED
    BY <1>1, <2>3, <2>4, <2>5, AskNext, Zenon
<1>3. CASE call.finally = <<>>
  <2>1. call' = SetUp!NoCall /\ at' = place
    BY <1>3, Zenon DEF SetUp!Leave, SetUp!GoTo
  <2>2. call'.script = <<>>
    BY <2>1, CallParts DEF Known
  <2>3. Due(call'.script) = <<>>
    BY <2>2 DEF Due, Takes
  <2>4. at' \notin {"keyboard flush", "enable", "answer", "call"}
    BY <2>1
  <2>5. QED
    BY <1>1, <2>3, <2>4, AskNext, Zenon
<1>4. QED
  BY <1>2, <1>3

(* What a call does finally makes the keyboard scan again. *)
LEMMA ScanningAfterLeave ==
  ASSUME Known, DriverStep, NEW place, SetUp!Leave(place),
         call.finally = <<>> => keyboard.scanning \/ ~(refusals <= ResendTimesCount)
  PROVE  ScanningComes'
<1>1. UNCHANGED <<keyboard, refusals>>
  BY DriverGoesOn, Zenon DEF Known, GoesOn
<1>2. CASE call.finally # <<>>
  <2>1. call' = SetUp!Calling(call.finally) /\ at' = "call"
    BY <1>2, Zenon DEF SetUp!Leave, SetUp!GoTo
  <2>2. call.finally = <<SetUp!Send("ENABLE_SCANNING")>>
    BY <1>2, Zenon DEF Known, AtRest
  <2>3. call'.script = <<SetUp!Send("ENABLE_SCANNING")>>
    BY <2>1, <2>2, FinallyIsKnown, Zenon
  <2>4. "call" \in InCall
    BY DEF InCall
  <2>5. QED
    BY <2>1, <2>3, <2>4, Zenon DEF ScanningComes
<1>3. CASE call.finally = <<>>
  BY <1>1, <1>3, Zenon DEF ScanningComes
<1>4. QED
  BY <1>2, <1>3

(* A call takes one of its steps, or is over. *)
LEMMA CallStepInStep ==
  ASSUME Known, InStepNow, ScanningComes, SetUp!CallStep
  PROVE  InStepNow' /\ ScanningComes' /\ Reasons'
<1>1. DriverStep
  BY Zenon DEF DriverStep
<1>2. GoesOn
  BY <1>1, DriverGoesOn DEF Known
<1>3. at = "call" /\ UNCHANGED <<queue, output>>
  BY Zenon DEF SetUp!CallStep, SetUp!controllerVars
<1>4. at \notin Waits \cup {"reboot"} /\ at \in InCall /\ "answer" \in InCall
  BY <1>3 DEF Waits, Questions, InCall
<1>5. UNCHANGED <<keyboard, refusals>> /\ todo = <<>>
  BY <1>2, Zenon DEF GoesOn
<1>6. CASE SetUp!Succeeds
  <2>1. call.script = <<>> /\ SetUp!Leave("idle")
    BY <1>6, Zenon DEF SetUp!Succeeds
  <2>2. Due(call.script) = <<>>
    BY <2>1 DEF Due, Takes
  <2>3. AllUnanswered(input) /\ queue = <<>> /\ output = <<>> /\ keyboard.sends = <<>>
    BY <1>4, <2>2, NothingUnderWay
  <2>4. InStepNow'
    BY <1>1, <1>3, <2>1, <2>3, LeaveInStep
  <2>5. <<SetUp!Send("ENABLE_SCANNING")>> # <<>>
    OBVIOUS
  <2>6. call.finally = <<>> => keyboard.scanning \/ ~(refusals <= ResendTimesCount)
    BY <1>4, <2>1, <2>5, Zenon DEF ScanningComes
  <2>7. ScanningComes'
    BY <1>1, <2>1, <2>6, ScanningAfterLeave, Zenon
  <2>8. at' \in {"call", "idle"}
    BY <2>1, Zenon DEF SetUp!Leave, SetUp!GoTo
  <2>9. QED
    BY <2>4, <2>7, <2>8 DEF Reasons
<1>7. CASE SetUp!Sends
  <2>1. /\ call.script # <<>> /\ Head(call.script).does = "send" /\ at' = "answer"
        /\ call' = [call EXCEPT !.times = ResendTimesCount]
    BY <1>7, Zenon DEF SetUp!Sends, SetUp!GoTo
  <2>2. call'.script = call.script /\ call'.times = ResendTimesCount /\ call'.finally = call.finally
    BY <2>1, CallParts, Zenon DEF Known
  <2>3. Due(call.script) = <<>> /\ Sends(call.script)
    BY <2>1 DEF Due, Takes, Sends
  <2>4. AllUnanswered(input) /\ queue = <<>> /\ output = <<>> /\ keyboard.sends = <<>>
    BY <1>4, <2>3, NothingUnderWay
  <2>5. Sent(at', todo', call'.script, input)
    BY <1>2, <1>3, <2>1, Zenon DEF GoesOn
  <2>6. Ready(Head(call'.script).name, keyboard)
    BY <1>3, <2>2, <2>3, Zenon DEF InStepNow, InStep
  <2>7. refusals >= ResendTimesCount - call'.times
    <3>1. refusals \in Nat /\ ResendTimesCount \in Nat
      BY PS2Assumption DEF Known, SetUpTypes, SetUp!PS2SetupAssumption
    <3>2. QED
      BY <2>2, <3>1
  <2>8. Due(call'.script) = <<>>
    BY <2>2, <2>3
  <2>9. InStepNow'
    BY <1>1, <1>3, <2>4, <2>5, <2>6, <2>7, <2>8, AskNext, Zenon
  <2>10. ScanningComes'
    BY <1>3, <1>4, <1>5, <2>1, <2>2, Zenon DEF ScanningComes
  <2>11. QED
    BY <2>1, <2>9, <2>10 DEF Reasons
<1>8. QED
  BY <1>6, <1>7, Zenon DEF SetUp!CallStep

(* A call takes what it is answered. *)
LEMMA TakeByteInStep ==
  ASSUME Known, InStepNow, ScanningComes, FirstCall, SetUp!TakeByte
  PROVE  InStepNow' /\ ScanningComes' /\ Reasons'
<1>0. ~(refusals <= ResendTimesCount) => refusals > ResendTimesCount
  <2>1. refusals \in Nat /\ ResendTimesCount \in Nat
    BY PS2Assumption DEF Known, SetUpTypes, SetUp!PS2SetupAssumption
  <2>2. QED
    BY <2>1
<1>1. DriverStep
  BY Zenon DEF DriverStep
<1>2. GoesOn
  BY <1>1, DriverGoesOn DEF Known
<1>3. UNCHANGED <<hardware, input, keyboard, refusals>> /\ todo = <<>>
  BY <1>2, Zenon DEF GoesOn
<1> DEFINE name == Head(queue).name  step == Head(call.script)
<1>4. /\ queue # <<>> /\ queue' = Tail(queue) /\ output' = output
      /\ \/ /\ at = "answer"
            /\ IF name = "ACK" THEN SetUp!Advance
               ELSE IF name = "RESEND" /\ SetUp!MayResend(call.times)
                 THEN call' = [call EXCEPT !.times = @ - 1]
                      /\ SetUp!GoTo("answer", <<SetUp!Data(SetUp!Byte(step.name))>>)
                 ELSE SetUp!Fails
         \/ /\ at = "call" /\ call.script # <<>> /\ step.does = "take"
            /\ IF step.name \in {name, "anything"} THEN SetUp!Advance ELSE SetUp!Fails
  BY Zenon DEF SetUp!TakeByte, SetUp!controllerVars
<1>5. /\ call.script \in Remains /\ (at = "answer" => Sends(call.script))
      /\ call.script \in Seq(StepType) /\ call.times \in 0 .. ResendTimesCount
      /\ refusals \in Nat /\ ResendTimesCount \in Nat
  <2>1. call.script \in Remains /\ (at = "answer" => Sends(call.script))
    BY Zenon DEF Known, CallInv, AtRest, Sends
  <2>2. QED
    BY <2>1, CallParts, PS2Assumption DEF Known, SetUpTypes, SetUp!PS2SetupAssumption
<1>6. AllUnanswered(<<>>) /\ "call" \in InCall /\ "answer" \in InCall /\ <<SetUp!Send("ENABLE_SCANNING")>> # <<>>
  BY DEF AllUnanswered, InCall
<1>7. SetUp!Send("ENABLE_SCANNING").name = "ENABLE_SCANNING"
  BY DEF SetUp!Send
<1>8. SetUp!Send("GET_SET_SCAN_CODE_SET").name = "GET_SET_SCAN_CODE_SET"
      /\ SetUp!Send("GET_SET_SCAN_CODE_SET").does = "send"
  BY DEF SetUp!Send
<1>9. call.script = <<SetUp!Send("ENABLE_SCANNING")>> => step = SetUp!Send("ENABLE_SCANNING")
  OBVIOUS
<1> HIDE DEF name, step
<1>10. ASSUME SetUp!Advance, AllUnanswered(input), call.script # <<>>,
              Matches(Due(Tail(call.script)), Tail(queue), output, keyboard.sends),
              Sends(Tail(call.script)) => Ready(Head(Tail(call.script)).name, keyboard),
              call.script = <<SetUp!Send("ENABLE_SCANNING")>> => keyboard.scanning
       PROVE  InStepNow' /\ ScanningComes' /\ Reasons'
  <2>1. at' = "call" /\ todo' = <<>> /\ call' = [call EXCEPT !.script = Tail(@)]
    BY <1>10, Zenon DEF SetUp!Advance, SetUp!GoTo
  <2>2. call'.script = Tail(call.script) /\ call'.finally = call.finally
    BY <2>1, CallParts, Zenon DEF Known
  <2>3. Loose(call'.script, todo', input, queue', output', keyboard.sends)
    BY <1>4, <1>6, <1>10, <2>1, <2>2, Zenon DEF Loose
  <2>4. at' \notin Waits /\ at' # "keyboard flush"
    BY <2>1 DEF Waits, Questions
  <2>5. at' = "call" /\ Sends(call'.script) => Ready(Head(call'.script).name, keyboard)
    BY <1>10, <2>2, Zenon
  <2>6. InStep(at', hardware, call'.script, call'.times, todo', input, queue', output', keyboard, refusals)
    BY <2>3, <2>4, <2>5, LooseIsInStep
  <2>7. InStepNow'
    BY <1>3, <2>6, Zenon DEF InStepNow
  <2>8. at # "reboot"
    BY <1>4
  <2>9. ScanningComes'
    BY <1>3, <1>6, <1>10, <2>1, <2>2, <2>8, Zenon DEF ScanningComes
  <2>10. QED
    BY <2>1, <2>7, <2>9 DEF Reasons
<1>11. ASSUME SetUp!Fails, AllUnanswered(input), Tail(queue) = <<>>, output = <<>>, keyboard.sends = <<>>,
              step.name = "ECHO" \/ ~(refusals <= ResendTimesCount), call.script # <<>>
       PROVE  InStepNow' /\ ScanningComes' /\ Reasons'
  <2>1. PICK place \in {"no keyboard", "idle"} : SetUp!Leave(place) /\ (calls # 0 => place = "idle")
    BY <1>11, Zenon DEF SetUp!Fails
  <2>2. InStepNow'
    BY <1>1, <1>4, <1>11, <2>1, LeaveInStep, Zenon
  <2>3. call.finally = <<>> => keyboard.scanning \/ ~(refusals <= ResendTimesCount)
    <3>1. SUFFICES ASSUME call.finally = <<>>, step.name = "ECHO" PROVE keyboard.scanning \/ ~(refusals <= ResendTimesCount)
      BY <1>11
    <3>2. call.script # <<SetUp!Send("ENABLE_SCANNING")>>
      BY <1>7, <1>9, <3>1
    <3>3. QED
      BY <1>4, <3>1, <3>2, Zenon DEF ScanningComes
  <2>4. ScanningComes'
    BY <1>1, <2>1, <2>3, ScanningAfterLeave, Zenon
  <2>5. at' = "call" \/ at' = place
    BY <2>1, Zenon DEF SetUp!Leave, SetUp!GoTo
  <2>6. place = "no keyboard" => refusals > ResendTimesCount
    <3>1. place = "no keyboard" => calls = 0
      BY <2>1
    <3>2. calls = 0 => step.name # "ECHO"
      <4>1. calls = 0 => step.name \in {"RESET", "RESET_DONE", "GET_SET_SCAN_CODE_SET", "SET_2"}
        BY <1>11, FirstIsNoEcho, Zenon DEF FirstCall, step
      <4>2. QED
        BY <4>1
    <3>3. QED
      BY <1>0, <1>11, <3>1, <3>2, Zenon
  <2>7. Reasons'
    <3>1. at' \in {"call", "no keyboard", "idle"} /\ (at' = "no keyboard" => refusals' > ResendTimesCount)
      BY <1>3, <2>1, <2>5, <2>6
    <3>2. QED
      BY <3>1 DEF Reasons
  <2>8. QED
    BY <2>2, <2>4, <2>7
<1>12. CASE at = "answer"
  <2>1. /\ input = <<>>
        /\ \/ /\ name = "RESEND" /\ refusals > ResendTimesCount - call.times /\ Ready(step.name, keyboard)
              /\ Tail(queue) = <<>> /\ output = <<>> /\ keyboard.sends = <<>>
           \/ /\ step.name = "ECHO" /\ name = "ECHO"
              /\ Tail(queue) = <<>> /\ output = <<>> /\ keyboard.sends = <<>>
           \/ /\ step.name # "ECHO" /\ name = "ACK" /\ Done(step.name, keyboard)
              /\ Matches(Behind(step.name), Tail(queue), output, keyboard.sends)
    BY <1>3, <1>4, <1>12, AnswerTaken, Zenon DEF name, step
  <2>2. call.script # <<>> /\ step.does = "send"
    BY <1>5, <1>12, Zenon DEF Sends, step
  <2>3. AllUnanswered(input)
    BY <1>6, <2>1
  <2>4. CASE name = "ACK"
    <3>1. SetUp!Advance
      BY <1>4, <1>12, <2>4
    <3>2. step.name # "ECHO" /\ Done(step.name, keyboard) /\ Matches(Behind(step.name), Tail(queue), output, keyboard.sends)
      BY <2>1, <2>4
    <3>3. Due(Tail(call.script)) = Behind(step.name)
      BY <1>5, <1>12, <2>2, <3>2, CallsAreSound, Zenon DEF SoundCall, step
    <3>4. ASSUME Sends(Tail(call.script)) PROVE Ready(Head(Tail(call.script)).name, keyboard)
      <4>1. Head(Tail(call.script)).name \in Arguments => step = SetUp!Send("GET_SET_SCAN_CODE_SET")
        BY <1>5, <2>2, <3>4, CallsAreSound, Zenon DEF SoundCall, step
      <4>2. Head(Tail(call.script)).name \in Arguments => keyboard.argument
        BY <1>8, <3>2, <4>1 DEF Done
      <4>3. QED
        BY <4>2 DEF Ready
    <3>5. call.script = <<SetUp!Send("ENABLE_SCANNING")>> => keyboard.scanning
      BY <1>7, <1>9, <3>2 DEF Done
    <3>6. QED
      BY <1>10, <2>2, <2>3, <3>1, <3>2, <3>3, <3>4, <3>5, Zenon
  <2>5. CASE name = "RESEND" /\ SetUp!MayResend(call.times)
    <3>1. call' = [call EXCEPT !.times = @ - 1] /\ at' = "answer"
          /\ todo' = <<SetUp!Data(SetUp!Byte(step.name))>>
      BY <1>4, <1>12, <2>5 DEF SetUp!GoTo
    <3>2. call'.script = call.script /\ call'.finally = call.finally /\ call'.times = call.times - 1
      BY <3>1, CallParts, Zenon DEF Known
    <3>3. /\ refusals > ResendTimesCount - call.times /\ Ready(step.name, keyboard)
          /\ Tail(queue) = <<>> /\ output = <<>> /\ keyboard.sends = <<>>
      BY <2>1, <2>5
    <3>4. Sent(at', todo', call'.script, input)
      BY <2>2, <3>1, <3>2, Zenon DEF Sent, step
    <3>5. refusals >= ResendTimesCount - call'.times
      BY <1>5, <3>2, <3>3
    <3>6. at' \in Waits
      BY <3>1 DEF Waits
    <3>7. Ready(Head(call'.script).name, keyboard)
      BY <3>2, <3>3, Zenon DEF step
    <3>8. InStepNow'
      BY <1>1, <1>4, <2>3, <3>3, <3>4, <3>5, <3>6, <3>7, AskNext, Zenon
    <3>9. ScanningComes'
      <4>1. at # "reboot"
        BY <1>12
      <4>2. QED
        BY <1>3, <1>6, <3>1, <3>2, <4>1, Zenon DEF ScanningComes
    <3>10. QED
      BY <3>1, <3>8, <3>9 DEF Reasons
  <2>6. CASE name # "ACK" /\ ~(name = "RESEND" /\ SetUp!MayResend(call.times))
    <3>1. SetUp!Fails
      BY <1>4, <1>12, <2>6
    <3>2. Tail(queue) = <<>> /\ output = <<>> /\ keyboard.sends = <<>>
      BY <2>1, <2>6
    <3>3. step.name = "ECHO" \/ ~(refusals <= ResendTimesCount)
      <4>1. ASSUME step.name # "ECHO" PROVE ~(refusals <= ResendTimesCount)
        <5>1. name = "RESEND" /\ refusals > ResendTimesCount - call.times
          BY <2>1, <2>6, <4>1
        <5>2. ~(call.times > 0)
          BY <2>6, <5>1, Zenon DEF SetUp!MayResend
        <5>3. QED
          BY <1>5, <5>1, <5>2
      <4>2. QED
        BY <4>1
    <3>4. QED
      BY <1>11, <2>2, <2>3, <3>1, <3>2, <3>3
  <2>7. QED
    BY <2>4, <2>5, <2>6
<1>13. CASE at = "call" /\ call.script # <<>> /\ step.does = "take"
  <2>1. Takes(call.script)
    BY <1>13, Zenon DEF Takes, step
  <2>2. /\ AllUnanswered(input) /\ step.name \in {name, "anything"}
        /\ Matches(Due(Tail(call.script)), Tail(queue), output, keyboard.sends)
    BY <1>4, <1>13, <2>1, ResultTaken, Zenon DEF name, step
  <2>3. SetUp!Advance
    BY <1>4, <1>13, <2>2
  <2>4. ASSUME Sends(Tail(call.script)) PROVE Ready(Head(Tail(call.script)).name, keyboard)
    <3>1. Head(Tail(call.script)).name \in Arguments => step = SetUp!Send("GET_SET_SCAN_CODE_SET")
      BY <1>5, <1>13, <2>4, CallsAreSound, Zenon DEF SoundCall, step
    <3>2. Head(Tail(call.script)).name \notin Arguments
      BY <1>8, <1>13, <3>1
    <3>3. QED
      BY <3>2 DEF Ready
  <2>5. call.script # <<SetUp!Send("ENABLE_SCANNING")>>
    <3>1. SetUp!Send("ENABLE_SCANNING").does = "send"
      BY DEF SetUp!Send
    <3>2. QED
      BY <1>9, <1>13, <3>1
  <2>6. QED
    BY <1>10, <1>13, <2>2, <2>3, <2>4, <2>5, Zenon
<1>14. QED
  BY <1>4, <1>12, <1>13

(* The driver goes on where nothing is under way. *)
LEMMA OthersInStep ==
  ASSUME Known, InStepNow, Reasons,
         SetUp!EndFlush \/ SetUp!BeginKeyboard \/ SetUp!Call \/ SetUp!Reboot \/ SetUp!GetInput
  PROVE  InStepNow' /\ Reasons' /\ at \notin InCall /\ at # "reboot"
<1>1. DriverStep
  BY Zenon DEF DriverStep
<1>2. GoesOn
  BY <1>1, DriverGoesOn DEF Known
<1>3. UNCHANGED <<hardware, input, keyboard, refusals>> /\ todo = <<>>
  BY <1>2, Zenon DEF GoesOn
<1>4. ASSUME at \in {"flush", "keyboard flush", "reboot flush", "controller ready", "idle"}
      PROVE  /\ at \notin Waits \cup {"reboot"} /\ at \notin InCall /\ call.script = <<>>
             /\ Due(call.script) = <<>>
             /\ AllUnanswered(input) /\ queue = <<>> /\ output = <<>> /\ keyboard.sends = <<>>
  <2>1. at \notin Waits \cup {"reboot"} /\ at \notin InCall
    BY <1>4 DEF Waits, Questions, InCall
  <2>2. call.script = <<>>
    BY <2>1, Zenon DEF Known, AtRest
  <2>3. Due(call.script) = <<>>
    BY <2>2 DEF Due, Takes
  <2>4. QED
    BY <2>1, <2>2, <2>3, NothingUnderWay
<1>5. refusals \in Nat /\ ResendTimesCount \in Nat
  BY PS2Assumption DEF Known, SetUpTypes, SetUp!PS2SetupAssumption
<1>6. CASE SetUp!EndFlush
  <2>1. /\ at \in {"flush", "keyboard flush", "reboot flush"} /\ at' \in {"configure", "enable", "reboot"}
        /\ at' = "enable" => at = "keyboard flush"
        /\ UNCHANGED <<queue, output, call>>
    BY <1>6, Zenon DEF SetUp!EndFlush, SetUp!GoTo, SetUp!controllerVars
  <2>2. /\ AllUnanswered(input) /\ queue = <<>> /\ output = <<>> /\ keyboard.sends = <<>> /\ call.script = <<>>
        /\ at \notin InCall /\ at # "reboot" /\ Due(call.script) = <<>>
    BY <1>4, <2>1
  <2>3. Sent(at', todo', call'.script, input)
    <3>1. at' # at
      BY <2>1
    <3>2. QED
      BY <1>2, <3>1, Zenon DEF GoesOn
  <2>4. at' \in {"keyboard flush", "enable", "answer"} => refusals >= ResendTimesCount - call'.times
    <3>1. at = "keyboard flush" => refusals >= ResendTimesCount - call.times
      BY Zenon DEF InStepNow, InStep
    <3>2. QED
      BY <2>1, <3>1
  <2>5. ~(at' = "answer" \/ (at' = "call" /\ Sends(call'.script)))
    BY <2>1
  <2>6. InStepNow'
    BY <1>1, <2>1, <2>2, <2>3, <2>4, <2>5, AskNext, Zenon
  <2>7. QED
    BY <2>1, <2>2, <2>6 DEF Reasons
<1>7. CASE SetUp!BeginKeyboard
  <2>1. /\ at = "controller ready" /\ UNCHANGED <<queue, output>>
        /\ at' = "keyboard flush" \/ (at' = "no keyboard" /\ "keyboard port" \notin available)
        /\ call' = [SetUp!NoCall EXCEPT !.times = ResendTimesCount]
    BY <1>7, Zenon DEF SetUp!BeginKeyboard, SetUp!GoTo, SetUp!controllerVars
  <2>2. /\ AllUnanswered(input) /\ queue = <<>> /\ output = <<>> /\ keyboard.sends = <<>> /\ call.script = <<>>
        /\ at \notin InCall /\ at # "reboot"
    BY <1>4, <2>1
  <2>3. call'.script = <<>> /\ call'.times = ResendTimesCount
    <3>1. call'.script = <<>>
      BY <2>1, CallParts DEF Known
    <3>2. call'.times = ResendTimesCount
      BY <2>1 DEF SetUp!NoCall
    <3>3. QED
      BY <3>1, <3>2
  <2>4. Sent(at', todo', call'.script, input)
    <3>1. at' # at
      BY <2>1
    <3>2. QED
      BY <1>2, <3>1, Zenon DEF GoesOn
  <2>5. refusals >= ResendTimesCount - call'.times
    BY <1>5, <2>3
  <2>6. Due(call'.script) = <<>>
    BY <2>3 DEF Due, Takes
  <2>7. ~(at' = "answer" \/ (at' = "call" /\ Sends(call'.script)))
    BY <2>1
  <2>8. InStepNow'
    BY <1>1, <2>1, <2>2, <2>4, <2>5, <2>6, <2>7, AskNext, Zenon
  <2>9. Reasons'
    <3>1. at' = "no keyboard" => ~hardware.ports
      BY <2>1 DEF Reasons
    <3>2. QED
      BY <1>3, <2>1, <3>1 DEF Reasons
  <2>10. QED
    BY <2>2, <2>8, <2>9
<1>8. CASE SetUp!Call
  <2>1. at = "idle" /\ at' = "call" /\ UNCHANGED <<queue, output>>
    BY <1>8, Zenon DEF SetUp!Call, SetUp!GoTo, SetUp!controllerVars
  <2>2. /\ AllUnanswered(input) /\ queue = <<>> /\ output = <<>> /\ keyboard.sends = <<>> /\ call.script = <<>>
        /\ at \notin InCall /\ at # "reboot"
    BY <1>4, <2>1
  <2>3. PICK script \in Scripts : call' = SetUp!Calling(script)
    <3>1. PICK script \in {SetUp!Reset, SetUp!Echo, SetUp!GetScanCodeSet, SetUp!GetType}
                            \cup {SetUp!SetScanCodeSet(n) : n \in 1 .. 3} : call' = SetUp!Calling(script)
      BY <1>8, Zenon DEF SetUp!Call
    <3>2. 1 .. 3 = {1, 2, 3}
      OBVIOUS
    <3>3. script \in Scripts
      BY <3>1, <3>2, Zenon DEF Scripts
    <3>4. QED
      BY <3>1, <3>3
  <2>4. Sent(at', todo', call'.script, input)
    <3>1. at' # at
      BY <2>1
    <3>2. QED
      BY <1>2, <3>1, Zenon DEF GoesOn
  <2>5. Due(call'.script) = <<>> /\ Head(call'.script).name \notin Arguments
    BY <2>3, ScriptsBegin, FinallyIsKnown, Zenon
  <2>6. Ready(Head(call'.script).name, keyboard)
    BY <2>5 DEF Ready
  <2>7. at' \notin {"keyboard flush", "enable", "answer"}
    BY <2>1
  <2>8. InStepNow'
    BY <1>1, <2>1, <2>2, <2>4, <2>5, <2>6, <2>7, AskNext, Zenon
  <2>9. QED
    BY <2>1, <2>2, <2>8 DEF Reasons
<1>9. CASE SetUp!Reboot
  <2>1. at = "idle" /\ at' = "reboot flush" /\ UNCHANGED <<queue, output, call>>
    BY <1>9, Zenon DEF SetUp!Reboot, SetUp!GoTo, SetUp!controllerVars
  <2>2. /\ AllUnanswered(input) /\ queue = <<>> /\ output = <<>> /\ keyboard.sends = <<>> /\ call.script = <<>>
        /\ at \notin InCall /\ at # "reboot" /\ Due(call.script) = <<>>
    BY <1>4, <2>1
  <2>3. Sent(at', todo', call'.script, input)
    <3>1. at' # at
      BY <2>1
    <3>2. QED
      BY <1>2, <3>1, Zenon DEF GoesOn
  <2>4. at' \notin {"keyboard flush", "enable", "answer", "call"}
    BY <2>1
  <2>5. InStepNow'
    BY <1>1, <2>1, <2>2, <2>3, <2>4, AskNext, Zenon
  <2>6. QED
    BY <2>1, <2>2, <2>5 DEF Reasons
<1>10. CASE SetUp!GetInput
  <2>1. at = "idle" /\ queue # <<>>
    BY <1>10, Zenon DEF SetUp!GetInput
  <2>2. QED
    BY <1>4, <2>1
<1>11. QED
  BY <1>6, <1>7, <1>8, <1>9, <1>10

(* A step of the driver keeps what holds before a key is pressed.          *)
LEMMA UntypedDriver == Known /\ FirstCall /\ Untyped /\ DriverStep => Untyped'
<1> SUFFICES ASSUME Known, FirstCall, Untyped, DriverStep, keys' = 0 PROVE
      InStepNow' /\ ScanningComes' /\ Reasons' /\ lost' \subseteq LostNames
  BY Zenon DEF Untyped, InStepNow
<1>1. UNCHANGED <<keyboard, refusals, keys, lost>>
  BY DriverGoesOn, Zenon DEF Known, GoesOn
<1>2. InStepNow /\ ScanningComes /\ Reasons /\ lost \subseteq LostNames
  BY <1>1, Zenon DEF Untyped, InStepNow
<1>3. ASSUME at \notin InCall, at # "reboot" PROVE ScanningComes'
  BY <1>1, <1>2, <1>3, Zenon DEF ScanningComes
<1>4. CASE SetUp!Polls
  <2>1. InStepNow' /\ Reasons'
    BY <1>2, <1>4, PollInStep
  <2>2. at \in {"flush", "keyboard flush", "reboot flush", "configure", "test", "mouse", "keyboard port", "mouse port",
                "enable", "reconfigure"}
    BY <1>4, Zenon DEF SetUp!Polls, SetUp!Flush, SetUp!Configure, SetUp!TestController, SetUp!FindMouse,
       SetUp!TestPort, SetUp!EnableScanning, SetUp!Reconfigure, SetUp!ReadAnswer
  <2>3. at \notin InCall /\ at # "reboot"
    BY <2>2 DEF InCall
  <2>4. QED
    BY <1>1, <1>2, <1>3, <2>1, <2>3
<1>5. CASE SetUp!CallStep
  BY <1>1, <1>2, <1>5, CallStepInStep
<1>6. CASE SetUp!TakeByte
  BY <1>1, <1>2, <1>6, TakeByteInStep
<1>7. CASE SetUp!EndFlush \/ SetUp!BeginKeyboard \/ SetUp!Call \/ SetUp!Reboot \/ SetUp!GetInput
  BY <1>1, <1>2, <1>3, <1>7, OthersInStep
<1>8. QED
  BY <1>4, <1>5, <1>6, <1>7, Zenon DEF DriverStep

(* Before a key is pressed everyone stays in step. *)
LEMMA UntypedStep == Known /\ FirstCall /\ Untyped /\ SetUp!Next => Untyped'
BY UntypedWrite, UntypedDevice, UntypedDriver, StepsOfSetUp, Zenon

(* The set-up begins with nothing on its way. *)
LEMMA UntypedInit == SetUp!Init => Untyped
<1> SUFFICES ASSUME SetUp!Init PROVE Untyped
  OBVIOUS
<1>1. SetUpTypes /\ Program(at, call.script, todo, input) /\ AtRest
  BY SetUpTypesInit, ProgramInit, AtRestInit
<1>2. at \in {"flush", "no controller"} /\ (at = "no controller" => ~hardware.mentioned)
  BY Zenon DEF SetUp!Init, SetUp!Start
<1>3. at \notin Waits \cup {"reboot"} /\ at \notin InCall /\ at \notin {"keyboard flush", "call"}
  BY <1>2 DEF Waits, Questions, InCall
<1>4. input = <<>> /\ output = <<>> /\ queue = <<>> /\ lost = {}
  BY DEF SetUp!Init
<1>5. keyboard.sends = <<>> /\ keyboard.scanning
  BY DEF SetUp!Init
<1>6. AllUnanswered(todo) /\ AllUnanswered(input)
  <2>1. AllUnanswered(<<>>)
    BY DEF AllUnanswered
  <2>2. QED
    BY <1>1, <1>3, <1>4, <2>1, Zenon DEF Program
<1>7. Due(call.script) = <<>>
  <2>1. call.script = <<>>
    BY <1>1, <1>3, Zenon DEF AtRest
  <2>2. QED
    BY <2>1 DEF Due, Takes
<1>8. Matches(<<>>, queue, output, keyboard.sends)
  <2>1. queue \in Seq(ByteType) /\ output \in Seq(ByteType) /\ keyboard.sends \in Seq(Words)
    BY <1>1 DEF SetUpTypes, KeyboardState
  <2>2. QED
    BY <1>4, <1>5, <2>1, MatchesFew, Zenon
<1>9. Loose(call.script, todo, input, queue, output, keyboard.sends)
  BY <1>6, <1>7, <1>8, Zenon DEF Loose
<1>10. InStep(at, hardware, call.script, call.times, todo, input, queue, output, keyboard, refusals)
  BY <1>3, <1>9, LooseIsInStep
<1>11. ScanningComes
  BY <1>5, Zenon DEF ScanningComes
<1>12. Reasons
  BY <1>2 DEF Reasons
<1>13. lost \subseteq LostNames
  BY <1>4
<1>14. QED
  BY <1>10, <1>11, <1>12, <1>13, Zenon DEF Untyped

-----------------------------------------------------------------------------
(* What the driver writes before it goes to a place: commands, of which    *)
(* the test of the controller is written in one place only, a              *)
(* configuration, and what the keyboard is told.                           *)
Plainly == Changes \cup {"REBOOT", "READ_CONFIGURATION", "TEST_KEYBOARD_PORT", "TEST_MOUSE_PORT"}
Kind(p, script, w) ==
  \/ w.port = "command" /\ w.byte.name \in Plainly
  \/ w.port = "command" /\ w.byte.name = "TEST_CONTROLLER" /\ p = "test"
  \/ IsConfiguration(w)
  \/ p = "enable" /\ w.port = "data" /\ w.byte.name = "ENABLE_SCANNING"
  \/ p = "answer" /\ w.port = "data" /\ w.byte.name = Head(script).name

(* What is sent is of these kinds, and in use only configurations are      *)
(* announced.                                                              *)
LEMMA SentKinds ==
  ASSUME NEW p \in Places, NEW td, NEW script \in Remains, NEW in, Sent(p, td, script, in),
         p = "answer" => Sends(script)
  PROVE  /\ \A k \in 1 .. Len(td) : Kind(p, script, td[k])
         /\ p \in InUse => \A k \in 1 .. Len(td) : td[k].port = "command" => Announces(td[k])
<1> DEFINE wc == SetUp!Command("WRITE_CONFIGURATION")
           um == SetUp!Command("UNLOCK_MOUSE")  uk == SetUp!Command("UNLOCK_KEYBOARD")
           lm == SetUp!Command("LOCK_MOUSE")  rb == SetUp!Command("REBOOT")
           cq == SetUp!Command(Question(p))  a == Asks(p, script)
           K(w) == Kind(p, script, w)
<1>1. /\ wc.port = "command" /\ wc.byte.name = "WRITE_CONFIGURATION"
      /\ um.port = "command" /\ um.byte.name = "UNLOCK_MOUSE"
      /\ uk.port = "command" /\ uk.byte.name = "UNLOCK_KEYBOARD"
      /\ lm.port = "command" /\ lm.byte.name = "LOCK_MOUSE"
      /\ rb.port = "command" /\ rb.byte.name = "REBOOT"
      /\ cq.port = "command" /\ cq.byte.name = Question(p)
  <2>1. /\ "WRITE_CONFIGURATION" \in Words /\ "UNLOCK_MOUSE" \in Words /\ "UNLOCK_KEYBOARD" \in Words
        /\ "LOCK_MOUSE" \in Words /\ "REBOOT" \in Words /\ Question(p) \in Words
    BY DEF Words, Question
  <2>2. QED
    BY <2>1, WriteFacts, Zenon
<1>2. K(wc) /\ K(um) /\ K(uk) /\ K(lm) /\ K(rb) /\ Announces(wc)
  BY <1>1, Zenon DEF Kind, Plainly, Changes, Announces
<1>3. \A flags \in SUBSET SetUp!Flags :
        K(SetUp!Data(SetUp!ConfigByte(flags))) /\ SetUp!Data(SetUp!ConfigByte(flags)).port = "data"
  BY WriteFacts, Zenon DEF Kind, IsConfiguration
<1>4. K(cq)
  BY <1>1 DEF Kind, Plainly, Question
<1>5. p \in {"enable", "answer"} => K(a) /\ a.port = "data"
  <2>1. CASE p = "enable"
    <3>1. a = SetUp!Data(SetUp!Byte("ENABLE_SCANNING"))
      BY <2>1 DEF Asks, Questions
    <3>2. "ENABLE_SCANNING" \in Words
      BY DEF Words
    <3>3. a.port = "data" /\ a.byte.name = "ENABLE_SCANNING"
      BY <3>1, <3>2, WriteFacts, Zenon
    <3>4. QED
      BY <2>1, <3>3, Zenon DEF Kind
  <2>2. CASE p = "answer"
    <3>1. p \in Waits /\ "answer" \in Waits
      BY <2>2 DEF Waits
    <3>2. a = SetUp!Data(SetUp!Byte(Head(script).name)) /\ Head(script).name \in KeyboardCommands
      BY <2>2, <3>1, AsksFacts, Zenon
    <3>3. Head(script).name \in Words
      BY <3>2 DEF KeyboardCommands, Words
    <3>4. a.port = "data" /\ a.byte.name = Head(script).name
      BY <3>2, <3>3, WriteFacts, ZenonT(60)
    <3>5. QED
      BY <2>2, <3>4, Zenon DEF Kind
  <2>3. QED
    BY <2>1, <2>2
<1>6. p \in InUse => p \notin Questions /\ p # "controller ready" /\ p # "reboot" /\ p # "no controller"
  BY DEF InUse, Questions
<1>7. \/ td = <<>>
      \/ p \in Questions /\ td = <<cq>>
      \/ \E flags \in SUBSET SetUp!Flags :
           \/ td = <<wc, SetUp!Data(SetUp!ConfigByte(flags))>>
           \/ p \in Questions /\ td = <<wc, SetUp!Data(SetUp!ConfigByte(flags)), cq>>
           \/ p \in Questions /\ td = <<wc, SetUp!Data(SetUp!ConfigByte(flags)), um, cq>>
      \/ p \in Questions /\ td = <<lm, cq>>
      \/ p = "controller ready" /\ td = <<uk, um>>
      \/ p \in {"enable", "answer"} /\ td = <<a>>
      \/ p = "reboot" /\ td = <<rb>>
  BY SentSpelled, Zenon
<1> DEFINE Good(ws) == /\ \A k \in 1 .. Len(ws) : K(ws[k])
                       /\ p \in InUse => \A k \in 1 .. Len(ws) : ws[k].port = "command" => Announces(ws[k])
<1> HIDE DEF wc, um, uk, lm, rb, cq, a, K
<1>8. Good(<<>>)
  OBVIOUS
<1>9. p \in Questions => Good(<<cq>>) /\ Good(<<lm, cq>>)
  <2> SUFFICES ASSUME p \in Questions PROVE Good(<<cq>>) /\ Good(<<lm, cq>>)
    OBVIOUS
  <2>1. p \notin InUse
    BY <1>6
  <2>2. Good(<<cq>>)
    BY <1>4, <2>1
  <2>3. Good(<<lm, cq>>)
    BY <1>2, <1>4, <2>1
  <2>4. QED
    BY <2>2, <2>3
<1>10. \A d : K(d) /\ d.port = "data" =>
         /\ Good(<<wc, d>>)
         /\ p \in Questions => Good(<<wc, d, cq>>) /\ Good(<<wc, d, um, cq>>)
  <2> SUFFICES ASSUME NEW d, K(d), d.port = "data"
               PROVE  Good(<<wc, d>>) /\ (p \in Questions => Good(<<wc, d, cq>>) /\ Good(<<wc, d, um, cq>>))
    OBVIOUS
  <2>1. Good(<<wc, d>>)
    BY <1>2
  <2>2. ASSUME p \notin InUse PROVE Good(<<wc, d, cq>>)
    BY <1>2, <1>4, <2>2
  <2>3. ASSUME p \notin InUse PROVE Good(<<wc, d, um, cq>>)
    BY <1>2, <1>4, <2>3
  <2>4. QED
    BY <1>6, <2>1, <2>2, <2>3
<1>11. p = "controller ready" => Good(<<uk, um>>)
  <2>1. p = "controller ready" => p \notin InUse
    BY <1>6
  <2>2. p \notin InUse => Good(<<uk, um>>)
    <3>1. K(uk) /\ K(um)
      BY <1>2
    <3>2. QED
      BY <3>1
  <2>3. QED
    BY <2>1, <2>2, Zenon
<1>12. p \in {"enable", "answer"} => Good(<<a>>)
  BY <1>5
<1>13. p = "reboot" => Good(<<rb>>)
  <2>1. p = "reboot" => p \notin InUse
    BY <1>6
  <2>2. p \notin InUse => Good(<<rb>>)
    <3>1. K(rb)
      BY <1>2
    <3>2. QED
      BY <3>1
  <2>3. QED
    BY <2>1, <2>2, Zenon
<1> HIDE DEF Good
<1>14. Good(td)
  BY <1>3, <1>7, <1>8, <1>9, <1>10, <1>11, <1>12, <1>13, Zenon
<1>15. QED
  BY <1>14, Zenon DEF Good, K

(* What is still to be written, and what has not been taken yet: a write   *)
(* and a device can only lose from it, and the driver adds what it will    *)
(* write.                                                                  *)
LEMMA PendingMoves ==
  ASSUME SetUpTypes
  PROVE  /\ SetUp!Write =>
              /\ Pending' \subseteq Pending /\ (input = <<>> => Pending' = Pending)
              /\ todo[1] \in Pending' /\ todo[1] \in Pending /\ \A k \in 1 .. Len(todo') : todo'[k] \in Pending'
         /\ todo' = todo /\ input' = input => Pending' = Pending
         /\ todo' = todo /\ input # <<>> /\ input' = <<>> => Pending' \cup {Head(input)} = Pending
         /\ todo = <<>> /\ input' = input =>
              /\ Pending \subseteq Pending'
              /\ \A w \in Pending' : w \in Pending \/ \E k \in 1 .. Len(todo') : w = todo'[k]
         /\ input # <<>> => Head(input) \in Pending
         /\ \A k \in 1 .. Len(todo) : todo[k] \in Pending
         /\ todo = <<>> => \A w \in Pending : input = <<w>>
         /\ input = <<>> /\ todo = <<>> => Pending = {}
<1>1. todo \in Seq(WriteType) /\ input \in Seq(WriteType) /\ Len(input) <= 1
  BY DEF SetUpTypes
<1>2. input # <<>> => Len(input) = 1 /\ Head(input) = input[1] /\ input = <<input[1]>>
  <2>1. input # <<>> => Len(input) \in Nat /\ Len(input) # 0
    BY <1>1, EmptySeq
  <2>2. input # <<>> => input = <<Head(input)>>
    BY ByteMoves
  <2>3. Head(input) = input[1]
    OBVIOUS
  <2>4. QED
    BY <1>1, <2>1, <2>2, <2>3
<1>3. Len(<<>>) = 0 /\ (\A w : Len(<<w>>) = 1 /\ <<w>>[1] = w)
  OBVIOUS
<1>4. \A w : w \in Pending <=> (\E k \in 1 .. Len(todo) : w = todo[k]) \/ (input # <<>> /\ w = Head(input))
  BY <1>2, <1>3 DEF Pending
<1>5. ASSUME SetUp!Write
      PROVE  /\ Pending' \subseteq Pending /\ (input = <<>> => Pending' = Pending)
             /\ todo[1] \in Pending' /\ todo[1] \in Pending /\ \A k \in 1 .. Len(todo') : todo'[k] \in Pending'
  <2>1. /\ Len(todo) \in Nat /\ Len(todo) > 0 /\ Len(todo') = Len(todo) - 1 /\ input' = <<todo[1]>>
        /\ \A k \in 1 .. Len(todo') : todo'[k] = todo[k + 1]
    BY <1>5, WriteMoves
  <2>2. \A w : w \in Pending' <=> (\E k \in 1 .. Len(todo') : w = todo'[k]) \/ w = todo[1]
    <3>1. \A w : w \in Pending' <=> (\E k \in 1 .. Len(todo') : w = todo'[k]) \/ (\E k \in 1 .. Len(input') : w = input'[k])
      BY DEF Pending
    <3>2. Len(input') = 1 /\ input'[1] = todo[1]
      BY <1>3, <2>1
    <3>3. QED
      BY <3>1, <3>2
  <2>3. \A w : (\E k \in 1 .. Len(todo) : w = todo[k]) <=> (\E k \in 1 .. Len(todo') : w = todo'[k]) \/ w = todo[1]
    <3> TAKE w
    <3>1. ASSUME NEW k \in 1 .. Len(todo), w = todo[k], k # 1 PROVE \E j \in 1 .. Len(todo') : w = todo'[j]
      <4>1. k - 1 \in 1 .. Len(todo') /\ todo'[k - 1] = todo[k]
        BY <2>1, <3>1
      <4>2. QED
        BY <3>1, <4>1
    <3>2. ASSUME NEW j \in 1 .. Len(todo'), w = todo'[j] PROVE \E k \in 1 .. Len(todo) : w = todo[k]
      <4>1. j + 1 \in 1 .. Len(todo) /\ todo'[j] = todo[j + 1]
        BY <2>1, <3>2
      <4>2. QED
        BY <3>2, <4>1
    <3>3. 1 \in 1 .. Len(todo)
      BY <2>1
    <3>4. QED
      BY <3>1, <3>2, <3>3
  <2>4. QED
    BY <1>4, <2>2, <2>3, Zenon
<1>6. ASSUME todo' = todo, input' = input PROVE Pending' = Pending
  BY <1>6 DEF Pending
<1>7. ASSUME todo' = todo, input # <<>>, input' = <<>> PROVE Pending' \cup {Head(input)} = Pending
  <2>1. \A w : w \in Pending' <=> (\E k \in 1 .. Len(todo) : w = todo[k])
    BY <1>3, <1>7 DEF Pending
  <2>2. QED
    BY <1>4, <1>7, <2>1, Zenon
<1>8. ASSUME todo = <<>>, input' = input
      PROVE  /\ Pending \subseteq Pending'
             /\ \A w \in Pending' : w \in Pending \/ \E k \in 1 .. Len(todo') : w = todo'[k]
  <2>1. \A w : w \in Pending' <=> (\E k \in 1 .. Len(todo') : w = todo'[k]) \/ (\E k \in 1 .. Len(input) : w = input[k])
    BY <1>8 DEF Pending
  <2>2. \A w : w \in Pending <=> (\E k \in 1 .. Len(input) : w = input[k])
    BY <1>3, <1>8 DEF Pending
  <2>3. QED
    BY <2>1, <2>2
<1>9. todo = <<>> => \A w \in Pending : input = <<w>>
  BY <1>2, <1>3, <1>4
<1>10. input = <<>> /\ todo = <<>> => Pending = {}
  BY <1>3, <1>4
<1>11. QED
  BY <1>4, <1>5, <1>6, <1>7, <1>8, <1>9, <1>10

(* The controller takes a command: what it answers, and what becomes of    *)
(* the configuration.                                                      *)
LEMMA CommandMoves ==
  ASSUME SetUpTypes, SetUp!TakeCommand
  PROVE  /\ input # <<>> /\ Head(input).port = "command" /\ input' = <<>>
         /\ UNCHANGED <<queue, keyboard, todo, keys, refusals>>
         /\ Pending' \subseteq Pending /\ Configurations' = Configurations
         /\ \/ output' = output
            \/ /\ output = <<>>
               /\ \E b : /\ output' = <<b>> /\ b.name # "RESET_DONE"
                         /\ b.name = "configuration" => Reading /\ b.flags = config
                         /\ b.name = "CONTROLLER_TEST_PASSED" => IsCommand(Head(input), "TEST_CONTROLLER")
         /\ Reading => output = <<>> /\ output' = <<SetUp!ConfigByte(config)>>
         /\ "KEYBOARD_IRQ" \in config => "KEYBOARD_IRQ" \in config'
         /\ ~IsCommand(Head(input), "TEST_CONTROLLER") => ("TRANSLATE" \in config' <=> "TRANSLATE" \in config)
<1> DEFINE n == Head(input).byte.name
<1>1. /\ input # <<>> /\ Head(input).port = "command" /\ input' = <<>>
      /\ SetUp!Answers(n) # <<>> => output = <<>>
      /\ output' = output \o SetUp!Answers(n)
      /\ config' = SetUp!Reconfigured(n) \/ (n = "TEST_CONTROLLER" /\ config' = SetUp!Resets)
      /\ UNCHANGED <<queue, keyboard, todo, keys, refusals>>
  BY Zenon DEF SetUp!TakeCommand, SetUp!historyVars
<1>2. output \in Seq(ByteType)
  BY DEF SetUpTypes
<1>3. SetUp!Answers(n) = <<>> => output' = output
  BY <1>1, <1>2, ConcatEmptySeq
<1>4. \A b : output = <<>> /\ SetUp!Answers(n) = <<b>> => output' = <<b>>
  <2>1. \A b : <<>> \o <<b>> = <<b>>
    <3> TAKE b
    <3>1. <<b>> \in Seq({b})
      OBVIOUS
    <3>2. QED
      BY <3>1, ConcatEmptySeq
  <2>2. QED
    BY <1>1, <2>1
<1>5. \A name : SetUp!Byte(name).name = name
  BY DEF SetUp!Byte
<1>6. \A flags : SetUp!ConfigByte(flags).name = "configuration" /\ SetUp!ConfigByte(flags).flags = flags
  BY DEF SetUp!ConfigByte
<1>7. \/ SetUp!Answers(n) = <<>> /\ n # "READ_CONFIGURATION"
      \/ n = "READ_CONFIGURATION" /\ SetUp!Answers(n) = <<SetUp!ConfigByte(config)>>
      \/ /\ n = "TEST_CONTROLLER"
         /\ \E name \in {"CONTROLLER_TEST_PASSED", "CONTROLLER_TEST_FAILED"} : SetUp!Answers(n) = <<SetUp!Byte(name)>>
      \/ /\ n # "READ_CONFIGURATION"
         /\ \E name \in {"PORT_TEST_PASSED", "PORT_TEST_FAILED"} : SetUp!Answers(n) = <<SetUp!Byte(name)>>
  <2>1. CASE n = "READ_CONFIGURATION"
    BY <2>1, Zenon DEF SetUp!Answers
  <2>2. CASE n = "TEST_CONTROLLER"
    <3>1. n # "READ_CONFIGURATION"
      BY <2>2
    <3>2. SetUp!Answers(n) = <<SetUp!Byte(IF hardware.controller THEN "CONTROLLER_TEST_PASSED" ELSE "CONTROLLER_TEST_FAILED")>>
      BY <2>2, <3>1, Zenon DEF SetUp!Answers
    <3>3. QED
      BY <2>2, <3>2, Zenon
  <2>3. CASE n # "READ_CONFIGURATION" /\ n # "TEST_CONTROLLER"
    <3>1. \/ SetUp!Answers(n) = <<>>
          \/ SetUp!Answers(n) = <<SetUp!Byte(IF hardware.ports THEN "PORT_TEST_PASSED" ELSE "PORT_TEST_FAILED")>>
      BY <2>3, Zenon DEF SetUp!Answers
    <3>2. QED
      BY <2>3, <3>1, Zenon
  <2>4. QED
    BY <2>1, <2>2, <2>3
<1>8. IsCommand(Head(input), n) /\ \A m : IsCommand(Head(input), m) => m = n
  BY <1>1 DEF IsCommand
<1>9. Reading <=> n = "READ_CONFIGURATION"
  BY <1>1 DEF Reading, IsCommand
<1>10. /\ \/ output' = output
          \/ /\ output = <<>>
             /\ \E b : /\ output' = <<b>> /\ b.name # "RESET_DONE"
                       /\ b.name = "configuration" => Reading /\ b.flags = config
                       /\ b.name = "CONTROLLER_TEST_PASSED" => IsCommand(Head(input), "TEST_CONTROLLER")
       /\ Reading => output = <<>> /\ output' = <<SetUp!ConfigByte(config)>>
  <2> HIDE DEF n
  <2>0. \A b : <<b>> # <<>>
    OBVIOUS
  <2>1. CASE SetUp!Answers(n) = <<>> /\ n # "READ_CONFIGURATION"
    BY <1>3, <1>9, <2>1
  <2>2. CASE n = "READ_CONFIGURATION" /\ SetUp!Answers(n) = <<SetUp!ConfigByte(config)>>
    <3> DEFINE b == SetUp!ConfigByte(config)
    <3>1. b.name = "configuration" /\ b.flags = config
      BY <1>6
    <3>2. output = <<>> /\ output' = <<b>>
      BY <1>1, <1>4, <2>0, <2>2, Zenon
    <3> HIDE DEF b
    <3>3. b.name # "RESET_DONE" /\ b.name # "CONTROLLER_TEST_PASSED"
      BY <3>1
    <3>4. QED
      BY <1>9, <2>2, <3>1, <3>2, <3>3, Zenon DEF b
  <2>3. CASE n = "TEST_CONTROLLER" /\ \E name \in {"CONTROLLER_TEST_PASSED", "CONTROLLER_TEST_FAILED"} : SetUp!Answers(n) = <<SetUp!Byte(name)>>
    <3>1. PICK name \in {"CONTROLLER_TEST_PASSED", "CONTROLLER_TEST_FAILED"} : SetUp!Answers(n) = <<SetUp!Byte(name)>>
      BY <2>3
    <3>2. output = <<>> /\ output' = <<SetUp!Byte(name)>>
      BY <1>1, <1>4, <2>0, <3>1, Zenon
    <3>3. SetUp!Byte(name).name = name /\ name # "RESET_DONE" /\ name # "configuration" /\ n # "READ_CONFIGURATION"
      BY <1>5, <2>3, <3>1
    <3>4. IsCommand(Head(input), "TEST_CONTROLLER")
      BY <1>8, <2>3
    <3>5. QED
      BY <1>9, <3>2, <3>3, <3>4, Zenon
  <2>4. CASE /\ n # "READ_CONFIGURATION"
             /\ \E name \in {"PORT_TEST_PASSED", "PORT_TEST_FAILED"} : SetUp!Answers(n) = <<SetUp!Byte(name)>>
    <3>1. PICK name \in {"PORT_TEST_PASSED", "PORT_TEST_FAILED"} : SetUp!Answers(n) = <<SetUp!Byte(name)>>
      BY <2>4
    <3>2. output = <<>> /\ output' = <<SetUp!Byte(name)>>
      BY <1>1, <1>4, <2>0, <3>1, Zenon
    <3>3. SetUp!Byte(name).name = name /\ name # "RESET_DONE" /\ name # "configuration" /\ name # "CONTROLLER_TEST_PASSED"
      BY <1>5, <3>1
    <3>4. QED
      BY <1>9, <2>4, <3>2, <3>3, Zenon
  <2>5. QED
    BY <1>7, <2>1, <2>2, <2>3, <2>4, Zenon
<1>11. /\ "KEYBOARD_IRQ" \in config => "KEYBOARD_IRQ" \in config'
       /\ n # "TEST_CONTROLLER" => ("TRANSLATE" \in config' <=> "TRANSLATE" \in config)
  BY <1>1 DEF SetUp!Reconfigured, SetUp!Resets, SetUp!MouseFlag
<1>12. Pending' \subseteq Pending /\ Configurations' = Configurations
  <2>1. Pending' \cup {Head(input)} = Pending
    BY <1>1, PendingMoves
  <2>2. ~IsConfiguration(Head(input))
    BY <1>1 DEF IsConfiguration
  <2>3. QED
    BY <2>1, <2>2, Zenon DEF Configurations
<1> HIDE DEF n
<1>13. ~IsCommand(Head(input), "TEST_CONTROLLER") => n # "TEST_CONTROLLER"
  BY <1>8
<1>14. QED
  BY <1>1, <1>10, <1>11, <1>12, <1>13, Zenon

(* The controller takes a configuration. *)
LEMMA ConfigurationMoves ==
  ASSUME SetUpTypes, Orderly(todo, input, expects), SetUp!TakeConfiguration
  PROVE  /\ input # <<>> /\ IsConfiguration(Head(input)) /\ input' = <<>> /\ config' = Head(input).byte.flags
         /\ UNCHANGED <<output, queue, keyboard, todo, keys, refusals>>
         /\ Pending' \subseteq Pending /\ Configurations' \subseteq Configurations /\ Head(input) \in Configurations
<1>1. /\ input # <<>> /\ Head(input).port = "data" /\ expects = "configuration"
      /\ input' = <<>> /\ config' = Head(input).byte.flags
      /\ UNCHANGED <<output, queue, keyboard, todo, keys, refusals>>
  BY Zenon DEF SetUp!TakeConfiguration, SetUp!historyVars
<1>2. Head(input) = input[1]
  OBVIOUS
<1>3. IsConfiguration(Head(input))
  BY <1>1, <1>2, Zenon DEF Orderly
<1>4. Pending' \cup {Head(input)} = Pending
  BY <1>1, PendingMoves
<1>5. QED
  BY <1>1, <1>3, <1>4, Zenon DEF Configurations

(* The keyboard takes a byte, which is not a configuration.                *)
LEMMA DataMoves ==
  ASSUME SetUpTypes, Orderly(todo, input, expects), SetUp!TakeData
  PROVE  /\ input # <<>> /\ Head(input).port = "data" /\ ~IsConfiguration(Head(input)) /\ input' = <<>>
         /\ config' = config \ {"KEYBOARD_LOCKED"}
         /\ UNCHANGED <<output, queue, todo, keys>>
         /\ Pending' \subseteq Pending /\ Configurations' = Configurations /\ Head(input) \in Pending
         /\ \A k \in 1 .. Len(keyboard'.sends) :
              \/ k \in 1 .. Len(keyboard.sends) /\ keyboard'.sends[k] = keyboard.sends[k]
              \/ keyboard'.sends[k] \in Replied /\ (keyboard'.sends[k] = "RESET_DONE" => Head(input).byte.name = "RESET")
         /\ Head(input).byte.name \in {"ENABLE_SCANNING", "RESET", "GET_SET_SCAN_CODE_SET", "SET_2"}
              /\ keyboard.scanning /\ keyboard.set = "SET_2" => keyboard'.scanning /\ keyboard'.set = "SET_2"
<1> DEFINE name == Head(input).byte.name
<1>1. /\ input # <<>> /\ Head(input).port = "data" /\ expects = "keyboard" /\ input' = <<>>
      /\ config' = config \ {"KEYBOARD_LOCKED"}
      /\ UNCHANGED <<output, queue, todo, keys>>
      /\ \/ keyboard' = keyboard
         \/ keyboard' = [SetUp!Obeyed(name) EXCEPT !.sends = @ \o SetUp!Reply(name)]
         \/ keyboard' = [keyboard EXCEPT !.sends = Append(@, "RESEND")]
  BY Zenon DEF SetUp!TakeData
<1>2. Head(input) = input[1]
  OBVIOUS
<1>3. ~IsConfiguration(Head(input))
  <2>1. expects # "configuration"
    BY <1>1, SMTT(30)
  <2>2. QED
    BY <1>1, <1>2, <2>1, Zenon DEF Orderly
<1>4. Pending' \cup {Head(input)} = Pending /\ Head(input) \in Pending
  BY <1>1, PendingMoves
<1>5. Pending' \subseteq Pending /\ Configurations' = Configurations
  BY <1>3, <1>4, Zenon DEF Configurations
<1>6. keyboard \in KeyboardState /\ keyboard.sends \in Seq(Words) /\ keyboard.set \in SetUp!Sets
  BY DEF SetUpTypes, KeyboardState
<1>7. /\ SetUp!Obeyed(name).sends = keyboard.sends /\ SetUp!Obeyed(name) \in KeyboardState
      /\ name \in {"ENABLE_SCANNING", "RESET", "GET_SET_SCAN_CODE_SET", "SET_2"} /\ keyboard.scanning /\ keyboard.set = "SET_2" =>
           SetUp!Obeyed(name).scanning /\ SetUp!Obeyed(name).set = "SET_2"
  <2>1. SetUp!Sets = {"SET_1", "SET_2", "SET_3"}
    <3>1. 1 .. 3 = {1, 2, 3}
      OBVIOUS
    <3>2. SetUp!ScanCodeSet(1) = "SET_1" /\ SetUp!ScanCodeSet(2) = "SET_2" /\ SetUp!ScanCodeSet(3) = "SET_3"
      BY DEF SetUp!ScanCodeSet
    <3>3. QED
      BY <3>1, <3>2 DEF SetUp!Sets
  <2>2. QED
    BY <1>6, <2>1 DEF SetUp!Obeyed, KeyboardState
<1> HIDE DEF name
<1>8. SetUp!Reply(name) \in Seq(Words) /\ \A k \in 1 .. Len(SetUp!Reply(name)) :
        SetUp!Reply(name)[k] \in Replied /\ (SetUp!Reply(name)[k] = "RESET_DONE" => name = "RESET")
  <2>1. keyboard.set \in {"SET_1", "SET_2", "SET_3"}
    <3>1. 1 .. 3 = {1, 2, 3}
      OBVIOUS
    <3>2. SetUp!ScanCodeSet(1) = "SET_1" /\ SetUp!ScanCodeSet(2) = "SET_2" /\ SetUp!ScanCodeSet(3) = "SET_3"
      BY DEF SetUp!ScanCodeSet
    <3>3. QED
      BY <1>6, <3>1, <3>2 DEF SetUp!Sets
  <2>2. CASE name = "RESET"
    <3>1. SetUp!Reply(name) = <<"ACK", "RESET_DONE">>
      BY <2>2 DEF SetUp!Reply
    <3>2. "ACK" \in Words /\ "RESET_DONE" \in Words /\ "ACK" \in Replied /\ "RESET_DONE" \in Replied
      BY DEF Words, Replied
    <3>3. SetUp!Reply(name) \in Seq(Words) /\ \A k \in 1 .. Len(SetUp!Reply(name)) : SetUp!Reply(name)[k] \in Replied
      BY <3>1, <3>2
    <3>4. QED
      BY <2>2, <3>3, Zenon
  <2>3. CASE name = "IDENTIFY"
    <3>1. SetUp!Reply(name) = <<"ACK", "MF2_PREFIX", "MF2">>
      BY <2>3 DEF SetUp!Reply
    <3>2. QED
      BY <3>1 DEF Replied, Words
  <2>4. CASE name = "GET_CURRENT_SET"
    <3>1. SetUp!Reply(name) = <<"ACK", keyboard.set>>
      BY <2>4 DEF SetUp!Reply
    <3>2. QED
      BY <2>1, <3>1 DEF Replied, Words
  <2>5. CASE name \notin {"RESET", "IDENTIFY", "GET_CURRENT_SET"}
    <3>1. SetUp!Reply(name) = <<"ECHO">> \/ SetUp!Reply(name) = <<"ACK">>
      BY <2>5 DEF SetUp!Reply
    <3>2. "ACK" \in Words /\ "ECHO" \in Words /\ "ACK" \in Replied /\ "ECHO" \in Replied
      BY DEF Words, Replied
    <3>3. CASE SetUp!Reply(name) = <<"ECHO">>
      BY <3>2, <3>3
    <3>4. CASE SetUp!Reply(name) = <<"ACK">>
      BY <3>2, <3>4
    <3>5. QED
      BY <3>1, <3>3, <3>4
  <2>6. QED
    BY <2>2, <2>3, <2>4, <2>5
<1>9. ASSUME NEW k \in 1 .. Len(keyboard'.sends)
      PROVE  \/ k \in 1 .. Len(keyboard.sends) /\ keyboard'.sends[k] = keyboard.sends[k]
             \/ keyboard'.sends[k] \in Replied /\ (keyboard'.sends[k] = "RESET_DONE" => name = "RESET")
  <2>1. CASE keyboard' = keyboard
    BY <1>9, <2>1
  <2>2. CASE keyboard' = [SetUp!Obeyed(name) EXCEPT !.sends = @ \o SetUp!Reply(name)]
    <3> DEFINE s == keyboard.sends  r == SetUp!Reply(name)
    <3>1. keyboard'.sends = s \o r
      BY <1>7, <2>2 DEF KeyboardState
    <3>2. s \in Seq(Words) /\ r \in Seq(Words) /\ k \in 1 .. Len(s \o r)
      BY <1>6, <1>8, <1>9, <3>1
    <3>3. \A j \in 1 .. Len(r) : r[j] \in Replied /\ (r[j] = "RESET_DONE" => name = "RESET")
      BY <1>8
    <3> HIDE DEF s, r
    <3>4. (k \in 1 .. Len(s) /\ (s \o r)[k] = s[k]) \/ \E j \in 1 .. Len(r) : (s \o r)[k] = r[j]
      <4>1. CASE k <= Len(s)
        BY <3>2, <4>1
      <4>2. CASE k > Len(s)
        <5>1. k - Len(s) \in 1 .. Len(r) /\ (s \o r)[k] = r[k - Len(s)]
          BY <3>2, <4>2
        <5>2. QED
          BY <5>1
      <4>3. QED
        BY <3>2, <4>1, <4>2
    <3>5. QED
      BY <3>1, <3>3, <3>4 DEF s
  <2>3. CASE keyboard' = [keyboard EXCEPT !.sends = Append(@, "RESEND")]
    <3>1. keyboard'.sends = Append(keyboard.sends, "RESEND")
      BY <1>6, <2>3 DEF KeyboardState
    <3>2. "RESEND" \in Replied
      BY DEF Replied
    <3>3. QED
      BY <1>6, <1>9, <3>1, <3>2
  <2>4. QED
    BY <1>1, <2>1, <2>2, <2>3
<1>10. name \in {"ENABLE_SCANNING", "RESET", "GET_SET_SCAN_CODE_SET", "SET_2"} /\ keyboard.scanning /\ keyboard.set = "SET_2"
         => keyboard'.scanning /\ keyboard'.set = "SET_2"
  <2>1. CASE keyboard' = keyboard
    BY <2>1
  <2>2. CASE keyboard' = [SetUp!Obeyed(name) EXCEPT !.sends = @ \o SetUp!Reply(name)]
    <3>1. keyboard'.scanning = SetUp!Obeyed(name).scanning /\ keyboard'.set = SetUp!Obeyed(name).set
      BY <1>7, <2>2 DEF KeyboardState
    <3>2. QED
      BY <1>7, <3>1
  <2>3. CASE keyboard' = [keyboard EXCEPT !.sends = Append(@, "RESEND")]
    BY <1>6, <2>3 DEF KeyboardState
  <2>4. QED
    BY <1>1, <2>1, <2>2, <2>3
<1>11. QED
  BY <1>1, <1>3, <1>4, <1>5, <1>9, <1>10, Zenon DEF name

(* A key is pressed, a byte is delivered, or queued. *)
LEMMA QuietMoves ==
  ASSUME SetUpTypes, SendsKnown, SetUp!PressKey \/ SetUp!Deliver \/ SetUp!IRQHandler
  PROVE  /\ UNCHANGED <<input, config, todo>> /\ Pending' = Pending /\ Configurations' = Configurations
         /\ keyboard'.scanning = keyboard.scanning /\ keyboard'.set = keyboard.set
         /\ \A k \in 1 .. Len(keyboard'.sends) :
              keyboard'.sends[k] = "key" \/ \E j \in 1 .. Len(keyboard.sends) : keyboard'.sends[k] = keyboard.sends[j]
         /\ \/ output' = output /\ queue' = queue
            \/ /\ output = <<>> /\ queue' = queue
               /\ \E b : /\ output' = <<b>> /\ b.name \in Replied
                         /\ \E j \in 1 .. Len(keyboard.sends) : b.name = keyboard.sends[j]
            \/ output # <<>> /\ output' = <<>> /\ queue' = queue \o output
<1>1. keyboard \in KeyboardState /\ keyboard.sends \in Seq(Words)
  BY DEF SetUpTypes, KeyboardState
<1>2. UNCHANGED <<input, config, todo>>
  BY Zenon DEF SetUp!PressKey, SetUp!Deliver, SetUp!IRQHandler, SetUp!controllerVars
<1>3. Pending' = Pending /\ Configurations' = Configurations
  <2>1. Pending' = Pending
    BY <1>2, PendingMoves
  <2>2. QED
    BY <2>1, Zenon DEF Configurations
<1>4. CASE SetUp!PressKey
  <2>1. keyboard' = [keyboard EXCEPT !.sends = Append(@, "key")] /\ output' = output /\ queue' = queue
    BY <1>4, Zenon DEF SetUp!PressKey, SetUp!controllerVars
  <2>2. keyboard'.scanning = keyboard.scanning /\ keyboard'.set = keyboard.set
        /\ keyboard'.sends = Append(keyboard.sends, "key")
    BY <1>1, <2>1 DEF KeyboardState
  <2>3. \A k \in 1 .. Len(keyboard'.sends) :
              keyboard'.sends[k] = "key" \/ \E j \in 1 .. Len(keyboard.sends) : keyboard'.sends[k] = keyboard.sends[j]
    BY <1>1, <2>2
  <2>4. QED
    BY <1>2, <1>3, <2>1, <2>2, <2>3
<1>5. CASE SetUp!Deliver
  <2>1. /\ keyboard.sends # <<>> /\ output = <<>> /\ output' = <<SetUp!Byte(Head(keyboard.sends))>> /\ queue' = queue
        /\ keyboard' = [keyboard EXCEPT !.sends = Tail(@)]
    BY <1>5, Zenon DEF SetUp!Deliver
  <2>2. keyboard'.scanning = keyboard.scanning /\ keyboard'.set = keyboard.set
        /\ keyboard'.sends = Tail(keyboard.sends)
    BY <1>1, <2>1 DEF KeyboardState
  <2>3. Len(keyboard.sends) \in Nat /\ Len(keyboard.sends) > 0 /\ Head(keyboard.sends) = keyboard.sends[1]
        /\ Len(Tail(keyboard.sends)) = Len(keyboard.sends) - 1
        /\ \A k \in 1 .. Len(Tail(keyboard.sends)) : Tail(keyboard.sends)[k] = keyboard.sends[k + 1]
    <3>1. Len(keyboard.sends) \in Nat /\ Len(keyboard.sends) > 0
      BY <1>1, <2>1, EmptySeq
    <3>2. QED
      BY <1>1, <2>1, <3>1
  <2>4. \A k \in 1 .. Len(keyboard'.sends) : \E j \in 1 .. Len(keyboard.sends) : keyboard'.sends[k] = keyboard.sends[j]
    <3> TAKE k \in 1 .. Len(keyboard'.sends)
    <3>1. k + 1 \in 1 .. Len(keyboard.sends) /\ keyboard'.sends[k] = keyboard.sends[k + 1]
      BY <2>2, <2>3
    <3>2. QED
      BY <3>1
  <2>5. SetUp!Byte(Head(keyboard.sends)).name = Head(keyboard.sends)
    BY DEF SetUp!Byte
  <2>6. 1 \in 1 .. Len(keyboard.sends)
    BY <2>3
  <2>7. Head(keyboard.sends) \in Replied
    BY <2>3, <2>6 DEF SendsKnown
  <2>8. QED
    BY <1>2, <1>3, <2>1, <2>2, <2>3, <2>4, <2>5, <2>6, <2>7, Zenon
<1>6. CASE SetUp!IRQHandler
  <2>1. /\ keyboard' = keyboard /\ output # <<>> /\ output' = <<>> /\ queue' = queue \o output
    BY <1>6, Zenon DEF SetUp!IRQHandler
  <2>2. QED
    BY <1>2, <1>3, <2>1
<1>7. QED
  BY <1>4, <1>5, <1>6

(* The keyboard sends what is known. *)
LEMMA SendsKnownStep ==
  ASSUME SetUpTypes, AtRest, Orderly(todo, input, expects), SendsKnown, SetUp!Next
  PROVE  SendsKnown'
<1>1. SUFFICES \A k \in 1 .. Len(keyboard'.sends) : keyboard'.sends[k] \in Replied
  BY Zenon DEF SendsKnown
<1>2. \A k \in 1 .. Len(keyboard.sends) : keyboard.sends[k] \in Replied
  BY DEF SendsKnown
<1>3. "key" \in Replied
  BY DEF Replied
<1>4. CASE DriverStep
  <2>1. keyboard' = keyboard
    BY <1>4, DriverGoesOn, Zenon DEF GoesOn
  <2>2. QED
    BY <1>2, <2>1
<1>5. CASE SetUp!Write
  <2>1. keyboard' = keyboard
    BY <1>5, WriteMoves
  <2>2. QED
    BY <1>2, <2>1
<1>6. CASE SetUp!TakeCommand
  <2>1. keyboard' = keyboard
    BY <1>6, CommandMoves
  <2>2. QED
    BY <1>2, <2>1
<1>7. CASE SetUp!TakeConfiguration
  <2>1. keyboard' = keyboard
    BY <1>7, ConfigurationMoves
  <2>2. QED
    BY <1>2, <2>1
<1>8. CASE SetUp!TakeData
  <2>1. \A k \in 1 .. Len(keyboard'.sends) :
          \/ k \in 1 .. Len(keyboard.sends) /\ keyboard'.sends[k] = keyboard.sends[k]
          \/ keyboard'.sends[k] \in Replied
    BY <1>8, DataMoves, Zenon
  <2>2. QED
    BY <1>2, <2>1
<1>9. CASE SetUp!PressKey \/ SetUp!Deliver \/ SetUp!IRQHandler
  <2>1. \A k \in 1 .. Len(keyboard'.sends) :
          keyboard'.sends[k] = "key" \/ \E j \in 1 .. Len(keyboard.sends) : keyboard'.sends[k] = keyboard.sends[j]
    BY <1>9, QuietMoves, Zenon
  <2>2. QED
    BY <1>2, <1>3, <2>1
<1>10. QED
  BY <1>4, <1>5, <1>6, <1>7, <1>8, <1>9, StepsOfSetUp, Zenon DEF DeviceStep

(* A queue that the register's byte joins. *)
LEMMA QueueJoins ==
  ASSUME NEW q \in Seq(ByteType), NEW o \in Seq(ByteType), Len(o) <= 1
  PROVE  /\ \A name : None(name, q) /\ None(name, o) => None(name, q \o o)
         /\ Blocks(q) => Blocks(q \o o)
         /\ Blocked(q, o) => Blocks(q \o o)
<1> DEFINE qo == q \o o
<1>1. /\ Len(q) \in Nat /\ Len(o) \in Nat /\ Len(qo) = Len(q) + Len(o)
      /\ (\A k \in 1 .. Len(q) : qo[k] = q[k])
      /\ (\A k \in 1 .. Len(o) : qo[Len(q) + k] = o[k])
  BY ConcatProperties
<1> HIDE DEF qo
<1>0. o # <<>> => Len(o) = 1
  <2>1. o # <<>> => Len(o) # 0
    BY EmptySeq
  <2>2. QED
    BY <2>1
<1>2. \A k \in 1 .. Len(qo) : k \in 1 .. Len(q) \/ \E j \in 1 .. Len(o) : k = Len(q) + j
  <2> TAKE k \in 1 .. Len(qo)
  <2>1. CASE k > Len(q)
    <3>1. k - Len(q) \in 1 .. Len(o) /\ k = Len(q) + (k - Len(q))
      BY <1>1, <2>1
    <3>2. QED
      BY <3>1
  <2>2. QED
    BY <1>1, <2>1
<1>3. ASSUME NEW name, None(name, q), None(name, o) PROVE None(name, qo)
  BY <1>1, <1>2, <1>3 DEF None
<1>4. ASSUME Blocks(q) PROVE Blocks(qo)
  <2>1. PICK k \in 1 .. Len(q) : q[k].name = "configuration" /\ \A j \in 1 .. k - 1 : q[j].name # "RESET_DONE"
    BY <1>4 DEF Blocks
  <2>2. k \in 1 .. Len(qo) /\ qo[k] = q[k] /\ \A j \in 1 .. k - 1 : qo[j] = q[j]
    BY <1>1, <2>1
  <2>3. QED
    BY <2>1, <2>2 DEF Blocks
<1>5. ASSUME o # <<>>, Head(o).name = "configuration", None("RESET_DONE", q) PROVE Blocks(qo)
  <2>1. Len(o) = 1 /\ Head(o) = o[1]
    <3>1. Head(o) = o[1]
      OBVIOUS
    <3>2. QED
      BY <1>0, <1>5, <3>1, Zenon
  <2> DEFINE k == Len(q) + 1
  <2>2. k \in 1 .. Len(qo) /\ qo[k] = o[1] /\ \A j \in 1 .. k - 1 : j \in 1 .. Len(q) /\ qo[j] = q[j]
    BY <1>1, <2>1
  <2>3. \A j \in 1 .. k - 1 : qo[j].name # "RESET_DONE"
    BY <1>5, <2>2 DEF None
  <2> HIDE DEF k
  <2>4. QED
    BY <1>5, <2>1, <2>2, <2>3 DEF Blocks
<1>6. QED
  BY <1>3, <1>4, <1>5, Zenon DEF Blocked, qo

(* A byte taken from a queue that blocks is not the answer to RESET, and   *)
(* unless it is the configuration, what remains blocks as well.            *)
LEMMA QueueLeaves ==
  ASSUME NEW q \in Seq(ByteType), NEW o \in Seq(ByteType), q # <<>>, Blocked(q, o)
  PROVE  /\ Head(q).name # "RESET_DONE"
         /\ Head(q).name # "configuration" => Blocked(Tail(q), o)
<1> DEFINE t == Tail(q)
<1>1. Len(q) \in Nat /\ Len(q) > 0 /\ Head(q) = q[1] /\ Len(t) = Len(q) - 1 /\ (\A k \in 1 .. Len(t) : t[k] = q[k + 1])
  <2>1. Len(q) \in Nat /\ Len(q) > 0
    BY EmptySeq
  <2>2. QED
    BY <2>1
<1> HIDE DEF t
<1>2. CASE Blocks(q)
  <2>1. PICK k \in 1 .. Len(q) : q[k].name = "configuration" /\ \A j \in 1 .. k - 1 : q[j].name # "RESET_DONE"
    BY <1>2 DEF Blocks
  <2>2. Head(q).name # "RESET_DONE"
    <3>1. CASE k = 1
      BY <1>1, <2>1, <3>1
    <3>2. CASE k # 1
      <4>1. 1 \in 1 .. k - 1
        BY <1>1, <3>2
      <4>2. QED
        BY <1>1, <2>1, <4>1
    <3>3. QED
      BY <3>1, <3>2
  <2>3. ASSUME Head(q).name # "configuration" PROVE Blocks(t)
    <3> DEFINE i == k - 1
    <3>1. k # 1
      BY <1>1, <2>1, <2>3
    <3>2. i \in 1 .. Len(t) /\ t[i] = q[k] /\ \A j \in 1 .. i - 1 : t[j] = q[j + 1] /\ j + 1 \in 1 .. k - 1
      BY <1>1, <3>1
    <3> HIDE DEF i
    <3>3. QED
      BY <2>1, <3>2 DEF Blocks
  <2>4. QED
    BY <2>2, <2>3, Zenon DEF Blocked, t
<1>3. CASE o # <<>> /\ Head(o).name = "configuration" /\ None("RESET_DONE", q)
  <2>1. 1 \in 1 .. Len(q)
    BY <1>1
  <2>2. Head(q).name # "RESET_DONE"
    BY <1>1, <1>3, <2>1 DEF None
  <2>3. None("RESET_DONE", t)
    <3>1. \A k \in 1 .. Len(t) : k + 1 \in 1 .. Len(q)
      BY <1>1
    <3>2. QED
      BY <1>1, <1>3, <3>1 DEF None
  <2>4. QED
    BY <1>3, <2>2, <2>3, Zenon DEF Blocked, t
<1>4. QED
  BY <1>2, <1>3, Zenon DEF Blocked

(* The ways the driver goes, and what it writes on each.  On most of them  *)
(* it writes no configuration.                                             *)
Free(td) == \A k \in 1 .. Len(td) : ~IsConfiguration(td[k])
Rewrites(td, flags) ==
  /\ \E k \in 1 .. Len(td) : IsConfiguration(td[k])
  /\ \A k \in 1 .. Len(td) : IsConfiguration(td[k]) => td[k].byte.flags = flags
Leads(p, q) ==
  \/ p \in {"flush", "keyboard flush", "reboot flush", "enable"} /\ q = p
  \/ p = "flush" /\ q = "configure"
  \/ p = "mouse" /\ q = "keyboard port"
  \/ p = "keyboard port" /\ q \in {"mouse port", "controller ready"}
  \/ p = "mouse port" /\ q = "controller ready"
  \/ p = "controller ready" /\ q \in {"keyboard flush", "no keyboard"}
  \/ p = "keyboard flush" /\ q = "enable"
  \/ p = "enable" /\ q = "no keyboard"
  \/ p = "idle" /\ q = "reboot flush"
  \/ p = "reboot flush" /\ q = "reboot"

Onward ==
  /\ Leads(at, at') /\ Free(todo') /\ UNCHANGED <<queue, handler>>
  /\ output' = <<>> \/ output' = output
  /\ at' \in {"flush", "configure"} => output' = <<>>
Configuring == at = "configure" /\ at' = "test" /\ output' = <<>> /\ "TRANSLATE" \notin configuration'
Failing == at = "test" /\ at' = "no controller" /\ output' = <<>>
Passing ==
  /\ at = "test" /\ at' \in {"mouse", "keyboard port"} /\ output # <<>> /\ Head(output).name = "CONTROLLER_TEST_PASSED"
  /\ output' = <<>> /\ queue' = queue /\ Rewrites(todo', configuration)
Enabled ==
  at = "enable" /\ at' = "reconfigure" /\ output' = <<>> /\ queue' = queue /\ handler' /\ Free(todo') /\ todo' # <<>>
Reconfiguring ==
  /\ at = "reconfigure" /\ at' = "call" /\ output # <<>> /\ output' = <<>> /\ UNCHANGED <<queue, handler>>
  /\ todo' # <<>> /\ Head(todo').port = "command" /\ Rewrites(todo', Head(output).flags \cup {"KEYBOARD_IRQ"})
  /\ call' = SetUp!Calling(FirstScript)
Using ==
  /\ at \in InUse /\ at' \in InUse \cup {"no keyboard"} /\ Free(todo') /\ UNCHANGED <<output, handler>>
  /\ queue' = queue \/ (queue # <<>> /\ queue' = Tail(queue))
Ways == Onward \/ Configuring \/ Failing \/ Passing \/ Enabled \/ Reconfiguring \/ Using

(* Commands are no configurations. *)
LEMMA FreeWrites ==
  /\ \A n : Free(<<SetUp!Command(n)>>)
  /\ \A m, n : Free(<<SetUp!Command(m), SetUp!Command(n)>>)
  /\ \A n \in Words : n # "configuration" => Free(<<SetUp!Data(SetUp!Byte(n))>>)
  /\ Free(<<>>)
<1>1. \A n : ~IsConfiguration(SetUp!Command(n))
  BY DEF SetUp!Command, IsConfiguration
<1>2. \A n \in Words : n # "configuration" => ~IsConfiguration(SetUp!Data(SetUp!Byte(n)))
  BY WriteFacts, Zenon DEF IsConfiguration
<1>3. \A v : ~IsConfiguration(v) => Free(<<v>>)
  BY DEF Free
<1>4. \A v, w : ~IsConfiguration(v) /\ ~IsConfiguration(w) => Free(<<v, w>>)
  BY DEF Free
<1>5. Free(<<>>)
  BY DEF Free
<1>6. QED
  BY <1>1, <1>2, <1>3, <1>4, <1>5, Zenon

(* A configuration that is written, alone or with commands behind it. *)
LEMMA RewritingWrites ==
  ASSUME NEW flags \in SUBSET SetUp!Flags
  PROVE  /\ Rewrites(SetUp!WriteConfiguration(flags), flags)
         /\ SetUp!WriteConfiguration(flags) # <<>> /\ Head(SetUp!WriteConfiguration(flags)).port = "command"
         /\ \A n \in Words : Rewrites(SetUp!WriteConfiguration(flags) \o <<SetUp!Command(n)>>, flags)
         /\ \A m, n \in Words :
              Rewrites(SetUp!WriteConfiguration(flags) \o <<SetUp!Command(m), SetUp!Command(n)>>, flags)
<1> DEFINE c == SetUp!Command("WRITE_CONFIGURATION")  d == SetUp!Data(SetUp!ConfigByte(flags))
<1>1. \A n : ~IsConfiguration(SetUp!Command(n)) /\ SetUp!Command(n).port = "command"
  BY DEF SetUp!Command, IsConfiguration
<1>2. IsConfiguration(d) /\ d.byte.flags = flags
  BY WriteFacts, Zenon DEF IsConfiguration
<1>3. \A n \in Words : SetUp!Command(n) \in WriteType
  BY ByteTypes, Zenon
<1>4. /\ SetUp!WriteConfiguration(flags) = <<c, d>>
      /\ \A v \in WriteType : SetUp!WriteConfiguration(flags) \o <<v>> = <<c, d, v>>
      /\ \A v, w \in WriteType : SetUp!WriteConfiguration(flags) \o <<v, w>> = <<c, d, v, w>>
  <2>1. SetUp!WriteConfiguration(flags) = <<c, d>>
    BY DEF SetUp!WriteConfiguration
  <2>2. QED
    BY <2>1, WritesSpelled, Zenon
<1>5. ~IsConfiguration(c) /\ c.port = "command"
  BY <1>1
<1> HIDE DEF c, d
<1>6. Rewrites(<<c, d>>, flags) /\ <<c, d>> # <<>> /\ Head(<<c, d>>) = c
  BY <1>2, <1>5 DEF Rewrites
<1>7. \A v : ~IsConfiguration(v) => Rewrites(<<c, d, v>>, flags)
  BY <1>2, <1>5 DEF Rewrites
<1>8. \A v, w : ~IsConfiguration(v) /\ ~IsConfiguration(w) => Rewrites(<<c, d, v, w>>, flags)
  BY <1>2, <1>5 DEF Rewrites
<1>9. QED
  BY <1>1, <1>3, <1>4, <1>5, <1>6, <1>7, <1>8, Zenon

(* Each step of the driver goes one of these ways. *)
LEMMA PollWays == SetUpTypes /\ AtRest /\ SetUp!Polls => Ways
<1> SUFFICES ASSUME SetUpTypes, AtRest, SetUp!Polls PROVE Ways
  OBVIOUS
<1>1. \A place : SetUp!ReadAnswer(place) =>
        at = place /\ todo = <<>> /\ output # <<>> /\ output' = <<>> /\ queue' = queue
  BY Zenon DEF SetUp!ReadAnswer
<1>2. output # <<>> => Head(output).flags \in SUBSET SetUp!Flags
  BY ByteMoves
<1>3. \A n \in {"LOCK_MOUSE", "TEST_KEYBOARD_PORT", "TEST_MOUSE_PORT", "UNLOCK_MOUSE", "READ_CONFIGURATION",
                "UNLOCK_KEYBOARD"} : n \in Words
  BY DEF Words
<1>4. CASE SetUp!Flush("flush") \/ SetUp!Flush("keyboard flush") \/ SetUp!Flush("reboot flush")
  <2>1. /\ at \in {"flush", "keyboard flush", "reboot flush"} /\ at' = at /\ todo' = <<>> /\ output' = <<>>
        /\ UNCHANGED <<queue, handler>>
    BY <1>1, <1>4, Zenon DEF SetUp!Flush
  <2>2. Leads(at, at')
    BY <2>1 DEF Leads
  <2>3. QED
    BY <2>1, <2>2, FreeWrites, Zenon DEF Ways, Onward
<1>5. CASE SetUp!Configure
  <2>1. SetUp!ReadAnswer("configure") /\ at' = "test" /\ configuration' = Head(output).flags \ SetUp!Unwanted
    BY <1>5, Zenon DEF SetUp!Configure, SetUp!GoTo, SetUp!Answer
  <2>2. "TRANSLATE" \notin configuration'
    BY <2>1 DEF SetUp!Unwanted
  <2>3. QED
    BY <1>1, <2>1, <2>2, Zenon DEF Ways, Configuring
<1>6. CASE SetUp!TestController
  <2>1. /\ SetUp!ReadAnswer("test")
        /\ \/ at' = "no controller"
           \/ /\ Head(output).name = "CONTROLLER_TEST_PASSED"
              /\ \/ at' = "keyboard port"
                    /\ todo' = SetUp!WriteConfiguration(configuration) \o SetUp!TestKeyboardPort
                 \/ /\ at' = "mouse"
                    /\ todo' = SetUp!WriteConfiguration(configuration)
                                 \o <<SetUp!Command("UNLOCK_MOUSE"), SetUp!Command("READ_CONFIGURATION")>>
    BY <1>6, Zenon DEF SetUp!TestController, SetUp!GoTo, SetUp!Answer
  <2>2. CASE at' = "no controller"
    BY <1>1, <2>1, <2>2, Zenon DEF Ways, Failing
  <2>3. ASSUME Head(output).name = "CONTROLLER_TEST_PASSED", at' \in {"mouse", "keyboard port"},
               Rewrites(todo', configuration)
        PROVE  Ways
    BY <1>1, <2>1, <2>3, Zenon DEF Ways, Passing
  <2>4. configuration \in SUBSET SetUp!Flags
    BY DEF SetUpTypes
  <2>5. /\ Rewrites(SetUp!WriteConfiguration(configuration) \o SetUp!TestKeyboardPort, configuration)
        /\ Rewrites(SetUp!WriteConfiguration(configuration)
                      \o <<SetUp!Command("UNLOCK_MOUSE"), SetUp!Command("READ_CONFIGURATION")>>, configuration)
    BY <1>3, <2>4, RewritingWrites, Zenon DEF SetUp!TestKeyboardPort
  <2>6. QED
    BY <2>1, <2>2, <2>3, <2>5, Zenon
<1>7. CASE SetUp!FindMouse
  <2>1. /\ SetUp!ReadAnswer("mouse") /\ at' = "keyboard port" /\ handler' = handler
        /\ \/ todo' = <<>> \o SetUp!TestKeyboardPort
           \/ todo' = <<SetUp!Command("LOCK_MOUSE")>> \o SetUp!TestKeyboardPort
    BY <1>7, Zenon DEF SetUp!FindMouse, SetUp!GoTo
  <2>2. Free(todo')
    <3>1. /\ SetUp!Command("LOCK_MOUSE") \in WriteType /\ SetUp!Command("TEST_KEYBOARD_PORT") \in WriteType
          /\ {} \in SUBSET SetUp!Flags
      BY <1>3, ByteTypes, Zenon
    <3>2. /\ <<>> \o SetUp!TestKeyboardPort = <<SetUp!Command("TEST_KEYBOARD_PORT")>>
          /\ <<SetUp!Command("LOCK_MOUSE")>> \o SetUp!TestKeyboardPort
               = <<SetUp!Command("LOCK_MOUSE"), SetUp!Command("TEST_KEYBOARD_PORT")>>
      BY <3>1, WritesSpelled, Zenon DEF SetUp!TestKeyboardPort
    <3>3. QED
      BY <2>1, <3>2, FreeWrites, Zenon
  <2>3. at = "mouse" /\ output' = <<>> /\ queue' = queue
    BY <1>1, <2>1
  <2>4. Leads(at, at') /\ at' \notin {"flush", "configure"}
    BY <2>1, <2>3 DEF Leads
  <2>5. QED
    BY <2>1, <2>2, <2>3, <2>4, Zenon DEF Ways, Onward
<1>8. ASSUME NEW port \in {"keyboard port", "mouse port"}, SetUp!TestPort(port) PROVE Ways
  <2>1. /\ SetUp!ReadAnswer(port) /\ handler' = handler
        /\ \/ port = "keyboard port" /\ at' = "mouse port" /\ todo' = <<SetUp!Command("TEST_MOUSE_PORT")>>
           \/ at' = "controller ready" /\ todo' = SetUp!UnlockInput
    BY <1>8, Zenon DEF SetUp!TestPort, SetUp!GoTo
  <2>2. Free(todo')
    BY <2>1, FreeWrites, Zenon DEF SetUp!UnlockInput
  <2>3. at = port /\ output' = <<>> /\ queue' = queue
    BY <1>1, <2>1
  <2>4. Leads(at, at') /\ at' \notin {"flush", "configure"}
    BY <1>8, <2>1, <2>3 DEF Leads
  <2>5. QED
    BY <2>1, <2>2, <2>3, <2>4, Zenon DEF Ways, Onward
<1>9. CASE SetUp!EnableScanning
  <2>1. /\ SetUp!ReadAnswer("enable")
        /\ \/ handler' = TRUE /\ at' = "reconfigure" /\ todo' = <<SetUp!Command("READ_CONFIGURATION")>>
           \/ UNCHANGED <<at, todo, handler>>
           \/ at' = "no keyboard" /\ todo' = <<>> /\ handler' = handler
    BY <1>9, Zenon DEF SetUp!EnableScanning, SetUp!GoTo
  <2>2. at = "enable" /\ todo = <<>> /\ output' = <<>> /\ queue' = queue
    BY <1>1, <2>1
  <2>3. CASE handler' = TRUE /\ at' = "reconfigure" /\ todo' = <<SetUp!Command("READ_CONFIGURATION")>>
    <3>1. \A v : <<v>> # <<>>
      OBVIOUS
    <3>2. QED
      BY <2>2, <2>3, <3>1, FreeWrites, Zenon DEF Ways, Enabled
  <2>4. CASE UNCHANGED <<at, todo, handler>>
    <3>1. Leads(at, at') /\ at' \notin {"flush", "configure"} /\ handler' = handler /\ todo' = <<>>
      BY <2>2, <2>4 DEF Leads
    <3>2. QED
      BY <2>2, <3>1, FreeWrites, Zenon DEF Ways, Onward
  <2>5. CASE at' = "no keyboard" /\ todo' = <<>> /\ handler' = handler
    <3>1. Leads(at, at') /\ at' \notin {"flush", "configure"}
      BY <2>2, <2>5 DEF Leads
    <3>2. QED
      BY <2>2, <2>5, <3>1, FreeWrites, Zenon DEF Ways, Onward
  <2>6. QED
    BY <2>1, <2>3, <2>4, <2>5, Zenon
<1>10. CASE SetUp!Reconfigure
  <2>1. /\ SetUp!ReadAnswer("reconfigure") /\ handler' = handler /\ at' = "call"
        /\ todo' = SetUp!WriteConfiguration(Head(output).flags \cup {"KEYBOARD_IRQ"})
        /\ call' = SetUp!Calling(FirstScript)
    BY <1>10, Zenon DEF SetUp!Reconfigure, SetUp!GoTo, SetUp!Answer, SetUp!Wanted, FirstScript
  <2>2. Head(output).flags \cup {"KEYBOARD_IRQ"} \in SUBSET SetUp!Flags
    <3>1. Head(output).flags \in SUBSET SetUp!Flags
      BY <1>1, <1>2, <2>1
    <3>2. "KEYBOARD_IRQ" \in SetUp!Flags
      BY DEF SetUp!Flags
    <3>3. QED
      BY <3>1, <3>2
  <2>3. /\ Rewrites(todo', Head(output).flags \cup {"KEYBOARD_IRQ"})
        /\ todo' # <<>> /\ Head(todo').port = "command"
    BY <2>1, <2>2, RewritingWrites, Zenon
  <2>4. QED
    BY <1>1, <2>1, <2>3, Zenon DEF Ways, Reconfiguring
<1>11. QED
  BY <1>4, <1>5, <1>6, <1>7, <1>8, <1>9, <1>10, Zenon DEF SetUp!Polls

(* Neither a call nor a flush writes a configuration. *)
LEMMA CallWays ==
  ASSUME SetUpTypes, AtRest, CallInv,
         SetUp!EndFlush \/ SetUp!BeginKeyboard \/ SetUp!CallStep \/ SetUp!TakeByte \/ SetUp!Call
           \/ SetUp!Reboot \/ SetUp!GetInput
  PROVE  Ways
<1>1. todo = <<>>
  <2>1. DriverStep
    BY Zenon DEF DriverStep
  <2>2. QED
    BY <2>1, DriverGoesOn, Zenon DEF GoesOn
<1>2. /\ "answer" \in InUse /\ "call" \in InUse /\ "idle" \in InUse
  BY DEF InUse
<1>3. ASSUME Sends(call.script) PROVE Free(<<SetUp!Data(SetUp!Byte(Head(call.script).name))>>)
  <2>1. Head(call.script).name \in KeyboardCommands
    BY <1>3, CallsAreSound, Zenon DEF CallInv, SoundCall, Sends
  <2>2. Head(call.script).name \in Words /\ Head(call.script).name # "configuration"
    BY <2>1 DEF KeyboardCommands, Words
  <2>3. QED
    BY <2>2, FreeWrites, Zenon
<1>4. ASSUME NEW place \in {"no keyboard", "idle"}, SetUp!Leave(place)
      PROVE  at' \in InUse \cup {"no keyboard"} /\ Free(todo')
  <2>1. at' \in {"call", place} /\ todo' = <<>>
    BY <1>4, Zenon DEF SetUp!Leave, SetUp!GoTo
  <2>2. at' \in InUse \cup {"no keyboard"}
    BY <1>2, <1>4, <2>1
  <2>3. QED
    BY <2>1, <2>2, FreeWrites, Zenon
<1>5. CASE SetUp!EndFlush
  <2>1. /\ UNCHANGED <<queue, handler, output>> /\ output = <<>>
        /\ \/ at = "flush" /\ at' = "configure" /\ todo' = <<SetUp!Command("READ_CONFIGURATION")>>
           \/ at = "keyboard flush" /\ at' = "enable" /\ todo' = <<SetUp!Data(SetUp!Byte("ENABLE_SCANNING"))>>
           \/ at = "reboot flush" /\ at' = "reboot" /\ todo' = <<SetUp!Command("REBOOT")>>
    BY <1>5, Zenon DEF SetUp!EndFlush, SetUp!GoTo, SetUp!controllerVars
  <2>2. Leads(at, at')
    BY <2>1 DEF Leads
  <2>3. "ENABLE_SCANNING" \in Words /\ "ENABLE_SCANNING" # "configuration"
    BY DEF Words
  <2>4. Free(todo')
    BY <2>1, <2>3, FreeWrites, Zenon
  <2>5. QED
    BY <2>1, <2>2, <2>4, Zenon DEF Ways, Onward
<1>6. CASE SetUp!BeginKeyboard
  <2>1. /\ UNCHANGED <<queue, handler, output>> /\ at = "controller ready" /\ todo' = <<>>
        /\ at' = "keyboard flush" \/ at' = "no keyboard"
    BY <1>6, Zenon DEF SetUp!BeginKeyboard, SetUp!GoTo, SetUp!controllerVars
  <2>2. Leads(at, at') /\ at' \notin {"flush", "configure"}
    BY <2>1 DEF Leads
  <2>3. QED
    BY <2>1, <2>2, FreeWrites, Zenon DEF Ways, Onward
<1>7. CASE SetUp!CallStep
  <2>1. /\ UNCHANGED <<queue, handler, output>> /\ at = "call"
        /\ \/ SetUp!Leave("idle")
           \/ Sends(call.script) /\ at' = "answer" /\ todo' = <<SetUp!Data(SetUp!Byte(Head(call.script).name))>>
    BY <1>7, Zenon DEF SetUp!CallStep, SetUp!Succeeds, SetUp!Sends, SetUp!GoTo, SetUp!controllerVars, Sends
  <2>2. at' \in InUse \cup {"no keyboard"} /\ Free(todo')
    BY <1>2, <1>3, <1>4, <2>1, Zenon
  <2>3. QED
    BY <1>2, <2>1, <2>2, Zenon DEF Ways, Using
<1>8. CASE SetUp!TakeByte
  <2>1. /\ UNCHANGED <<handler, output>> /\ queue # <<>> /\ queue' = Tail(queue) /\ at \in {"answer", "call"}
        /\ \/ at' = "call" /\ todo' = <<>>
           \/ at = "answer" /\ at' = "answer" /\ todo' = <<SetUp!Data(SetUp!Byte(Head(call.script).name))>>
           \/ SetUp!Leave(IF calls = 0 THEN "no keyboard" ELSE "idle")
    BY <1>8, Zenon DEF SetUp!TakeByte, SetUp!Advance, SetUp!Fails, SetUp!GoTo, SetUp!controllerVars
  <2>2. at = "answer" => Sends(call.script)
    BY Zenon DEF AtRest, Sends
  <2>3. (IF calls = 0 THEN "no keyboard" ELSE "idle") \in {"no keyboard", "idle"}
    OBVIOUS
  <2>4. at' \in InUse \cup {"no keyboard"} /\ Free(todo')
    BY <1>2, <1>3, <1>4, <2>1, <2>2, <2>3, FreeWrites, Zenon
  <2>5. at \in InUse
    BY <1>2, <2>1
  <2>6. QED
    BY <2>1, <2>4, <2>5, Zenon DEF Ways, Using
<1>9. CASE SetUp!Call
  <2>1. UNCHANGED <<queue, handler, output>> /\ at = "idle" /\ at' = "call" /\ todo' = <<>>
    BY <1>9, Zenon DEF SetUp!Call, SetUp!GoTo, SetUp!controllerVars
  <2>2. QED
    BY <1>2, <2>1, FreeWrites, Zenon DEF Ways, Using
<1>10. CASE SetUp!Reboot
  <2>1. UNCHANGED <<queue, handler, output>> /\ at = "idle" /\ at' = "reboot flush" /\ todo' = <<>>
    BY <1>10, Zenon DEF SetUp!Reboot, SetUp!GoTo, SetUp!controllerVars
  <2>2. Leads(at, at') /\ at' \notin {"flush", "configure"}
    BY <2>1 DEF Leads
  <2>3. QED
    BY <2>1, <2>2, FreeWrites, Zenon DEF Ways, Onward
<1>11. CASE SetUp!GetInput
  <2>1. UNCHANGED <<handler, output, todo, at>> /\ at = "idle" /\ queue # <<>> /\ queue' = Tail(queue)
    BY <1>11, Zenon DEF SetUp!GetInput, SetUp!controllerVars
  <2>2. todo' = <<>> /\ at' = "idle"
    BY <1>1, <2>1
  <2>3. QED
    BY <1>2, <2>1, <2>2, FreeWrites, Zenon DEF Ways, Using
<1>12. QED
  BY <1>5, <1>6, <1>7, <1>8, <1>9, <1>10, <1>11

(* Every step of the driver goes one of these ways. *)
LEMMA DriverWays == SetUpTypes /\ AtRest /\ CallInv /\ DriverStep => Ways /\ GoesOn /\ CallMoves
BY PollWays, CallWays, DriverGoesOn, DriverCallMoves, Zenon DEF DriverStep

(* What remains of the first call after a step of it. *)
LEMMA FirstSpelled ==
  /\ \A script \in FirstRemains : script # <<>> => Tail(script) \in FirstRemains
  /\ FirstScript \in FirstRemains /\ <<>> \in FirstRemains
  /\ FirstScript # <<>> /\ Head(FirstScript).does = "send" /\ Head(FirstScript).name = "RESET"
  /\ Tail(FirstScript) # <<>> /\ Head(Tail(FirstScript)).does = "take" /\ Head(Tail(FirstScript)).name = "RESET_DONE"
  /\ FirstScript # SetUp!GetType
<1> DEFINE R == SetUp!Send("RESET")  D == SetUp!Expect("RESET_DONE")
           G == SetUp!Send("GET_SET_SCAN_CODE_SET")  S2 == SetUp!Send("SET_2")
           L == SetUp!Send("DISABLE_SCANNING")  I == SetUp!Send("IDENTIFY")  M == SetUp!Expect("MF2_PREFIX")
           A == SetUp!Expect("anything")
           T == StepType
<1>1. R \in T /\ D \in T /\ G \in T /\ S2 \in T /\ L \in T /\ I \in T /\ M \in T /\ A \in T
  BY NamedSteps DEF Words
<1>2. /\ R.name = "RESET" /\ R.does = "send" /\ D.name = "RESET_DONE" /\ D.does = "take" /\ L.name = "DISABLE_SCANNING"
  BY NamedSteps DEF Words
<1>3. /\ SetUp!SetScanCodeSet(2) = <<G, S2>> /\ FirstScript = <<R, D, G, S2>> /\ SetUp!GetType = <<L, I, M, A>>
  BY ScriptsSpelled, Zenon DEF FirstScript
<1>4. \A s : s \in FirstRemains <=> s \in {<<>>, <<R, D, G, S2>>, <<D, G, S2>>, <<G, S2>>, <<S2>>}
  BY <1>3, Zenon DEF FirstRemains
<1> HIDE DEF R, D, G, S2, L, I, M, A
<1>5. /\ Spelled(<<R, D, G, S2>>, R, <<D, G, S2>>) /\ Spelled(<<D, G, S2>>, D, <<G, S2>>)
      /\ Spelled(<<G, S2>>, G, <<S2>>) /\ Spelled(<<S2>>, S2, <<>>) /\ Spelled(<<L, I, M, A>>, L, <<I, M, A>>)
  BY <1>1, TuplesSpelled, Zenon
<1>6. \A script \in FirstRemains : script # <<>> => Tail(script) \in FirstRemains
  <2> SUFFICES ASSUME NEW s \in FirstRemains, s # <<>> PROVE Tail(s) \in FirstRemains
    OBVIOUS
  <2>1. s = <<R, D, G, S2>> \/ s = <<D, G, S2>> \/ s = <<G, S2>> \/ s = <<S2>>
    BY <1>4, Zenon
  <2>2. Tail(s) \in {<<D, G, S2>>, <<G, S2>>, <<S2>>, <<>>}
    BY <1>5, <2>1, Zenon DEF Spelled
  <2>3. QED
    BY <1>4, <2>2, Zenon
<1>7. R # L
  BY <1>2
<1>8. FirstScript # SetUp!GetType
  BY <1>3, <1>5, <1>7, Zenon DEF Spelled
<1>9. /\ FirstScript # <<>> /\ Head(FirstScript) = R /\ Tail(FirstScript) # <<>> /\ Head(Tail(FirstScript)) = D
  BY <1>3, <1>5, Zenon DEF Spelled
<1>10. FirstScript \in FirstRemains /\ <<>> \in FirstRemains
  BY <1>3, <1>4, Zenon
<1>11. QED
  BY <1>2, <1>6, <1>8, <1>9, <1>10, Zenon

(* Until the set-up has ended there is no other call. *)
LEMMA NoCallYet ==
  ASSUME SetUpTypes, SetUp!Next, calls' = 0
  PROVE  calls = 0 /\ ~SetUp!Call
<1>1. calls \in Nat
  BY DEF SetUpTypes
<1>2. ~SetUp!Call
  <2>1. SetUp!Call => calls' = calls + 1
    BY Zenon DEF SetUp!Call
  <2>2. QED
    BY <1>1, <2>1
<1>3. CASE SetUp!Write
  BY <1>2, <1>3, WriteMoves
<1>4. CASE DeviceStep
  BY <1>2, <1>4, DeviceLeavesDriver
<1>5. CASE SetUp!Polls
  BY <1>2, <1>5, Zenon DEF SetUp!Polls, SetUp!Flush, SetUp!Configure, SetUp!TestController, SetUp!FindMouse,
     SetUp!TestPort, SetUp!EnableScanning, SetUp!Reconfigure, SetUp!ReadAnswer, SetUp!historyVars
<1>6. CASE SetUp!EndFlush \/ SetUp!BeginKeyboard \/ SetUp!CallStep \/ SetUp!TakeByte \/ SetUp!Reboot \/ SetUp!GetInput
  BY <1>2, <1>6, Zenon DEF SetUp!EndFlush, SetUp!BeginKeyboard, SetUp!CallStep, SetUp!TakeByte, SetUp!Reboot,
     SetUp!GetInput, SetUp!historyVars
<1>7. QED
  BY <1>2, <1>3, <1>4, <1>5, <1>6, StepsOfSetUp, Zenon DEF DriverStep

(* Until there is another call, what remains is of the first one. *)
LEMMA FirstCallStep ==
  ASSUME SetUpTypes, AtRest, CallInv, FirstCall, SetUp!Next
  PROVE  FirstCall'
<1>1. SUFFICES ASSUME calls' = 0 PROVE call'.script \in FirstRemains /\ call'.finally = <<>>
  BY Zenon DEF FirstCall
<1>2. calls = 0 /\ ~SetUp!Call /\ call.script \in FirstRemains /\ call.finally = <<>>
  BY <1>1, NoCallYet, Zenon DEF FirstCall
<1>3. <<>> \in FirstRemains /\ \A script \in FirstRemains : script # <<>> => Tail(script) \in FirstRemains
  BY FirstSpelled
<1>4. SetUp!NoCall.script = <<>> /\ SetUp!NoCall.finally = <<>>
  BY CallParts
<1>5. ASSUME NEW place, SetUp!Leave(place) PROVE call'.script \in FirstRemains /\ call'.finally = <<>>
  <2>1. call' = SetUp!NoCall
    BY <1>2, <1>5, Zenon DEF SetUp!Leave
  <2>2. QED
    BY <1>3, <1>4, <2>1
<1>6. CASE SetUp!Write \/ DeviceStep
  <2>1. call' = call
    BY <1>6, WriteMoves, DeviceLeavesDriver
  <2>2. QED
    BY <1>2, <2>1
<1>7. CASE SetUp!Polls
  <2>1. CASE SetUp!Reconfigure
    <3>1. call' = SetUp!Calling(FirstScript)
      BY <2>1, Zenon DEF SetUp!Reconfigure, FirstScript
    <3>2. call'.script = FirstScript /\ call'.finally = <<>>
      BY <3>1, FinallyIsKnown, FirstSpelled, Zenon
    <3>3. QED
      BY <3>2, FirstSpelled
  <2>2. CASE ~SetUp!Reconfigure
    <3>1. call' = call \/ call' = [call EXCEPT !.times = @ - 1]
      BY <1>7, <2>2, Zenon DEF SetUp!Polls, SetUp!Flush, SetUp!Configure, SetUp!TestController, SetUp!FindMouse,
         SetUp!TestPort, SetUp!EnableScanning
    <3>2. [call EXCEPT !.times = @ - 1].script = call.script /\ [call EXCEPT !.times = @ - 1].finally = call.finally
      BY CallParts DEF SetUpTypes, CallType
    <3>3. QED
      BY <1>2, <3>1, <3>2
  <2>3. QED
    BY <2>1, <2>2
<1>8. CASE SetUp!EndFlush \/ SetUp!Reboot \/ SetUp!GetInput
  <2>1. call' = call
    BY <1>8, Zenon DEF SetUp!EndFlush, SetUp!Reboot, SetUp!GetInput
  <2>2. QED
    BY <1>2, <2>1
<1>9. CASE SetUp!BeginKeyboard
  <2>1. call' = [SetUp!NoCall EXCEPT !.times = ResendTimesCount]
    BY <1>9, Zenon DEF SetUp!BeginKeyboard
  <2>2. call'.script = <<>> /\ call'.finally = <<>>
    BY <2>1, CallParts
  <2>3. QED
    BY <1>3, <2>2
<1>10. CASE SetUp!CallStep
  <2>1. SetUp!Leave("idle") \/ call' = [call EXCEPT !.times = ResendTimesCount]
    BY <1>10, Zenon DEF SetUp!CallStep, SetUp!Succeeds, SetUp!Sends
  <2>2. [call EXCEPT !.times = ResendTimesCount].script = call.script
        /\ [call EXCEPT !.times = ResendTimesCount].finally = call.finally
    BY CallParts, Zenon
  <2>3. QED
    BY <1>2, <1>5, <2>1, <2>2, Zenon
<1>11. CASE SetUp!TakeByte
  <2>1. \/ \E place : SetUp!Leave(place)
        \/ call' = [call EXCEPT !.times = @ - 1]
        \/ /\ call' = [call EXCEPT !.script = Tail(@)]
           /\ at = "answer" \/ call.script # <<>>
    BY <1>11, Zenon DEF SetUp!TakeByte, SetUp!Advance, SetUp!Fails
  <2>2. CASE call' = [call EXCEPT !.times = @ - 1]
    <3>1. [call EXCEPT !.times = @ - 1].script = call.script /\ [call EXCEPT !.times = @ - 1].finally = call.finally
      BY CallParts DEF SetUpTypes, CallType
    <3>2. QED
      BY <1>2, <2>2, <3>1
  <2>3. CASE call' = [call EXCEPT !.script = Tail(@)] /\ (at = "answer" \/ call.script # <<>>)
    <3>1. call.script # <<>>
      BY <2>3, Zenon DEF AtRest
    <3>2. call'.script = Tail(call.script) /\ call'.finally = call.finally
      BY <2>3 DEF SetUpTypes, CallType
    <3>3. QED
      BY <1>2, <1>3, <3>1, <3>2
  <2>4. QED
    BY <1>5, <2>1, <2>2, <2>3, Zenon
<1>12. QED
  BY <1>2, <1>6, <1>7, <1>8, <1>9, <1>10, <1>11, StepsOfSetUp, Zenon DEF DriverStep

(* What the driver has to write after a step of it. *)
LEMMA DriverKinds ==
  ASSUME SetUpTypes, AtRest, CallInv, DriverStep
  PROVE  \A k \in 1 .. Len(todo') :
           Kind(at', call'.script, todo'[k]) /\ (at' \in InUse /\ todo'[k].port = "command" => Announces(todo'[k]))
<1>1. SetUp!Next
  BY Zenon DEF DriverStep, SetUp!Next, SetUp!Driver
<1>2. SetUpTypes' /\ AtRest' /\ CallInv'
  BY <1>1, SetUpTypesStep, AtRestStep, CallInvStep
<1>3. at' \in Places /\ call'.script \in Remains /\ (at' = "answer" => Sends(call'.script))
  BY <1>2, Zenon DEF SetUpTypes, AtRest, CallInv, Sends
<1>4. todo = <<>> /\ (todo' = todo \/ Sent(at', todo', call'.script, input))
  BY DriverGoesOn, Zenon DEF GoesOn
<1>5. CASE todo' = todo
  BY <1>4, <1>5
<1>6. CASE Sent(at', todo', call'.script, input)
  BY <1>3, <1>6, SentKinds, Zenon
<1>7. QED
  BY <1>4, <1>5, <1>6

(* What the driver writes first it does not wait for, or it is the last. *)
LEMMA WrittenFirst ==
  ASSUME SetUpTypes, AtRest, CallInv, Program(at, call.script, todo, input), SetUp!Write, at # "reboot"
  PROVE  Unanswered(todo[1]) \/ (at \in Waits /\ todo' = <<>> /\ todo[1] = Asks(at, call.script))
<1>1. /\ todo # <<>> /\ Len(todo') = Len(todo) - 1 /\ todo' \in Seq(WriteType)
      /\ (\A k \in 1 .. Len(todo') : todo'[k] = todo[k + 1])
  BY WriteMoves
<1>2. todo \in Seq(WriteType)
  BY DEF SetUpTypes
<1>3. /\ AllUnanswered(todo) => AllUnanswered(<<todo[1]>>)
      /\ \A w : EndsWith(todo, w) => IF todo' = <<>> THEN todo[1] = w ELSE AllUnanswered(<<todo[1]>>)
  BY <1>1, <1>2, WritingGoesOn, Zenon
<1>4. AllUnanswered(<<todo[1]>>) => Unanswered(todo[1])
  BY DEF AllUnanswered
<1>5. CASE at \in Waits
  <2>1. EndsWith(todo, Asks(at, call.script))
    BY <1>1, <1>5, Zenon DEF Program, Pends
  <2>2. QED
    BY <1>3, <1>4, <1>5, <2>1, Zenon
<1>6. CASE at \notin Waits
  <2>1. AllUnanswered(todo)
    BY <1>6, Zenon DEF Program
  <2>2. QED
    BY <1>3, <1>4, <2>1, Zenon
<1>7. QED
  BY <1>5, <1>6

(* The interrupt handler is set before anything relies on it. *)
LEMMA HandlerSetStep ==
  ASSUME SetUpTypes, AtRest, CallInv, HandlerSet, SetUp!Next
  PROVE  HandlerSet'
<1> DEFINE Needs(p) == p \in InUse \cup {"reconfigure", "reboot flush", "reboot"}
<1>1. SUFFICES ASSUME Needs(at') PROVE handler'
  BY Zenon DEF HandlerSet
<1>2. Needs(at) => handler
  BY Zenon DEF HandlerSet
<1>3. CASE SetUp!Write
  BY <1>1, <1>2, <1>3, WriteMoves
<1>4. CASE DeviceStep
  BY <1>1, <1>2, <1>4, DeviceLeavesDriver
<1>5. CASE DriverStep
  <2>1. Ways
    BY <1>5, DriverWays
  <2>2. ASSUME Needs(at), handler' = handler PROVE handler'
    BY <1>2, <2>2
  <2>3. CASE Onward
    <3>1. Leads(at, at') /\ handler' = handler
      BY <2>3, Zenon DEF Onward
    <3>2. Needs(at)
      BY <1>1, <3>1 DEF Leads, InUse
    <3>3. QED
      BY <2>2, <3>1, <3>2
  <2>4. CASE Configuring \/ Failing \/ Passing
    <3>1. at' \in {"test", "no controller", "mouse", "keyboard port"}
      BY <2>4, Zenon DEF Configuring, Failing, Passing
    <3>2. QED
      BY <1>1, <3>1 DEF InUse
  <2>5. CASE Enabled
    BY <2>5, Zenon DEF Enabled
  <2>6. CASE Reconfiguring \/ Using
    <3>1. (at = "reconfigure" \/ at \in InUse) /\ handler' = handler
      BY <2>6, Zenon DEF Reconfiguring, Using
    <3>2. Needs(at)
      BY <3>1
    <3>3. QED
      BY <2>2, <3>1, <3>2
  <2>7. QED
    BY <2>1, <2>3, <2>4, <2>5, <2>6, Zenon DEF Ways
<1>6. QED
  BY <1>3, <1>4, <1>5, StepsOfSetUp

(* Set up, the controller is written nothing but a configuration. *)
LEMMA UseWritesStep ==
  ASSUME SetUpTypes, AtRest, CallInv, UseWrites, SetUp!Next
  PROVE  UseWrites'
<1>1. SUFFICES ASSUME at' \in InUse, NEW k \in 1 .. Len(todo'), todo'[k].port = "command" PROVE Announces(todo'[k])
  BY Zenon DEF UseWrites
<1>2. CASE SetUp!Write
  <2>1. at' = at /\ Len(todo') = Len(todo) - 1 /\ Len(todo) \in Nat /\ \A j \in 1 .. Len(todo') : todo'[j] = todo[j + 1]
    BY <1>2, WriteMoves
  <2>2. k + 1 \in 1 .. Len(todo) /\ todo'[k] = todo[k + 1]
    BY <2>1
  <2>3. QED
    BY <1>1, <2>1, <2>2, Zenon DEF UseWrites
<1>3. CASE DeviceStep
  <2>1. at' = at /\ todo' = todo
    BY <1>3, DeviceLeavesDriver
  <2>2. QED
    BY <1>1, <2>1, Zenon DEF UseWrites
<1>4. CASE DriverStep
  BY <1>1, <1>4, DriverKinds, Zenon
<1>5. QED
  BY <1>2, <1>3, <1>4, StepsOfSetUp

(* While the controller is tested nothing else answers for it, and it is   *)
(* not tested again.                                                       *)
LEMMA TestTakenStep == Known /\ SendsKnown /\ TestTaken /\ SetUp!Next => TestTaken'
<1> SUFFICES ASSUME Known, SendsKnown, TestTaken, SetUp!Next PROVE TestTaken'
  OBVIOUS
<1> DEFINE Test(w) == IsCommand(w, "TEST_CONTROLLER")
           Quiet(o) == None("CONTROLLER_TEST_PASSED", o)
<1>1. /\ SetUpTypes /\ AtRest /\ CallInv /\ Orderly(todo, input, expects) /\ Program(at, call.script, todo, input)
  BY DEF Known
<1>2. /\ at = "test" => "TRANSLATE" \notin configuration
      /\ at = "test" /\ todo # <<>> => input = <<>> \/ ~Test(Head(input))
      /\ \A w \in Pending : Test(w) => at \in {"test", "no controller"} /\ Quiet(output)
      /\ at \in {"flush", "configure"} => Quiet(output)
  BY Zenon DEF TestTaken
<1>3. SUFFICES /\ at' = "test" => "TRANSLATE" \notin configuration'
               /\ at' = "test" /\ todo' # <<>> => input' = <<>> \/ ~Test(Head(input'))
               /\ \A w \in Pending' : Test(w) => at' \in {"test", "no controller"} /\ Quiet(output')
               /\ at' \in {"flush", "configure"} => Quiet(output')
  BY Zenon DEF TestTaken
<1>4. \A w : Unanswered(w) => ~Test(w)
  BY DEF Unanswered, Changes, IsCommand
<1>5. Quiet(<<>>) /\ (\A b : b.name # "CONTROLLER_TEST_PASSED" => Quiet(<<b>>))
  BY DEF None
<1>6. \A n : n # "TEST_CONTROLLER" => ~Test(SetUp!Command(n))
  BY DEF IsCommand, SetUp!Command, SetUp!Byte
<1>7. \A v : Head(<<v>>) = v
  OBVIOUS
<1> HIDE DEF Test, Quiet
<1>8. CASE SetUp!Write
  <2>1. /\ at' = at /\ output' = output /\ input' = <<todo[1]>> /\ Pending' \subseteq Pending
    BY <1>1, <1>8, WriteMoves, PendingMoves
  <2>2. configuration' = configuration
    BY <1>8, Zenon DEF SetUp!Write, SetUp!localVars
  <2>3. at = "test" /\ todo' # <<>> => ~Test(todo[1])
    <3>1. at = "test" => at # "reboot"
      OBVIOUS
    <3>2. QED
      BY <1>1, <1>4, <1>8, <3>1, WrittenFirst, Zenon
  <2>4. QED
    BY <1>2, <1>7, <2>1, <2>2, <2>3, Zenon
<1>9. CASE DeviceStep
  <2>1. at' = at /\ todo' = todo /\ configuration' = configuration
    BY <1>9, DeviceLeavesDriver
  <2>2. input' = input \/ input' = <<>>
    BY <1>1, <1>9, DeviceMoves, Zenon
  <2>3. ASSUME input # <<>>, Test(Head(input)), input' = <<>>, NEW w \in Pending', Test(w) PROVE FALSE
    <3>1. \E k \in 1 .. Len(todo') : w = todo'[k]
      <4>1. Len(<<>>) = 0
        OBVIOUS
      <4>2. QED
        BY <2>3, <4>1 DEF Pending
    <3>2. Head(input) \in Pending
      BY <1>1, <2>3, PendingMoves
    <3>3. at \in {"test", "no controller"}
      BY <1>2, <2>3, <3>2, Zenon
    <3>4. CASE at = "test"
      <4>1. todo = <<>>
        BY <1>2, <2>3, <3>4, Zenon
      <4>2. Len(todo') = 0
        BY <2>1, <4>1
      <4>3. QED
        BY <3>1, <4>2
    <3>5. CASE at = "no controller"
      <4>1. at \notin Waits \cup {"reboot"}
        BY <3>5 DEF Waits, Questions
      <4>2. AllUnanswered(todo)
        BY <1>1, <4>1, Zenon DEF Program
      <4>3. Unanswered(w)
        BY <2>1, <3>1, <4>2 DEF AllUnanswered
      <4>4. QED
        BY <1>4, <2>3, <4>3, Zenon
    <3>6. QED
      BY <3>3, <3>4, <3>5
  <2>4. /\ Pending' \subseteq Pending
        /\ \/ Quiet(output) => Quiet(output')
           \/ input # <<>> /\ Test(Head(input)) /\ input' = <<>>
    <3>1. CASE SetUp!TakeCommand
      <4>1. /\ Pending' \subseteq Pending /\ input # <<>> /\ input' = <<>>
            /\ output' = output \/ \E b : output' = <<b>> /\ (b.name = "CONTROLLER_TEST_PASSED" => Test(Head(input)))
        BY <1>1, <3>1, CommandMoves, Zenon DEF Test
      <4>2. QED
        BY <1>5, <4>1, Zenon
    <3>2. CASE SetUp!TakeConfiguration
      <4>1. Pending' \subseteq Pending /\ output' = output
        BY <1>1, <3>2, ConfigurationMoves
      <4>2. QED
        BY <4>1
    <3>3. CASE SetUp!TakeData
      <4>1. Pending' \subseteq Pending /\ output' = output
        BY <1>1, <3>3, DataMoves, Zenon
      <4>2. QED
        BY <4>1
    <3>4. CASE SetUp!PressKey \/ SetUp!Deliver \/ SetUp!IRQHandler
      <4>1. Pending' = Pending /\ (output' = output \/ output' = <<>> \/ \E b : output' = <<b>> /\ b.name \in Replied)
        BY <1>1, <3>4, QuietMoves, Zenon
      <4>2. "CONTROLLER_TEST_PASSED" \notin Replied
        BY DEF Replied
      <4>3. Quiet(output) => Quiet(output')
        BY <1>5, <4>1, <4>2, Zenon
      <4>4. QED
        BY <4>1, <4>3
    <3>5. QED
      BY <1>9, <3>1, <3>2, <3>3, <3>4, Zenon DEF DeviceStep
  <2>5. input # <<>> => Head(input) \in Pending
    BY <1>1, PendingMoves
  <2>6. at \in {"flush", "configure"} => at \notin {"test", "no controller"}
    OBVIOUS
  <2>7. at \in {"flush", "configure"} => Quiet(output')
    BY <1>2, <2>4, <2>5, <2>6, Zenon
  <2>8. \A w \in Pending' : Test(w) => at \in {"test", "no controller"} /\ Quiet(output')
    BY <1>2, <2>3, <2>4, Zenon
  <2>9. at = "test" /\ todo # <<>> => input' = <<>> \/ ~Test(Head(input'))
    BY <1>2, <2>2, Zenon
  <2>10. QED
    BY <1>2, <2>1, <2>7, <2>8, <2>9, Zenon
<1>10. CASE DriverStep
  <2>1. Ways /\ todo = <<>> /\ input' = input
    BY <1>1, <1>10, DriverWays, Zenon DEF GoesOn
  <2>2. ASSUME NEW w \in Pending', Test(w), w \notin Pending PROVE at' = "test"
    <3>1. PICK k \in 1 .. Len(todo') : w = todo'[k]
      BY <1>1, <2>1, <2>2, PendingMoves, Zenon
    <3>2. Kind(at', call'.script, w)
      BY <1>1, <1>10, <3>1, DriverKinds, Zenon
    <3>3. QED
      BY <2>2, <3>2 DEF Kind, Plainly, Changes, Test, IsCommand, IsConfiguration
  <2>3. CASE Onward
    <3>1. Leads(at, at') /\ (at' \in {"flush", "configure"} => output' = <<>>)
      BY <2>3, Zenon DEF Onward
    <3>2. at' # "test" /\ at \notin {"test", "no controller"}
      BY <3>1 DEF Leads
    <3>3. QED
      BY <1>2, <1>5, <2>2, <3>1, <3>2, Zenon
  <2>4. CASE Configuring
    <3>1. at = "configure" /\ at' = "test" /\ output' = <<>> /\ "TRANSLATE" \notin configuration'
      BY <2>4, Zenon DEF Configuring
    <3>2. input = <<>> \/ input = <<SetUp!Command("READ_CONFIGURATION")>>
      <4>1. at \in Waits /\ Asks(at, call.script) = SetUp!Command("READ_CONFIGURATION")
        BY <3>1 DEF Waits, Questions, Asks, Question
      <4>2. QED
        BY <1>1, <2>1, <4>1, Zenon DEF Program, Pends
    <3>3. input' = <<>> \/ ~Test(Head(input'))
      <4>1. ~Test(SetUp!Command("READ_CONFIGURATION"))
        BY <1>6
      <4>2. QED
        BY <1>7, <2>1, <3>2, <4>1, Zenon
    <3>4. at' \notin {"flush", "configure"} /\ at \notin {"test", "no controller"}
      BY <3>1
    <3>5. QED
      BY <1>2, <1>5, <2>2, <3>1, <3>3, <3>4, Zenon
  <2>5. CASE Failing
    <3>1. at' = "no controller" /\ output' = <<>>
      BY <2>5, Zenon DEF Failing
    <3>2. at' # "test" /\ at' \notin {"flush", "configure"}
      BY <3>1
    <3>3. QED
      BY <1>5, <3>1, <3>2, Zenon
  <2>6. CASE Passing
    <3>1. at' \in {"mouse", "keyboard port"} /\ output # <<>> /\ Head(output).name = "CONTROLLER_TEST_PASSED"
      BY <2>6, Zenon DEF Passing
    <3>2. ~Quiet(output)
      <4>1. output = <<Head(output)>>
        BY <1>1, <3>1, ByteMoves
      <4>2. \A b : b.name = "CONTROLLER_TEST_PASSED" => ~Quiet(<<b>>)
        <5>1. \A b : Len(<<b>>) = 1 /\ <<b>>[1] = b
          OBVIOUS
        <5>2. 1 \in 1 .. 1
          OBVIOUS
        <5>3. QED
          BY <5>1, <5>2 DEF Quiet, None
      <4>3. QED
        BY <3>1, <4>1, <4>2, Zenon
    <3>3. at' # "test" /\ at' \notin {"flush", "configure"}
      BY <3>1
    <3>4. QED
      BY <1>2, <2>2, <3>2, <3>3, Zenon
  <2>7. CASE Enabled \/ Reconfiguring \/ Using
    <3>1. (at \in {"enable", "reconfigure"} \/ at \in InUse) /\ at' \in InUse \cup {"reconfigure", "no keyboard"}
      <4>1. "call" \in InUse
        BY DEF InUse
      <4>2. QED
        BY <2>7, <4>1, Zenon DEF Enabled, Reconfiguring, Using
    <3>2. at \notin {"test", "no controller"} /\ at' \notin {"test", "flush", "configure"}
      BY <3>1 DEF InUse
    <3>3. QED
      BY <1>2, <2>2, <3>2, Zenon
  <2>8. QED
    BY <2>1, <2>3, <2>4, <2>5, <2>6, <2>7, Zenon DEF Ways
<1>11. QED
  BY <1>8, <1>9, <1>10, StepsOfSetUp

(* Where RESET is not on its way, a device does not answer it. *)
LEMMA NoResetDevice ==
  ASSUME SetUpTypes, Orderly(todo, input, expects), SendsKnown, NoReset, DeviceStep
  PROVE  NoReset'
<1>1. /\ \A w \in Pending : w.port = "data" => w.byte.name # "RESET"
      /\ None("RESET_DONE", queue) /\ None("RESET_DONE", output)
      /\ \A k \in 1 .. Len(keyboard.sends) : keyboard.sends[k] # "RESET_DONE"
  BY Zenon DEF NoReset
<1>2. SUFFICES /\ Pending' \subseteq Pending
               /\ None("RESET_DONE", queue') /\ None("RESET_DONE", output')
               /\ \A k \in 1 .. Len(keyboard'.sends) : keyboard'.sends[k] # "RESET_DONE"
  BY <1>1, Zenon DEF NoReset
<1>3. None("RESET_DONE", <<>>) /\ \A b : b.name # "RESET_DONE" => None("RESET_DONE", <<b>>)
  BY DEF None
<1>4. CASE SetUp!TakeCommand
  <2>1. /\ Pending' \subseteq Pending /\ queue' = queue /\ keyboard' = keyboard
        /\ output' = output \/ \E b : output' = <<b>> /\ b.name # "RESET_DONE"
    BY <1>4, CommandMoves, Zenon
  <2>2. None("RESET_DONE", output')
    BY <1>1, <1>3, <2>1, Zenon
  <2>3. QED
    BY <1>1, <2>1, <2>2
<1>5. CASE SetUp!TakeConfiguration
  <2>1. Pending' \subseteq Pending /\ queue' = queue /\ keyboard' = keyboard /\ output' = output
    BY <1>5, ConfigurationMoves
  <2>2. QED
    BY <1>1, <2>1
<1>6. CASE SetUp!TakeData
  <2>1. /\ Pending' \subseteq Pending /\ queue' = queue /\ output' = output
        /\ input # <<>> /\ Head(input).port = "data" /\ Head(input) \in Pending
        /\ \A k \in 1 .. Len(keyboard'.sends) :
              \/ k \in 1 .. Len(keyboard.sends) /\ keyboard'.sends[k] = keyboard.sends[k]
              \/ (keyboard'.sends[k] = "RESET_DONE" => Head(input).byte.name = "RESET")
    BY <1>6, DataMoves, Zenon
  <2>2. Head(input).byte.name # "RESET"
    BY <1>1, <2>1, Zenon
  <2>3. QED
    BY <1>1, <2>1, <2>2
<1>7. CASE SetUp!PressKey \/ SetUp!Deliver \/ SetUp!IRQHandler
  <2>1. /\ Pending' = Pending
        /\ \A k \in 1 .. Len(keyboard'.sends) :
              keyboard'.sends[k] = "key" \/ \E j \in 1 .. Len(keyboard.sends) : keyboard'.sends[k] = keyboard.sends[j]
    BY <1>7, QuietMoves, Zenon
  <2>2. \/ output' = output /\ queue' = queue
        \/ /\ queue' = queue
           /\ \E b : output' = <<b>> /\ \E j \in 1 .. Len(keyboard.sends) : b.name = keyboard.sends[j]
        \/ output' = <<>> /\ queue' = queue \o output
    BY <1>7, QuietMoves, Zenon
  <2>3. \A k \in 1 .. Len(keyboard'.sends) : keyboard'.sends[k] # "RESET_DONE"
    BY <1>1, <2>1
  <2>4. queue \in Seq(ByteType) /\ output \in Seq(ByteType) /\ Len(output) <= 1
    BY DEF SetUpTypes
  <2>5. None("RESET_DONE", queue \o output)
    BY <1>1, <2>4, QueueJoins, Zenon
  <2>6. None("RESET_DONE", queue') /\ None("RESET_DONE", output')
    BY <1>1, <1>3, <2>2, <2>5, Zenon
  <2>7. QED
    BY <2>1, <2>3, <2>6
<1>8. QED
  BY <1>4, <1>5, <1>6, <1>7, Zenon DEF DeviceStep

(* Nor does a write bring RESET on its way. *)
LEMMA NoResetWrite ==
  ASSUME SetUpTypes, NoReset, SetUp!Write
  PROVE  NoReset'
<1>1. Pending' \subseteq Pending
  BY PendingMoves
<1>2. UNCHANGED <<queue, output, keyboard>>
  BY WriteMoves
<1>3. QED
  BY <1>1, <1>2, Zenon DEF NoReset

(* The driver sends RESET only with a call. *)
LEMMA NoResetDriver ==
  ASSUME SetUpTypes, AtRest, CallInv, NoReset, DriverStep, at' # "answer",
         queue' = queue, output' = <<>> \/ output' = output
  PROVE  NoReset'
<1>1. /\ \A w \in Pending : w.port = "data" => w.byte.name # "RESET"
      /\ None("RESET_DONE", queue) /\ None("RESET_DONE", output)
      /\ \A k \in 1 .. Len(keyboard.sends) : keyboard.sends[k] # "RESET_DONE"
  BY Zenon DEF NoReset
<1>2. keyboard' = keyboard /\ todo = <<>> /\ input' = input
  BY DriverGoesOn, Zenon DEF GoesOn
<1>3. None("RESET_DONE", <<>>)
  BY DEF None
<1>4. None("RESET_DONE", output')
  BY <1>1, <1>3, Zenon
<1>5. ASSUME NEW w \in Pending', w.port = "data" PROVE w.byte.name # "RESET"
  <2>1. CASE w \in Pending
    BY <1>1, <1>5, <2>1
  <2>2. CASE w \notin Pending
    <3>1. PICK k \in 1 .. Len(todo') : w = todo'[k]
      BY <1>2, <1>5, <2>2, PendingMoves, Zenon
    <3>2. Kind(at', call'.script, w)
      BY <3>1, DriverKinds, Zenon
    <3>3. QED
      BY <1>5, <3>2 DEF Kind, IsConfiguration
  <2>3. QED
    BY <2>1, <2>2
<1>6. QED
  BY <1>1, <1>2, <1>4, <1>5, Zenon DEF NoReset

(* Until the set-up has ended the keyboard is only told what leaves it     *)
(* scanning in set 2.                                                      *)
LEMMA FirstCommandsStep ==
  Known /\ SendsKnown /\ (calls = 0 => FirstCommands) /\ SetUp!Next => (calls' = 0 => FirstCommands')
<1> SUFFICES ASSUME Known, SendsKnown, calls = 0 => FirstCommands, SetUp!Next, calls' = 0 PROVE FirstCommands'
  OBVIOUS
<1>1. /\ SetUpTypes /\ AtRest /\ CallInv /\ Orderly(todo, input, expects)
  BY DEF Known
<1>2. FirstCommands /\ FirstCall
  BY <1>1, NoCallYet, Zenon DEF FirstCommands, FirstCall
<1>3. call'.finally = <<>> /\ call'.script \in FirstRemains
  BY <1>1, <1>2, FirstCallStep, Zenon DEF FirstCall
<1>4. /\ keyboard.scanning /\ keyboard.set = "SET_2"
      /\ \A w \in Pending : w.port = "data" => w.byte.name \in FirstNames
      /\ at \in Before => NoReset
  BY <1>2, Zenon DEF FirstCommands
<1>5. SUFFICES /\ keyboard'.scanning /\ keyboard'.set = "SET_2"
               /\ \A w \in Pending' : w.port = "data" => w.byte.name \in FirstNames
               /\ at' \in Before => NoReset'
  BY <1>3, Zenon DEF FirstCommands
<1>6. CASE SetUp!Write
  <2>1. Pending' \subseteq Pending /\ keyboard' = keyboard /\ at' = at
    BY <1>1, <1>6, PendingMoves, WriteMoves
  <2>2. NoReset => NoReset'
    BY <1>1, <1>6, NoResetWrite
  <2>3. QED
    BY <1>4, <2>1, <2>2
<1>7. CASE DeviceStep
  <2>1. at' = at
    BY <1>7, DeviceLeavesDriver
  <2>2. NoReset => NoReset'
    BY <1>1, <1>7, NoResetDevice
  <2>3. Pending' \subseteq Pending /\ keyboard'.scanning /\ keyboard'.set = "SET_2"
    <3>1. CASE SetUp!TakeCommand
      BY <1>1, <1>4, <3>1, CommandMoves
    <3>2. CASE SetUp!TakeConfiguration
      BY <1>1, <1>4, <3>2, ConfigurationMoves
    <3>3. CASE SetUp!TakeData
      <4>1. /\ Pending' \subseteq Pending /\ Head(input) \in Pending
            /\ Head(input).port = "data" /\ ~IsConfiguration(Head(input))
            /\ Head(input).byte.name \in {"ENABLE_SCANNING", "RESET", "GET_SET_SCAN_CODE_SET", "SET_2"}
                 => keyboard'.scanning /\ keyboard'.set = "SET_2"
        BY <1>1, <1>4, <3>3, DataMoves, Zenon
      <4>2. Head(input).byte.name \in FirstNames
        BY <1>4, <4>1, Zenon
      <4>3. Head(input).byte.name \in {"ENABLE_SCANNING", "RESET", "GET_SET_SCAN_CODE_SET", "SET_2"}
        BY <4>1, <4>2 DEF FirstNames, IsConfiguration
      <4>4. QED
        BY <4>1, <4>3
    <3>4. CASE SetUp!PressKey \/ SetUp!Deliver \/ SetUp!IRQHandler
      <4>1. Pending' = Pending /\ keyboard'.scanning = keyboard.scanning /\ keyboard'.set = keyboard.set
        BY <1>1, <3>4, QuietMoves, Zenon
      <4>2. QED
        BY <1>4, <4>1
    <3>5. QED
      BY <1>7, <3>1, <3>2, <3>3, <3>4, Zenon DEF DeviceStep
  <2>4. QED
    BY <1>4, <2>1, <2>2, <2>3
<1>8. CASE DriverStep
  <2>1. Ways /\ todo = <<>> /\ input' = input /\ keyboard' = keyboard
    BY <1>1, <1>8, DriverWays, Zenon DEF GoesOn
  <2>2. ASSUME NEW w \in Pending', w.port = "data" PROVE w.byte.name \in FirstNames
    <3>1. CASE w \in Pending
      BY <1>4, <2>2, <3>1
    <3>2. CASE w \notin Pending
      <4>1. PICK k \in 1 .. Len(todo') : w = todo'[k]
        BY <1>1, <2>1, <2>2, <3>2, PendingMoves, Zenon
      <4>2. Kind(at', call'.script, w)
        BY <1>1, <1>8, <4>1, DriverKinds, Zenon
      <4>3. CASE at' = "answer" /\ w.byte.name = Head(call'.script).name
        <5>1. AtRest' /\ CallInv'
          BY <1>1, AtRestStep, CallInvStep
        <5>2. call'.script # <<>> /\ Head(call'.script).does = "send" /\ call'.script \in Remains
          BY <4>3, <5>1, Zenon DEF AtRest, CallInv
        <5>3. Head(call'.script).name \in KeyboardCommands
          BY <5>2, CallsAreSound, Zenon DEF SoundCall, Sends
        <5>4. Head(call'.script).name \in {"RESET", "RESET_DONE", "GET_SET_SCAN_CODE_SET", "SET_2"}
          BY <1>3, <5>2, FirstIsNoEcho, Zenon
        <5>5. QED
          BY <4>3, <5>3, <5>4 DEF KeyboardCommands, FirstNames
      <4>4. CASE w.byte.name \in {"configuration", "ENABLE_SCANNING"}
        BY <4>4 DEF FirstNames
      <4>5. QED
        BY <2>2, <4>2, <4>3, <4>4 DEF Kind, IsConfiguration
    <3>3. QED
      BY <3>1, <3>2
  <2>3. ASSUME at' \in Before PROVE NoReset'
    <3>1. at \in Before /\ queue' = queue /\ (output' = <<>> \/ output' = output)
      <4>1. CASE Onward
        <5>1. Leads(at, at') /\ queue' = queue /\ (output' = <<>> \/ output' = output)
          BY <4>1, Zenon DEF Onward
        <5>2. at \in Before
          BY <2>3, <5>1 DEF Leads, Before, Tested
        <5>3. QED
          BY <5>1, <5>2
      <4>2. CASE Configuring \/ Passing \/ Enabled
        <5>1. at \in {"configure", "test", "enable"} /\ output' = <<>>
          BY <4>2, Zenon DEF Configuring, Passing, Enabled
        <5>2. queue' = queue
          BY <1>8, <5>1, Zenon DEF DriverStep, SetUp!Polls, SetUp!Flush, SetUp!Configure, SetUp!TestController, SetUp!FindMouse,
             SetUp!TestPort, SetUp!EnableScanning, SetUp!Reconfigure, SetUp!ReadAnswer, SetUp!EndFlush, SetUp!BeginKeyboard,
             SetUp!CallStep, SetUp!TakeByte, SetUp!Call, SetUp!Reboot, SetUp!GetInput
        <5>3. QED
          BY <5>1, <5>2 DEF Before, Tested
      <4>3. CASE Failing \/ Reconfiguring \/ Using
        <5>1. at' \in InUse \cup {"no controller", "no keyboard"}
          <6>1. "call" \in InUse
            BY DEF InUse
          <6>2. QED
            BY <4>3, <6>1, Zenon DEF Failing, Reconfiguring, Using
        <5>2. QED
          BY <2>3, <5>1 DEF InUse, Before, Tested
      <4>4. QED
        BY <2>1, <4>1, <4>2, <4>3, Zenon DEF Ways
    <3>2. at' # "answer"
      BY <2>3 DEF Before, Tested
    <3>3. QED
      BY <1>1, <1>4, <1>8, <3>1, <3>2, NoResetDriver
  <2>4. QED
    BY <1>4, <2>1, <2>2, <2>3
<1>9. QED
  BY <1>6, <1>7, <1>8, StepsOfSetUp

(* The first call goes on: RESET is sent and acknowledged, or sent again,  *)
(* and its answer is taken.                                                *)
LEMMA FirstCallMoves ==
  ASSUME SetUpTypes, AtRest, CallInv, FirstCall, calls = 0, DriverStep, ~SetUp!Call, at' \in InUse,
         call.script \in {FirstScript, Tail(FirstScript)}, at \in InUse
  PROVE  \/ /\ at = "call" /\ call.script = FirstScript /\ at' = "answer" /\ call'.script = call.script
            /\ queue' = queue /\ todo' # <<>>
         \/ /\ at = "answer" /\ call.script = FirstScript /\ at' = "answer" /\ call'.script = call.script
            /\ queue # <<>> /\ Head(queue).name = "RESEND" /\ queue' = Tail(queue)
         \/ /\ at = "answer" /\ call.script = FirstScript /\ call'.script = Tail(FirstScript)
            /\ queue # <<>> /\ Head(queue).name = "ACK" /\ queue' = Tail(queue)
         \/ /\ at = "call" /\ call.script = Tail(FirstScript)
            /\ queue # <<>> /\ Head(queue).name = "RESET_DONE"
<1>1. /\ FirstScript # <<>> /\ Head(FirstScript).does = "send"
      /\ Tail(FirstScript) # <<>> /\ Head(Tail(FirstScript)).does = "take" /\ Head(Tail(FirstScript)).name = "RESET_DONE"
  BY FirstSpelled
<1>2. call.script # <<>> /\ call.finally = <<>> /\ at \in {"call", "answer"}
  BY <1>1 DEF AtRest, FirstCall, InCall, InUse
<1>3. at = "answer" => call.script = FirstScript
  BY <1>1 DEF AtRest
<1>4. call.script = FirstScript => Head(call.script).does # "take"
  BY <1>1
<1>5. call.script # FirstScript =>
        /\ call.script = Tail(FirstScript) /\ Head(call.script).does # "send" /\ Head(call.script).name = "RESET_DONE"
  BY <1>1
<1>6. ASSUME NEW place, SetUp!Leave(place) PROVE at' = place
  BY <1>2, <1>6, Zenon DEF SetUp!Leave, SetUp!GoTo
<1>7. ~SetUp!Fails
  <2>1. SetUp!Fails => at' = "no keyboard"
    <3>1. (IF calls = 0 THEN "no keyboard" ELSE "idle") = "no keyboard"
      OBVIOUS
    <3>2. QED
      BY <1>6, <3>1 DEF SetUp!Fails
  <2>2. QED
    BY <2>1 DEF InUse
<1>8. CASE SetUp!CallStep
  <2>1. at = "call" /\ Head(call.script).does = "send" /\ queue' = queue /\ at' = "answer" /\ todo' # <<>>
        /\ call' = [call EXCEPT !.times = ResendTimesCount]
    <3>1. \A w : <<w>> # <<>>
      OBVIOUS
    <3>2. QED
      BY <1>2, <1>8, <3>1, Zenon DEF SetUp!CallStep, SetUp!Succeeds, SetUp!Sends, SetUp!GoTo
  <2>2. call'.script = call.script
    BY <2>1, CallParts
  <2>3. QED
    BY <1>5, <2>1, <2>2
<1>9. CASE SetUp!TakeByte
  <2>1. queue # <<>> /\ queue' = Tail(queue)
    BY <1>9, Zenon DEF SetUp!TakeByte
  <2>2. CASE at = "answer"
    <3>1. \/ Head(queue).name = "ACK" /\ call' = [call EXCEPT !.script = Tail(@)]
          \/ Head(queue).name = "RESEND" /\ call' = [call EXCEPT !.times = @ - 1] /\ at' = "answer"
      <4>1. at # "call"
        BY <2>2
      <4>2. QED
        BY <1>7, <1>9, <4>1, Zenon DEF SetUp!TakeByte, SetUp!Advance, SetUp!GoTo
    <3>2. CASE Head(queue).name = "ACK" /\ call' = [call EXCEPT !.script = Tail(@)]
      <4>1. call'.script = Tail(FirstScript)
        BY <1>3, <2>2, <3>2, CallParts
      <4>2. QED
        BY <1>3, <2>1, <2>2, <3>2, <4>1
    <3>3. CASE Head(queue).name = "RESEND" /\ call' = [call EXCEPT !.times = @ - 1] /\ at' = "answer"
      <4>1. call'.script = call.script
        BY <3>3, CallParts
      <4>2. QED
        BY <1>3, <2>1, <2>2, <3>3, <4>1
    <3>4. QED
      BY <3>1, <3>2, <3>3
  <2>3. CASE at # "answer"
    <3>1. /\ at = "call" /\ Head(call.script).does = "take"
          /\ Head(call.script).name \in {Head(queue).name, "anything"}
      BY <1>7, <1>9, <2>3, Zenon DEF SetUp!TakeByte
    <3>2. call.script = Tail(FirstScript) /\ Head(queue).name = "RESET_DONE"
      BY <1>4, <1>5, <3>1
    <3>3. QED
      BY <2>1, <3>1, <3>2
  <2>4. QED
    BY <2>2, <2>3
<1>10. CASE SetUp!Polls \/ SetUp!EndFlush \/ SetUp!BeginKeyboard \/ SetUp!Reboot \/ SetUp!GetInput
  <2>1. SetUp!Polls => at \in {"flush", "keyboard flush", "reboot flush", "configure", "test", "mouse",
                               "keyboard port", "mouse port", "enable", "reconfigure"}
    BY DEF SetUp!Polls, SetUp!Flush, SetUp!Configure, SetUp!TestController, SetUp!FindMouse,
       SetUp!TestPort, SetUp!EnableScanning, SetUp!Reconfigure, SetUp!ReadAnswer
  <2>2. ~SetUp!Polls /\ (at # "flush" /\ at # "keyboard flush" /\ at # "reboot flush" /\ at # "controller ready" /\ at # "idle")
    BY <1>2, <2>1
  <2>3. QED
    BY <1>10, <2>2, Zenon DEF SetUp!EndFlush, SetUp!BeginKeyboard, SetUp!Reboot, SetUp!GetInput
<1>11. QED
  BY <1>8, <1>9, <1>10, Zenon DEF DriverStep

(* What the driver writes when it writes no configuration. *)
LEMMA FreeMoves ==
  ASSUME SetUpTypes, todo = <<>>, input' = input, Free(todo')
  PROVE  Configurations' = Configurations
<1>1. Pending \subseteq Pending' /\ \A w \in Pending' : w \in Pending \/ \E k \in 1 .. Len(todo') : w = todo'[k]
  BY PendingMoves
<1>2. QED
  BY <1>1, Zenon DEF Configurations, Free

(* And when it writes one, with none on its way. *)
LEMMA RewriteMoves ==
  ASSUME SetUpTypes, todo = <<>>, input' = input, NEW flags, Rewrites(todo', flags), Configurations = {}
  PROVE  Configurations' # {} /\ \A w \in Configurations' : w.byte.flags = flags
<1>1. \A w \in Pending' : w \in Pending \/ \E k \in 1 .. Len(todo') : w = todo'[k]
  BY PendingMoves
<1>2. \A k \in 1 .. Len(todo') : todo'[k] \in Pending'
  BY DEF Pending
<1>3. /\ \E k \in 1 .. Len(todo') : IsConfiguration(todo'[k])
      /\ \A k \in 1 .. Len(todo') : IsConfiguration(todo'[k]) => todo'[k].byte.flags = flags
  BY Zenon DEF Rewrites
<1>4. PICK k \in 1 .. Len(todo') : IsConfiguration(todo'[k])
  BY <1>3
<1>5. todo'[k] \in Configurations'
  BY <1>2, <1>4, Zenon DEF Configurations
<1>6. \A w \in Configurations' : w \in Pending' /\ IsConfiguration(w) /\ (w \in Pending => w \in Configurations)
  BY Zenon DEF Configurations
<1>7. ASSUME NEW w \in Configurations' PROVE w.byte.flags = flags
  <2>1. w \in Pending' /\ IsConfiguration(w) /\ w \notin Pending
    BY <1>6
  <2>2. PICK j \in 1 .. Len(todo') : w = todo'[j]
    BY <1>1, <2>1
  <2>3. QED
    BY <1>3, <2>1, <2>2
<1>8. QED
  BY <1>5, <1>7

(* Where the driver reads an answer no configuration is on its way. *)
LEMMA AskedIsFree ==
  ASSUME SetUpTypes, Program(at, call.script, todo, input), at \in Questions, todo = <<>>
  PROVE  /\ Configurations = {}
         /\ input # <<>> => IsCommand(Head(input), Question(at))
<1>1. input = <<>> \/ input = <<Asks(at, call.script)>>
  BY Zenon DEF Program, Pends, Waits
<1>2. Asks(at, call.script) = SetUp!Command(Question(at))
  BY Zenon DEF Asks
<1>3. \A n : SetUp!Command(n).port = "command" /\ SetUp!Command(n).byte.name = n
  BY DEF SetUp!Command, SetUp!Byte
<1>4. \A w : Head(<<w>>) = w /\ <<w>> # <<>>
  OBVIOUS
<1>5. input # <<>> => input = <<SetUp!Command(Question(at))>> /\ IsCommand(Head(input), Question(at))
  BY <1>1, <1>2, <1>3, <1>4, Zenon DEF IsCommand
<1>6. \A w \in Pending : w.port = "command"
  <2>1. \A w \in Pending : input = <<w>>
    BY PendingMoves, Zenon
  <2>2. ASSUME NEW w \in Pending PROVE w.port = "command"
    <3>1. input = <<w>> /\ Head(input) = w /\ input # <<>>
      BY <1>4, <2>1
    <3>2. QED
      BY <1>5, <3>1, Zenon DEF IsCommand
  <2>3. QED
    BY <2>2
<1>7. \A w : w.port = "command" => ~IsConfiguration(w)
  BY DEF IsConfiguration
<1>8. Configurations = {}
  BY <1>6, <1>7, Zenon DEF Configurations
<1>9. QED
  BY <1>5, <1>8

(* The keyboard's interrupt is on, or the configuration that turns it on   *)
(* is on its way.                                                          *)
LEMMA InterruptOnStep ==
  ASSUME Known, FirstCall, SendsKnown, UseWrites, calls = 0, calls' = 0, InterruptOn, SetUp!Next
  PROVE  InterruptOn'
<1> DEFINE On(c) == "KEYBOARD_IRQ" \in c
           First(p, td, script) == script = FirstScript /\ (p = "call" \/ td # <<>>)
<1>1. /\ SetUpTypes /\ AtRest /\ CallInv /\ Orderly(todo, input, expects) /\ Program(at, call.script, todo, input)
  BY DEF Known
<1>2. SUFFICES ASSUME at' \in InUse
               PROVE  /\ \A w \in Configurations' : On(w.byte.flags)
                      /\ On(config') \/ Configurations' # {}
                      /\ Configurations' # {} => First(at', todo', call'.script)
  BY Zenon DEF InterruptOn
<1>3. at \in InUse => /\ \A w \in Configurations : On(w.byte.flags)
                      /\ On(config) \/ Configurations # {}
                      /\ Configurations # {} => First(at, todo, call.script)
  BY Zenon DEF InterruptOn
<1>4. Pending' \subseteq Pending => Configurations' \subseteq Configurations
  BY Zenon DEF Configurations
<1>5. CASE SetUp!Write
  <2>1. /\ todo # <<>> /\ Len(todo) > 0 /\ Len(todo) \in Nat /\ Len(todo') = Len(todo) - 1 /\ todo' \in Seq(WriteType)
        /\ \A k \in 1 .. Len(todo') : todo'[k] = todo[k + 1]
        /\ UNCHANGED <<config, at, call>> /\ (todo[1].port = "data" => input = <<>>)
    BY <1>1, <1>5, WriteMoves
  <2>2. Configurations' \subseteq Configurations /\ (input = <<>> => Configurations' = Configurations)
    <3>1. Pending' \subseteq Pending /\ (input = <<>> => Pending' = Pending)
      BY <1>1, <1>5, PendingMoves
    <3>2. QED
      BY <1>4, <3>1, Zenon DEF Configurations
  <2>3. todo \in Seq(WriteType) /\ 1 \in 1 .. Len(todo) /\ todo[1] \in WriteType
    <3>1. todo \in Seq(WriteType)
      BY <1>1, Zenon DEF SetUpTypes
    <3>2. 1 \in 1 .. Len(todo)
      BY <2>1
    <3>3. QED
      BY <3>1, <3>2
  <2>4. input # <<>> => Configurations' # {}
    <3> SUFFICES ASSUME input # <<>> PROVE Configurations' # {}
      OBVIOUS
    <3>1. todo[1].port = "command"
      BY <2>1, <2>3 DEF WriteType
    <3>2. Announces(todo[1])
      BY <1>2, <2>1, <2>3, <3>1, Zenon DEF UseWrites
    <3>3. 1 < Len(todo) /\ IsConfiguration(todo[1 + 1])
      BY <1>1, <2>3, <3>2, Zenon DEF Orderly
    <3>4. 1 \in 1 .. Len(todo') /\ todo'[1] = todo[1 + 1]
      BY <2>1, <3>3
    <3>5. todo'[1] \in Pending'
      BY <1>1, <1>5, <3>4, PendingMoves, Zenon
    <3>6. todo'[1] \in Configurations'
      BY <3>3, <3>4, <3>5, Zenon DEF Configurations
    <3>7. QED
      BY <3>6
  <2>5. ASSUME Configurations' # {} PROVE First(at, todo', call.script)
    <3>1. Configurations # {} /\ call.script = FirstScript
      BY <1>2, <1>3, <2>1, <2>2, <2>5
    <3>2. ASSUME at # "call", todo' = <<>> PROVE FALSE
      <4>1. at = "answer"
        BY <1>1, <1>2, <2>1, <3>2 DEF InUse, AtRest
      <4>2. EndsWith(todo, Asks(at, call.script))
        BY <1>1, <2>1, <4>1, Zenon DEF Program, Pends, Waits
      <4>3. Len(todo) = 1
        <5>1. Len(todo') = 0
          BY <3>2
        <5>2. QED
          BY <2>1, <5>1
      <4>4. todo[1] = Asks(at, call.script)
        BY <4>2, <4>3 DEF EndsWith
      <4>5. Asks(at, call.script) = SetUp!Data(SetUp!Byte(Head(call.script).name)) /\ ~IsConfiguration(Asks(at, call.script))
        <5>1. at \in Waits /\ Sends(call.script) /\ call.script \in Remains
          BY <1>1, <4>1, Zenon DEF Waits, AtRest, CallInv, Sends
        <5>2. QED
          BY <4>1, <5>1, AsksFacts, Zenon
      <4>6. input = <<>>
        <5>1. SetUp!Data(SetUp!Byte(Head(call.script).name)).port = "data"
          BY DEF SetUp!Data
        <5>2. QED
          BY <2>1, <4>4, <4>5, <5>1
      <4>7. Pending \subseteq {todo[1]}
        BY <4>3, <4>6 DEF Pending
      <4>8. Configurations = {}
        BY <4>4, <4>5, <4>7 DEF Configurations
      <4>9. QED
        BY <3>1, <4>8
    <3>3. QED
      BY <3>1, <3>2
  <2>6. \A w \in Configurations' : On(w.byte.flags)
    BY <1>2, <1>3, <2>1, <2>2
  <2>7. On(config') \/ Configurations' # {}
    BY <1>2, <1>3, <2>1, <2>2, <2>4
  <2>8. QED
    BY <2>1, <2>5, <2>6, <2>7
<1>6. CASE DeviceStep
  <2>1. at' = at /\ todo' = todo /\ call' = call
    BY <1>6, DeviceLeavesDriver
  <2>2. Configurations' \subseteq Configurations /\ (Configurations' = Configurations \/ On(config'))
        /\ (On(config) => On(config'))
    <3>1. CASE SetUp!TakeCommand
      BY <1>1, <3>1, CommandMoves
    <3>2. CASE SetUp!TakeConfiguration
      <4>1. Configurations' \subseteq Configurations /\ Head(input) \in Configurations /\ config' = Head(input).byte.flags
        BY <1>1, <3>2, ConfigurationMoves
      <4>2. On(config')
        BY <1>2, <1>3, <2>1, <4>1
      <4>3. QED
        BY <4>1, <4>2
    <3>3. CASE SetUp!TakeData
      <4>1. Configurations' = Configurations /\ config' = config \ {"KEYBOARD_LOCKED"}
        BY <1>1, <3>3, DataMoves
      <4>2. QED
        BY <4>1
    <3>4. CASE SetUp!PressKey \/ SetUp!Deliver \/ SetUp!IRQHandler
      <4>1. Configurations' = Configurations /\ config' = config
        BY <1>1, <3>4, QuietMoves
      <4>2. QED
        BY <4>1
    <3>5. QED
      BY <1>6, <3>1, <3>2, <3>3, <3>4, Zenon DEF DeviceStep
  <2> HIDE DEF On, First
  <2>3. QED
    BY <1>2, <1>3, <2>1, <2>2
<1>7. CASE DriverStep
  <2>1. Ways /\ todo = <<>> /\ input' = input /\ config' = config
    BY <1>1, <1>7, DriverWays, Zenon DEF GoesOn
  <2>2. CASE Onward
    <3>1. Leads(at, at')
      BY <2>2, Zenon DEF Onward
    <3>2. QED
      BY <1>2, <3>1 DEF Leads, InUse
  <2>3. CASE Configuring \/ Failing \/ Passing \/ Enabled
    <3>1. at' \in {"test", "no controller", "mouse", "keyboard port", "reconfigure"}
      BY <2>3, Zenon DEF Configuring, Failing, Passing, Enabled
    <3>2. QED
      BY <1>2, <3>1 DEF InUse
  <2>4. CASE Reconfiguring
    <3>1. at = "reconfigure" /\ at' = "call" /\ Rewrites(todo', Head(output).flags \cup {"KEYBOARD_IRQ"})
          /\ call' = SetUp!Calling(FirstScript)
      BY <2>4, Zenon DEF Reconfiguring
    <3>2. Configurations = {}
      <4>1. at \in Questions
        BY <3>1 DEF Questions
      <4>2. QED
        BY <1>1, <2>1, <4>1, AskedIsFree
    <3>3. Configurations' # {} /\ \A w \in Configurations' : w.byte.flags = Head(output).flags \cup {"KEYBOARD_IRQ"}
      BY <1>1, <2>1, <3>1, <3>2, RewriteMoves
    <3>4. call'.script = FirstScript
      BY <3>1, FinallyIsKnown, Zenon
    <3>5. \A w \in Configurations' : On(w.byte.flags)
      BY <3>3
    <3>6. QED
      BY <3>1, <3>3, <3>4, <3>5
  <2>5. CASE Using
    <3>1. at \in InUse /\ Free(todo')
      BY <2>5, Zenon DEF Using
    <3>2. Configurations' = Configurations
      BY <1>1, <2>1, <3>1, FreeMoves
    <3>3. ASSUME Configurations # {} PROVE First(at', todo', call'.script)
      <4>1. call.script = FirstScript /\ at = "call"
        BY <1>3, <2>1, <3>1, <3>3
      <4>2. ~SetUp!Call
        BY <1>1, NoCallYet
      <4>3. FirstScript # Tail(FirstScript)
        <5>1. FirstScript # <<>> /\ Head(FirstScript).does = "send" /\ Head(Tail(FirstScript)).does = "take"
          BY FirstSpelled
        <5>2. Head(FirstScript) # Head(Tail(FirstScript))
          BY <5>1
        <5>3. QED
          BY <5>2, Zenon
      <4>4. call.script \in {FirstScript, Tail(FirstScript)}
        BY <4>1
      <4>5. at' = "answer" /\ call'.script = call.script /\ todo' # <<>>
        <5>1. at # "answer"
          BY <4>1
        <5>2. QED
          BY <1>1, <1>2, <1>7, <3>1, <4>1, <4>2, <4>3, <4>4, <5>1, FirstCallMoves, Zenon
      <4>6. QED
        BY <4>1, <4>5
    <3> HIDE DEF On, First
    <3>4. QED
      BY <1>3, <2>1, <3>1, <3>2, <3>3
  <2>6. QED
    BY <2>1, <2>2, <2>3, <2>4, <2>5, Zenon DEF Ways
<1>8. QED
  BY <1>5, <1>6, <1>7, StepsOfSetUp

(* A byte that has been lost stays lost; and where none has, a byte is     *)
(* written only into an empty register.                                    *)
LEMMA NothingLost ==
  ASSUME SetUpTypes, AtRest, SetUp!Next, lost' = {}
  PROVE  lost = {} /\ (SetUp!Write => input = <<>>)
<1>1. CASE SetUp!Write
  <2>1. lost' = lost \cup {write.byte.name : write \in SetUp!ToSet(input)}
    BY <1>1, Zenon DEF SetUp!Write
  <2>2. lost = {} /\ {write.byte.name : write \in SetUp!ToSet(input)} = {}
    BY <2>1
  <2>3. SetUp!ToSet(input) = {}
    BY <2>2
  <2>4. input # <<>> => input[1] \in SetUp!ToSet(input)
    <3>1. input \in Seq(WriteType)
      BY Zenon DEF SetUpTypes
    <3>2. input # <<>> => 1 \in DOMAIN input
      <4>1. input # <<>> => Len(input) # 0
        BY <3>1, EmptySeq
      <4>2. QED
        BY <3>1, <4>1
    <3>3. QED
      BY <3>2 DEF SetUp!ToSet
  <2>5. QED
    BY <2>2, <2>3, <2>4
<1>2. CASE DeviceStep
  <2>1. lost' = lost
    BY <1>2, DeviceLeavesDriver
  <2>2. ~SetUp!Write \/ input = <<>>
    BY <1>1
  <2>3. QED
    BY <2>1, <2>2
<1>3. CASE DriverStep
  <2>1. lost' = lost
    BY <1>3, DriverGoesOn, Zenon DEF GoesOn
  <2>2. ~SetUp!Write \/ input = <<>>
    BY <1>1
  <2>3. QED
    BY <2>1, <2>2
<1>4. QED
  BY <1>1, <1>2, <1>3, StepsOfSetUp

(* What blocks the answer to RESET goes on to, whatever arrives.           *)
LEMMA BlockedDevice ==
  ASSUME SetUpTypes, Orderly(todo, input, expects), SendsKnown, DeviceStep, Blocked(queue, output)
  PROVE  Blocked(queue', output')
<1>1. queue \in Seq(ByteType) /\ output \in Seq(ByteType) /\ Len(output) <= 1
  BY DEF SetUpTypes
<1>2. queue' = queue /\ output' = output => Blocked(queue', output')
  OBVIOUS
<1>3. queue' = queue /\ output = <<>> => Blocked(queue', output')
  BY Zenon DEF Blocked
<1>4. queue' = queue \o output => Blocked(queue', output')
  <2>1. Blocks(queue \o output)
    BY <1>1, QueueJoins, Zenon
  <2>2. QED
    BY <2>1, Zenon DEF Blocked
<1>5. CASE SetUp!TakeCommand
  <2>1. queue' = queue /\ (output' = output \/ output = <<>>)
    BY <1>5, CommandMoves, Zenon
  <2>2. QED
    BY <1>2, <1>3, <2>1
<1>6. CASE SetUp!TakeConfiguration
  <2>1. queue' = queue /\ output' = output
    BY <1>6, ConfigurationMoves
  <2>2. QED
    BY <1>2, <2>1
<1>7. CASE SetUp!TakeData
  <2>1. queue' = queue /\ output' = output
    BY <1>7, DataMoves
  <2>2. QED
    BY <1>2, <2>1
<1>8. CASE SetUp!PressKey \/ SetUp!Deliver \/ SetUp!IRQHandler
  <2>1. (queue' = queue /\ output' = output) \/ (queue' = queue /\ output = <<>>) \/ queue' = queue \o output
    BY <1>8, QuietMoves, Zenon
  <2>2. QED
    BY <1>2, <1>3, <1>4, <2>1
<1>9. QED
  BY <1>5, <1>6, <1>7, <1>8, Zenon DEF DeviceStep

(* While the driver writes, nothing of it changes.                         *)
LEMMA TranslationOffWrite ==
  ASSUME Known, TranslationOff, SetUp!Write, input = <<>>
  PROVE  TranslationOff'
<1>1. /\ SetUpTypes /\ AtRest /\ CallInv /\ Program(at, call.script, todo, input)
  BY DEF Known
<1>2. /\ todo # <<>> /\ Len(todo) > 0 /\ Len(todo) \in Nat /\ Len(todo') = Len(todo) - 1 /\ input' = <<todo[1]>>
      /\ UNCHANGED <<config, at, call, queue, output>>
  BY <1>1, WriteMoves
<1>3. Configurations' = Configurations
  <2>1. Pending' = Pending
    BY <1>1, PendingMoves
  <2>2. QED
    BY <2>1, Zenon DEF Configurations
<1>4. Untranslated => Untranslated'
  BY <1>2, <1>3, Zenon DEF Untranslated
<1>5. ~Reading
  BY DEF Reading
<1>6. Reading' <=> IsCommand(todo[1], "READ_CONFIGURATION")
  <2>1. input' # <<>> /\ Head(input') = todo[1]
    BY <1>2
  <2>2. QED
    BY <2>1, Zenon DEF Reading
<1>7. ASSUME at \in Tested, Reading' PROVE \A k \in 1 .. Len(todo') : ~IsConfiguration(todo'[k])
  <2>1. at # "reboot"
    BY <1>7 DEF Tested
  <2>2. ~Unanswered(todo[1])
    BY <1>6, <1>7 DEF IsCommand, Unanswered, Changes
  <2>3. todo' = <<>>
    BY <1>1, <2>1, <2>2, WrittenFirst, Zenon
  <2>4. QED
    BY <2>3
<1>8. ASSUME at = "reconfigure", todo' = <<>> PROVE Reading'
  <2>1. EndsWith(todo, SetUp!Command("READ_CONFIGURATION"))
    <3>1. EndsWith(todo, Asks(at, call.script))
      BY <1>1, <1>2, <1>8, Zenon DEF Program, Pends, Waits, Questions
    <3>2. Asks(at, call.script) = SetUp!Command("READ_CONFIGURATION")
      BY <1>8 DEF Asks, Questions, Question
    <3>3. QED
      BY <3>1, <3>2
  <2>2. Len(todo) = 1
    <3>1. Len(todo') = 0
      BY <1>8
    <3>2. QED
      BY <1>2, <3>1
  <2>3. todo[1] = SetUp!Command("READ_CONFIGURATION")
    BY <2>1, <2>2 DEF EndsWith
  <2>4. QED
    BY <1>6, <2>3 DEF IsCommand, SetUp!Command, SetUp!Byte
<1>9. Doomed => Doomed'
  BY <1>2, <1>5, Zenon DEF Doomed
<1>10. /\ at \in Tested =>
            /\ Untranslated
            /\ \A k \in 1 .. Len(output) : output[k].name = "configuration" => "TRANSLATE" \notin output[k].flags
       /\ at \in InUse => Untranslated \/ Doomed
  BY Zenon DEF TranslationOff
<1>11. QED
  BY <1>2, <1>4, <1>7, <1>8, <1>9, <1>10, Zenon DEF TranslationOff

(* While the devices take and deliver, the translation stays off, or the   *)
(* set-up is still going to fail.                                          *)
LEMMA TranslationOffDevice ==
  ASSUME Known, SendsKnown, TestTaken, FirstCommands, TranslationOff, DeviceStep
  PROVE  TranslationOff'
<1> DEFINE Plain(o) == \A k \in 1 .. Len(o) : o[k].name = "configuration" => "TRANSLATE" \notin o[k].flags
           Nothing(td) == \A k \in 1 .. Len(td) : ~IsConfiguration(td[k])
<1>1. /\ SetUpTypes /\ AtRest /\ CallInv /\ Orderly(todo, input, expects) /\ Program(at, call.script, todo, input)
  BY DEF Known
<1>2. /\ at \in Tested => Untranslated /\ (Reading => Nothing(todo)) /\ Plain(output)
      /\ at = "reconfigure" /\ todo = <<>> => Reading \/ Blocked(queue, output)
      /\ at \in InUse => Untranslated \/ Doomed
  BY Zenon DEF TranslationOff
<1>3. at' = at /\ todo' = todo /\ call' = call
  BY DeviceLeavesDriver
<1>4. at \in Before => NoReset
  BY Zenon DEF FirstCommands
<1>5. Blocked(queue, output) => Blocked(queue', output')
  BY <1>1, BlockedDevice
<1>6. at = "reconfigure" /\ todo = <<>> /\ input # <<>> => Reading
  <2> SUFFICES ASSUME at = "reconfigure", todo = <<>>, input # <<>> PROVE Reading
    OBVIOUS
  <2>1. at \in Questions /\ Question(at) = "READ_CONFIGURATION"
    BY DEF Questions, Question
  <2>2. IsCommand(Head(input), "READ_CONFIGURATION")
    BY <1>1, <2>1, AskedIsFree, Zenon
  <2>3. QED
    BY <2>2, Zenon DEF Reading
<1>7. SUFFICES /\ at \in Tested => Untranslated' /\ (Reading' => Nothing(todo)) /\ Plain(output')
               /\ at = "reconfigure" /\ todo = <<>> => Reading' \/ Blocked(queue', output')
               /\ at \in InUse => Untranslated' \/ Doomed'
  BY <1>3, Zenon DEF TranslationOff
<1>8. call.script \in {FirstScript, Tail(FirstScript)} /\ Blocked(queue, output) => Doomed'
  BY <1>3, <1>5, Zenon DEF Doomed
<1>9. Doomed => \/ /\ Reading /\ at = "call" /\ call.script = FirstScript
                   /\ todo # <<>> /\ Head(todo).port = "command" /\ NoReset
                \/ call.script \in {FirstScript, Tail(FirstScript)} /\ Blocked(queue, output)
  BY Zenon DEF Doomed
<1>10. Reading <=> input # <<>> /\ Head(input).port = "command" /\ Head(input).byte.name = "READ_CONFIGURATION"
  BY Zenon DEF Reading, IsCommand
<1>11. input' = <<>> => ~Reading'
  BY Zenon DEF Reading
<1>12. Untranslated <=> /\ \A w \in Configurations : "TRANSLATE" \notin w.byte.flags
                        /\ "TRANSLATE" \notin config \/ Configurations # {}
  BY Zenon DEF Untranslated
<1>13. /\ \A w \in Configurations' : "TRANSLATE" \notin w.byte.flags
       /\ "TRANSLATE" \notin config' \/ Configurations' # {}
       => Untranslated'
  BY Zenon DEF Untranslated
<1>14. CASE SetUp!TakeCommand
  <2>1. /\ input # <<>> /\ Head(input).port = "command" /\ input' = <<>> /\ queue' = queue
        /\ Configurations' = Configurations
        /\ \/ output' = output
           \/ /\ output = <<>>
              /\ \E b : /\ output' = <<b>>
                        /\ b.name = "configuration" => Reading /\ b.flags = config
        /\ Reading => output' = <<SetUp!ConfigByte(config)>>
        /\ ~IsCommand(Head(input), "TEST_CONTROLLER") => ("TRANSLATE" \in config' <=> "TRANSLATE" \in config)
    BY <1>1, <1>14, CommandMoves, Zenon
  <2>2. at \in Tested \cup InUse => ~IsCommand(Head(input), "TEST_CONTROLLER")
    <3>1. Head(input) \in Pending
      BY <1>1, <2>1, PendingMoves
    <3>2. at \in Tested \cup InUse => at \notin {"test", "no controller"}
      BY DEF Tested, InUse
    <3>3. QED
      BY <3>1, <3>2, Zenon DEF TestTaken
  <2>3. Untranslated /\ at \in Tested \cup InUse => Untranslated'
    BY <1>12, <1>13, <2>1, <2>2
  <2>4. ASSUME at \in Tested PROVE Plain(output')
    <3>1. CASE output' = output
      BY <1>2, <2>4, <3>1
    <3>2. ASSUME NEW b, output' = <<b>>, b.name = "configuration" => Reading /\ b.flags = config
          PROVE  Plain(output')
      <4>1. b.name = "configuration" => "TRANSLATE" \notin b.flags
        <5> SUFFICES ASSUME b.name = "configuration" PROVE "TRANSLATE" \notin config
          BY <3>2
        <5>1. Nothing(todo) /\ Reading
          BY <1>2, <2>4, <3>2
        <5>2. Configurations = {}
          <6>1. \A w \in Pending : (\E k \in 1 .. Len(todo) : w = todo[k]) \/ w = Head(input)
            <7>1. input \in Seq(WriteType) /\ Len(input) <= 1 /\ Head(input) = input[1]
              <8>1. input \in Seq(WriteType) /\ Len(input) <= 1
                BY <1>1, Zenon DEF SetUpTypes
              <8>2. Head(input) = input[1]
                OBVIOUS
              <8>3. QED
                BY <8>1, <8>2
            <7>2. \A k \in 1 .. Len(input) : k = 1
              BY <7>1
            <7>3. QED
              BY <7>1, <7>2, Zenon DEF Pending
          <6>2. ~IsConfiguration(Head(input))
            BY <2>1 DEF IsConfiguration
          <6>3. QED
            BY <5>1, <6>1, <6>2, Zenon DEF Configurations
        <5>3. QED
          BY <1>2, <1>12, <2>4, <5>2
      <4>2. Len(output') = 1 /\ output'[1] = b
        BY <3>2
      <4>3. QED
        BY <4>1, <4>2
    <3>3. QED
      BY <2>1, <3>1, <3>2, Zenon
  <2>5. Reading /\ NoReset => Blocked(queue', output')
    <3> SUFFICES ASSUME Reading, NoReset PROVE Blocked(queue', output')
      OBVIOUS
    <3>1. SetUp!ConfigByte(config).name = "configuration"
      BY DEF SetUp!ConfigByte
    <3>2. \A b : <<b>> # <<>> /\ Head(<<b>>) = b
      OBVIOUS
    <3>3. output' # <<>> /\ Head(output').name = "configuration"
      BY <2>1, <3>1, <3>2, Zenon
    <3>4. None("RESET_DONE", queue')
      BY <2>1, Zenon DEF NoReset
    <3>5. QED
      BY <3>3, <3>4, Zenon DEF Blocked
  <2>6. at = "reconfigure" /\ todo = <<>> => Blocked(queue', output')
    <3>1. at = "reconfigure" => at \in Before
      BY DEF Before, Tested
    <3>2. QED
      BY <1>4, <1>6, <2>1, <2>5, <3>1, Zenon
  <2>7. at \in InUse => Untranslated' \/ Doomed'
    <3>1. Reading /\ call.script = FirstScript /\ NoReset => Doomed'
      BY <1>3, <2>5, Zenon DEF Doomed
    <3>2. at \in InUse => at \in Tested \cup InUse
      OBVIOUS
    <3>3. QED
      BY <1>2, <1>8, <1>9, <2>3, <3>1, <3>2, Zenon
  <2>8. at \in Tested => at \in Tested \cup InUse
    OBVIOUS
  <2>9. QED
    BY <1>2, <1>11, <2>1, <2>3, <2>4, <2>6, <2>7, <2>8, Zenon
<1>15. CASE SetUp!TakeConfiguration
  <2>1. /\ input # <<>> /\ IsConfiguration(Head(input)) /\ input' = <<>> /\ config' = Head(input).byte.flags
        /\ queue' = queue /\ output' = output
        /\ Configurations' \subseteq Configurations /\ Head(input) \in Configurations
    BY <1>1, <1>15, ConfigurationMoves
  <2>2. ~Reading
    BY <1>10, <2>1 DEF IsConfiguration
  <2>3. Untranslated => Untranslated'
    BY <1>12, <1>13, <2>1
  <2>4. ~(at = "reconfigure" /\ todo = <<>>)
    BY <1>6, <2>1, <2>2
  <2>5. QED
    BY <1>2, <1>8, <1>9, <1>11, <2>1, <2>2, <2>3, <2>4, Zenon
<1>16. CASE SetUp!TakeData
  <2>1. /\ input # <<>> /\ Head(input).port = "data" /\ input' = <<>> /\ config' = config \ {"KEYBOARD_LOCKED"}
        /\ queue' = queue /\ output' = output /\ Configurations' = Configurations
    BY <1>1, <1>16, DataMoves
  <2>2. ~Reading
    BY <1>10, <2>1
  <2>3. Untranslated => Untranslated'
    BY <1>12, <1>13, <2>1
  <2>4. ~(at = "reconfigure" /\ todo = <<>>)
    BY <1>6, <2>1, <2>2
  <2>5. QED
    BY <1>2, <1>8, <1>9, <1>11, <2>1, <2>2, <2>3, <2>4, Zenon
<1>17. CASE SetUp!PressKey \/ SetUp!Deliver \/ SetUp!IRQHandler
  <2>1. /\ input' = input /\ config' = config /\ Configurations' = Configurations
        /\ \/ output' = output
           \/ \E b : output' = <<b>> /\ b.name \in Replied
           \/ output' = <<>>
    BY <1>1, <1>17, QuietMoves, Zenon
  <2>2. Untranslated => Untranslated'
    BY <1>12, <1>13, <2>1
  <2>3. Reading' <=> Reading
    BY <2>1, Zenon DEF Reading
  <2>4. Plain(output) => Plain(output')
    <3>1. "configuration" \notin Replied
      BY DEF Replied
    <3>2. \A b : b.name \in Replied => Plain(<<b>>)
      BY <3>1
    <3>3. Plain(<<>>)
      OBVIOUS
    <3> HIDE DEF Plain
    <3>4. QED
      BY <2>1, <3>2, <3>3, Zenon
  <2>5. /\ Reading /\ at = "call" /\ call.script = FirstScript
        /\ todo # <<>> /\ Head(todo).port = "command" /\ NoReset
        => Doomed'
    <3>1. NoReset => NoReset'
      BY <1>1, NoResetDevice
    <3>2. QED
      BY <1>3, <2>3, <3>1, Zenon DEF Doomed
  <2>6. QED
    BY <1>2, <1>5, <1>8, <1>9, <2>2, <2>3, <2>4, <2>5, Zenon
<1>18. QED
  BY <1>14, <1>15, <1>16, <1>17, Zenon DEF DeviceStep

(* When the driver goes on, the translation stays off: the configuration   *)
(* it writes was read without translation, or RESET will not be answered   *)
(* before it.                                                              *)
LEMMA TranslationOffDriver ==
  ASSUME Known, FirstCall, TestTaken, FirstCommands, TranslationOff, calls = 0, DriverStep, ~SetUp!Call
  PROVE  TranslationOff'
<1> DEFINE Plain(o) == \A k \in 1 .. Len(o) : o[k].name = "configuration" => "TRANSLATE" \notin o[k].flags
           Nothing(td) == \A k \in 1 .. Len(td) : ~IsConfiguration(td[k])
<1>1. /\ SetUpTypes /\ AtRest /\ CallInv /\ Program(at, call.script, todo, input)
  BY DEF Known
<1>2. /\ at \in Tested => Untranslated /\ (Reading => Nothing(todo)) /\ Plain(output)
      /\ at = "reconfigure" /\ todo = <<>> => Reading \/ Blocked(queue, output)
      /\ at \in InUse => Untranslated \/ Doomed
  BY Zenon DEF TranslationOff
<1>3. Ways /\ todo = <<>> /\ input' = input /\ config' = config
  BY <1>1, DriverWays, Zenon DEF GoesOn
<1>4. SUFFICES /\ at' \in Tested => Untranslated' /\ (Reading' => Nothing(todo')) /\ Plain(output')
               /\ at' = "reconfigure" => todo' # <<>>
               /\ at' \in InUse => Untranslated' \/ Doomed'
  BY Zenon DEF TranslationOff
<1>5. Untranslated /\ Configurations' = Configurations => Untranslated'
  BY <1>3, Zenon DEF Untranslated
<1>6. Free(todo') => Configurations' = Configurations /\ Nothing(todo')
  BY <1>1, <1>3, FreeMoves, Zenon DEF Free
<1>7. Reading' <=> Reading
  BY <1>3, Zenon DEF Reading
<1>8. Plain(<<>>)
  OBVIOUS
<1>9. ASSUME NEW flags, "TRANSLATE" \notin flags, Rewrites(todo', flags), Configurations = {} PROVE Untranslated'
  <2>1. Configurations' # {} /\ \A w \in Configurations' : w.byte.flags = flags
    BY <1>1, <1>3, <1>9, RewriteMoves
  <2>2. QED
    BY <1>9, <2>1, Zenon DEF Untranslated
<1>10. CASE Onward
  <2>1. Leads(at, at') /\ Free(todo') /\ (output' = <<>> \/ output' = output)
    BY <1>10, Zenon DEF Onward
  <2>2. at' \notin InUse /\ (at' \in Tested => at \in Tested) /\ at' # "reconfigure"
    BY <2>1 DEF Leads, Tested, InUse
  <2> HIDE DEF Plain, Nothing
  <2>3. QED
    BY <1>2, <1>5, <1>6, <1>8, <2>1, <2>2, Zenon
<1>11. CASE Configuring \/ Failing
  <2>1. at' \in {"test", "no controller"}
    BY <1>11, Zenon DEF Configuring, Failing
  <2>2. QED
    BY <2>1 DEF Tested, InUse
<1>12. CASE Passing
  <2>1. at = "test" /\ at' \in {"mouse", "keyboard port"} /\ output' = <<>> /\ Rewrites(todo', configuration)
    BY <1>12, Zenon DEF Passing
  <2>2. at' # "reconfigure" /\ at' \notin InUse
    BY <2>1 DEF InUse
  <2>3. at \in Questions /\ Question(at) = "TEST_CONTROLLER"
    BY <2>1 DEF Questions, Question
  <2>4. Configurations = {} /\ (input # <<>> => IsCommand(Head(input), "TEST_CONTROLLER"))
    BY <1>1, <1>3, <2>3, AskedIsFree, Zenon
  <2>5. ~Reading
    BY <2>4 DEF Reading, IsCommand
  <2>6. "TRANSLATE" \notin configuration
    BY <2>1, Zenon DEF TestTaken
  <2>7. Untranslated'
    BY <1>9, <2>1, <2>4, <2>6
  <2> HIDE DEF Plain, Nothing
  <2>8. QED
    BY <1>7, <1>8, <2>1, <2>2, <2>5, <2>7, Zenon
<1>13. CASE Enabled
  <2>1. at = "enable" /\ at' = "reconfigure" /\ output' = <<>> /\ Free(todo') /\ todo' # <<>>
    BY <1>13, Zenon DEF Enabled
  <2>2. at \in Tested /\ at' \notin InUse
    BY <2>1 DEF Tested, InUse
  <2> HIDE DEF Plain, Nothing
  <2>3. QED
    BY <1>2, <1>5, <1>6, <1>8, <2>1, <2>2, Zenon
<1>14. CASE Reconfiguring
  <2>1. /\ at = "reconfigure" /\ at' = "call" /\ output # <<>> /\ output' = <<>> /\ queue' = queue
        /\ todo' # <<>> /\ Head(todo').port = "command" /\ Rewrites(todo', Head(output).flags \cup {"KEYBOARD_IRQ"})
        /\ call' = SetUp!Calling(FirstScript)
    BY <1>14, Zenon DEF Reconfiguring
  <2>2. at' \notin Tested /\ at \in Tested /\ at \in Before /\ at \in Questions
    BY <2>1 DEF Tested, Before, Questions
  <2>3. call'.script = FirstScript
    BY <2>1, FinallyIsKnown, Zenon
  <2>4. CASE Reading
    <3>1. NoReset
      BY <2>2, Zenon DEF FirstCommands
    <3>2. at' # "answer"
      BY <2>1
    <3>3. NoReset'
      BY <1>1, <2>1, <3>1, <3>2, NoResetDriver
    <3>4. Doomed'
      BY <1>7, <2>1, <2>3, <2>4, <3>3, Zenon DEF Doomed
    <3>5. QED
      BY <2>1, <2>2, <3>4
  <2>5. CASE Blocks(queue)
    <3>1. Doomed'
      BY <2>1, <2>3, <2>5, Zenon DEF Doomed, Blocked
    <3>2. QED
      BY <2>1, <2>2, <3>1
  <2>6. CASE Head(output).name = "configuration"
    <3>1. Configurations = {}
      BY <1>1, <1>3, <2>2, AskedIsFree
    <3>2. "TRANSLATE" \notin Head(output).flags
      <4>1. output = <<Head(output)>>
        BY <1>1, <2>1, ByteMoves
      <4>2. 1 \in 1 .. Len(output) /\ output[1] = Head(output)
        <5>1. \A b : Len(<<b>>) = 1 /\ <<b>>[1] = b
          OBVIOUS
        <5>2. Len(output) = 1 /\ output[1] = Head(output)
          BY <4>1, <5>1
        <5>3. QED
          BY <5>2
      <4>3. Plain(output)
        BY <1>2, <2>2
      <4>4. QED
        BY <2>6, <4>2, <4>3
    <3>3. "TRANSLATE" \notin Head(output).flags \cup {"KEYBOARD_IRQ"}
      BY <3>2
    <3>4. Untranslated'
      BY <1>9, <2>1, <3>1, <3>3
    <3>5. QED
      BY <2>1, <2>2, <3>4
  <2>7. Reading \/ Blocks(queue) \/ Head(output).name = "configuration"
    BY <1>2, <1>3, <2>1, Zenon DEF Blocked
  <2>8. QED
    BY <2>4, <2>5, <2>6, <2>7
<1>15. CASE Using
  <2>1. at \in InUse /\ at' \in InUse \cup {"no keyboard"} /\ Free(todo') /\ output' = output
    BY <1>15, Zenon DEF Using
  <2>2. at' \notin Tested /\ at' # "reconfigure"
    BY <2>1 DEF Tested, InUse
  <2>3. Untranslated => Untranslated'
    BY <1>5, <1>6, <2>1
  <2>4. ASSUME at' \in InUse, Doomed PROVE Doomed'
    <3>1. call.script \in {FirstScript, Tail(FirstScript)} /\ Blocked(queue, output)
      BY <1>3, <2>4, Zenon DEF Doomed
    <3>2. queue \in Seq(ByteType) /\ output \in Seq(ByteType)
      BY <1>1, Zenon DEF SetUpTypes
    <3>3. queue # <<>> => /\ Head(queue).name # "RESET_DONE"
                          /\ Head(queue).name # "configuration" => Blocked(Tail(queue), output)
      BY <3>1, <3>2, QueueLeaves, Zenon
    <3>4. \/ call'.script = FirstScript /\ queue' = queue
          \/ /\ call'.script \in {FirstScript, Tail(FirstScript)} /\ queue # <<>>
             /\ Head(queue).name \in {"ACK", "RESEND"} /\ queue' = Tail(queue)
      <4>1. \/ call.script = FirstScript /\ call'.script = call.script /\ queue' = queue
            \/ /\ call.script = FirstScript /\ call'.script = call.script
               /\ queue # <<>> /\ Head(queue).name = "RESEND" /\ queue' = Tail(queue)
            \/ /\ call'.script = Tail(FirstScript)
               /\ queue # <<>> /\ Head(queue).name = "ACK" /\ queue' = Tail(queue)
            \/ queue # <<>> /\ Head(queue).name = "RESET_DONE"
        BY <1>1, <2>1, <2>4, <3>1, FirstCallMoves, Zenon
      <4>2. QED
        BY <3>3, <4>1
    <3>5. Blocked(queue', output')
      <4>1. CASE queue' = queue
        BY <2>1, <3>1, <4>1
      <4>2. CASE queue # <<>> /\ Head(queue).name \in {"ACK", "RESEND"} /\ queue' = Tail(queue)
        <5>1. Blocked(Tail(queue), output)
          BY <3>3, <4>2
        <5>2. QED
          BY <2>1, <4>2, <5>1
      <4>3. QED
        BY <3>4, <4>1, <4>2
    <3>6. call'.script \in {FirstScript, Tail(FirstScript)}
      BY <3>4
    <3>7. QED
      BY <3>5, <3>6, Zenon DEF Doomed
  <2>5. QED
    BY <1>2, <2>1, <2>2, <2>3, <2>4, Zenon
<1>16. QED
  BY <1>3, <1>10, <1>11, <1>12, <1>13, <1>14, <1>15, Zenon DEF Ways

(* The first set-up goes on as it should, whatever is typed.               *)
LEMMA FirstSetUpStep ==
  Known /\ UseWrites /\ SendsKnown /\ TestTaken /\ FirstSetUp /\ SetUp!Next => FirstSetUp'
<1> SUFFICES ASSUME Known, UseWrites, SendsKnown, TestTaken, FirstSetUp, SetUp!Next, calls' = 0
             PROVE  FirstCommands' /\ InterruptOn' /\ (lost' = {} => TranslationOff')
  BY Zenon DEF FirstSetUp
<1>1. SetUpTypes /\ AtRest /\ CallInv
  BY DEF Known
<1>2. calls = 0 /\ ~SetUp!Call
  BY <1>1, NoCallYet, Zenon
<1>3. FirstCommands /\ InterruptOn /\ (lost = {} => TranslationOff)
  BY <1>2, Zenon DEF FirstSetUp
<1>4. FirstCall
  BY <1>3, Zenon DEF FirstCommands, FirstCall
<1>5. FirstCommands'
  BY <1>2, <1>3, FirstCommandsStep, Zenon
<1>6. InterruptOn'
  BY <1>2, <1>3, <1>4, InterruptOnStep, Zenon
<1>7. ASSUME lost' = {} PROVE TranslationOff'
  <2>1. TranslationOff /\ (SetUp!Write => input = <<>>)
    BY <1>1, <1>3, <1>7, NothingLost, Zenon
  <2>2. CASE SetUp!Write
    BY <2>1, <2>2, TranslationOffWrite, Zenon
  <2>3. CASE DeviceStep
    BY <1>3, <2>1, <2>3, TranslationOffDevice, Zenon
  <2>4. CASE DriverStep
    BY <1>2, <1>3, <1>4, <2>1, <2>4, TranslationOffDriver, Zenon
  <2>5. QED
    BY <2>2, <2>3, <2>4, StepsOfSetUp
<1>8. QED
  BY <1>5, <1>6, <1>7

(* Everything that holds throughout the set-up and the calls behind it.    *)
SetUpInv ==
  Known /\ Untyped /\ HandlerSet /\ UseWrites /\ SendsKnown /\ TestTaken /\ FirstSetUp

(* It holds in the beginning. *)
LEMMA SetUpInvInit == SetUp!Init => SetUpInv
<1> SUFFICES ASSUME SetUp!Init PROVE SetUpInv
  OBVIOUS
<1>1. Known
  BY SetUpTypesInit, AtRestInit, CallInvInit, OrderlyInit, ProgramInit, Zenon DEF Known
<1>2. /\ input = <<>> /\ output = <<>> /\ queue = <<>> /\ SetUp!Start /\ call = SetUp!NoCall /\ lost = {}
      /\ keyboard = [scanning |-> TRUE, set |-> "SET_2", argument |-> FALSE, sends |-> <<>>]
  BY Zenon DEF SetUp!Init
<1>3. /\ keyboard.scanning /\ keyboard.set = "SET_2" /\ keyboard.sends = <<>>
      /\ call.script = <<>> /\ call.finally = <<>>
  BY <1>2 DEF SetUp!NoCall
<1>4. \/ at = "flush" /\ todo = SetUp!LockInput
      \/ at = "no controller" /\ todo = <<>>
  BY <1>2, Zenon DEF SetUp!Start
<1>5. at \notin InUse \cup Tested \cup {"reconfigure", "reboot flush", "reboot", "test"}
  BY <1>4 DEF InUse, Tested
<1>6. \A w \in Pending : w.port = "command" /\ w.byte.name \in {"LOCK_KEYBOARD", "LOCK_MOUSE"}
  <2>1. \A n : SetUp!Command(n).port = "command" /\ SetUp!Command(n).byte.name = n
    BY DEF SetUp!Command, SetUp!Byte
  <2>2. Pending \subseteq {SetUp!Command("LOCK_KEYBOARD"), SetUp!Command("LOCK_MOUSE")}
    <3>1. \A a, b : /\ \A k \in 1 .. Len(<<a, b>>) : <<a, b>>[k] \in {a, b}
                    /\ \A k \in 1 .. Len(<<>>) : FALSE
      OBVIOUS
    <3>2. \A k \in 1 .. Len(todo) : todo[k] \in {SetUp!Command("LOCK_KEYBOARD"), SetUp!Command("LOCK_MOUSE")}
      BY <1>4, <3>1, Zenon DEF SetUp!LockInput
    <3>3. QED
      BY <1>2, <3>1, <3>2 DEF Pending
  <2>3. QED
    BY <2>1, <2>2
<1>7. None("RESET_DONE", <<>>) /\ None("CONTROLLER_TEST_PASSED", <<>>) /\ (\A k \in 1 .. Len(<<>>) : FALSE)
  BY DEF None
<1>8. NoReset
  BY <1>2, <1>3, <1>6, <1>7 DEF NoReset
<1>9. FirstCommands
  BY <1>3, <1>6, <1>8, FirstSpelled DEF FirstCommands
<1>10. InterruptOn /\ TranslationOff /\ UseWrites /\ HandlerSet
  <2>1. at \notin InUse /\ at \notin Tested /\ at # "reconfigure" /\ at # "reboot flush" /\ at # "reboot"
    BY <1>5
  <2>2. InterruptOn /\ TranslationOff /\ UseWrites
    BY <2>1, Zenon DEF InterruptOn, TranslationOff, UseWrites
  <2>3. HandlerSet
    BY <2>1 DEF HandlerSet
  <2>4. QED
    BY <2>2, <2>3
<1>11. SendsKnown
  BY <1>3, <1>7 DEF SendsKnown
<1>12. TestTaken
  <2>1. \A w \in Pending : ~IsCommand(w, "TEST_CONTROLLER")
    BY <1>6 DEF IsCommand
  <2>2. at # "test"
    BY <1>5
  <2>3. None("CONTROLLER_TEST_PASSED", output)
    BY <1>2, <1>7
  <2>4. QED
    BY <2>1, <2>2, <2>3, Zenon DEF TestTaken
<1>13. QED
  BY <1>1, <1>9, <1>10, <1>11, <1>12, UntypedInit, Zenon DEF SetUpInv, FirstSetUp

(* And after every step. *)
LEMMA SetUpInvStep == SetUpInv /\ SetUp!Next => SetUpInv'
<1> SUFFICES ASSUME SetUpInv, SetUp!Next PROVE SetUpInv'
  OBVIOUS
<1>1. Known /\ Untyped /\ HandlerSet /\ UseWrites /\ SendsKnown /\ TestTaken /\ FirstSetUp
  BY Zenon DEF SetUpInv
<1>2. SetUpTypes /\ AtRest /\ CallInv /\ Orderly(todo, input, expects) /\ Program(at, call.script, todo, input)
  BY <1>1, Zenon DEF Known
<1>3. FirstCall
  BY <1>1, Zenon DEF FirstSetUp, FirstCommands, FirstCall
<1>4. Known'
  BY <1>2, SetUpTypesStep, AtRestStep, CallInvStep, OrderlyStep, ProgramStep, Zenon DEF Known
<1>5. Untyped'
  BY <1>1, <1>3, UntypedStep, Zenon
<1>6. HandlerSet' /\ UseWrites' /\ SendsKnown'
  BY <1>1, <1>2, HandlerSetStep, UseWritesStep, SendsKnownStep, Zenon
<1>7. TestTaken' /\ FirstSetUp'
  BY <1>1, TestTakenStep, FirstSetUpStep, Zenon
<1>8. QED
  BY <1>4, <1>5, <1>6, <1>7, Zenon DEF SetUpInv

(* A step that changes nothing of it changes nothing. *)
LEMMA SetUpInvStutters ==
  SetUpInv /\ UNCHANGED <<hardware, input, output, expects, config, keyboard, queue, handler, at, todo,
                          configuration, singleChannel, available, call, calls, keys, refusals, lost>> => SetUpInv'
<1> SUFFICES ASSUME SetUpInv,
                    UNCHANGED <<hardware, input, output, expects, config, keyboard, queue, handler, at, todo,
                                configuration, singleChannel, available, call, calls, keys, refusals, lost>>
             PROVE  SetUpInv'
  OBVIOUS
<1>1. Known /\ Untyped /\ HandlerSet /\ UseWrites /\ SendsKnown /\ TestTaken /\ FirstSetUp
  BY Zenon DEF SetUpInv
<1>2. Pending' = Pending /\ Configurations' = Configurations /\ (Reading' <=> Reading) /\ (NoReset' <=> NoReset)
  <2>1. Pending' = Pending
    BY Zenon DEF Pending
  <2>2. Configurations' = Configurations
    BY <2>1, Zenon DEF Configurations
  <2>3. Reading' <=> Reading
    BY Zenon DEF Reading
  <2>4. NoReset' <=> NoReset
    BY <2>1, Zenon DEF NoReset
  <2>5. QED
    BY <2>1, <2>2, <2>3, <2>4
<1>3. SetUpTypes'
  BY <1>1, Zenon DEF Known, SetUpTypes
<1>4. AtRest' /\ CallInv' /\ Orderly(todo, input, expects)' /\ Program(at, call.script, todo, input)'
  <2>1. AtRest' /\ CallInv'
    BY <1>1, Zenon DEF Known, AtRest, CallInv
  <2>2. Orderly(todo, input, expects)'
    BY <1>1, Zenon DEF Known
  <2>3. Program(at, call.script, todo, input)'
    BY <1>1, Zenon DEF Known
  <2>4. QED
    BY <2>1, <2>2, <2>3
<1>5. Untyped'
  BY <1>1, Zenon DEF Untyped, ScanningComes, Reasons
<1>6. HandlerSet' /\ UseWrites' /\ SendsKnown'
  BY <1>1, Zenon DEF HandlerSet, UseWrites, SendsKnown
<1>7. TestTaken'
  BY <1>1, <1>2, Zenon DEF TestTaken
<1>8. FirstSetUp'
  <2>1. FirstCommands => FirstCommands'
    BY <1>2, Zenon DEF FirstCommands
  <2>2. InterruptOn => InterruptOn'
    BY <1>2, Zenon DEF InterruptOn
  <2>3. (Untranslated => Untranslated') /\ (Doomed => Doomed')
    BY <1>2, Zenon DEF Untranslated, Doomed
  <2>4. TranslationOff => TranslationOff'
    BY <1>2, <2>3, Zenon DEF TranslationOff
  <2>5. QED
    BY <1>1, <2>1, <2>2, <2>4, Zenon DEF FirstSetUp
<1>9. QED
  BY <1>1, <1>3, <1>4, <1>5, <1>6, <1>7, <1>8, Zenon DEF SetUpInv, Known

(* What it says of the end of the set-up and of a call.                    *)
LEMMA SetUpInvSays ==
  ASSUME SetUpInv
  PROVE  /\ SetUp!TypeOK /\ SetUp!LostAreUnanswered /\ SetUp!FailureHasReason
         /\ SetUp!ReadyIsConfigured /\ SetUp!ScanningIsRestored
<1>1. Known /\ Untyped /\ HandlerSet /\ FirstSetUp
  BY Zenon DEF SetUpInv
<1>2. SetUpTypes /\ AtRest
  BY <1>1, Zenon DEF Known
<1>3. SetUp!TypeOK
  <2>1. /\ Len(input) <= 1 /\ Len(output) <= 1 /\ config \in SUBSET SetUp!Flags /\ call \in CallType
        /\ available \in SUBSET {"keyboard port", "mouse port"} /\ at \in Places
    BY <1>2, Zenon DEF SetUpTypes
  <2>2. call.times \in 0 .. ResendTimesCount
    BY <2>1 DEF CallType
  <2>3. at \in SetUp!Ended \cup {"flush", "configure", "test", "mouse", "keyboard port", "mouse port",
                                 "controller ready", "keyboard flush", "enable", "reconfigure", "call", "answer",
                                 "reboot flush", "reboot"}
    BY <2>1 DEF Places, Questions
  <2>4. QED
    BY <2>1, <2>2, <2>3 DEF SetUp!TypeOK
<1>4. SetUp!LostAreUnanswered
  BY <1>1, Zenon DEF Untyped, LostNames, SetUp!LostAreUnanswered
<1>5. SetUp!FailureHasReason
  BY <1>1, Zenon DEF Untyped, Reasons, SetUp!FailureHasReason
<1>6. SetUp!ScanningIsRestored
  <2>1. at = "idle" => at # "reboot" /\ at \notin InCall
    BY DEF InCall
  <2>2. keyboard.scanning \in BOOLEAN
    BY <1>2 DEF SetUpTypes, KeyboardState
  <2>3. QED
    BY <1>1, <2>1, <2>2, Zenon DEF Untyped, ScanningComes, SetUp!ScanningIsRestored
<1>7. SetUp!ReadyIsConfigured
  <2> SUFFICES ASSUME at = "idle", calls = 0
               PROVE  /\ keyboard.scanning /\ keyboard.set = "SET_2" /\ handler /\ "KEYBOARD_IRQ" \in config
                      /\ lost = {} => "TRANSLATE" \notin config
    BY Zenon DEF SetUp!ReadyIsConfigured
  <2>1. at \in InUse /\ at \notin InCall
    BY DEF InUse, InCall
  <2>2. FirstCommands /\ InterruptOn /\ (lost = {} => TranslationOff)
    BY <1>1, Zenon DEF FirstSetUp
  <2>3. handler
    <3>1. at \in InUse \cup {"reconfigure", "reboot flush", "reboot"}
      BY <2>1
    <3>2. QED
      BY <1>1, <3>1, Zenon DEF HandlerSet
  <2>4. call.script \notin {FirstScript, Tail(FirstScript)}
    <3>1. call.script = <<>>
      BY <1>2, <2>1, Zenon DEF AtRest
    <3>2. QED
      BY <3>1, FirstSpelled
  <2>5. Configurations = {}
    BY <2>1, <2>2, <2>4 DEF InterruptOn
  <2>6. "KEYBOARD_IRQ" \in config
    BY <2>1, <2>2, <2>5, Zenon DEF InterruptOn
  <2>7. ~Doomed
    BY <2>4 DEF Doomed
  <2>8. lost = {} => "TRANSLATE" \notin config
    BY <2>1, <2>2, <2>5, <2>7, Zenon DEF TranslationOff, Untranslated
  <2>9. keyboard.scanning /\ keyboard.set = "SET_2"
    BY <2>2, Zenon DEF FirstCommands
  <2>10. QED
    BY <2>3, <2>6, <2>8, <2>9
<1>8. QED
  BY <1>3, <1>4, <1>5, <1>6, <1>7

(* The set-up and the calls behind it, for every hardware, every number of *)
(* refused bytes, keys and calls: what is lost was not waited for, a       *)
(* set-up gives up only for a reason, one that succeeds leaves the         *)
(* keyboard scanning in set 2 with its interrupt on and, unless a byte was *)
(* lost, untranslated, and between calls the keyboard scans                *)
(* (ps2-controller.cxx:54, ps2-keyboard.cxx:9-75).                         *)
THEOREM SetUpIsSoundAlways == PS2Spec => []SetUpIsSound
<1> DEFINE I == stage = "set-up" => SetUpInv
<1>1. PS2Init => I
  BY SetUpInvInit, Zenon DEF PS2Init, NoSetUp
<1>2. I /\ [PS2Next]_ps2Vars => I'
  <2> SUFFICES ASSUME I, [PS2Next]_ps2Vars, stage' = "set-up" PROVE SetUpInv'
    OBVIOUS
  <2>1. CASE Prepare
    <3>1. stage = "set-up" /\ SetUp!Next
      BY <2>1, Zenon DEF Prepare
    <3>2. QED
      BY <3>1, SetUpInvStep
  <2>2. CASE Operate
    <3>1. stage = "in use" /\ stage' = stage
      BY <2>2, Zenon DEF Operate
    <3>2. QED
      BY <3>1
  <2>3. CASE UNCHANGED ps2Vars
    <3>1. /\ UNCHANGED <<stage, hardware, input, output, expects, config, keyboard, queue, handler, at, todo,
                         configuration, singleChannel, available, call, calls, keys, refusals, lost>>
      BY <2>3 DEF ps2Vars, setUpVars
    <3>2. SetUpInv
      BY <3>1
    <3>3. QED
      BY <3>1, <3>2, SetUpInvStutters
  <2>4. QED
    BY <2>1, <2>2, <2>3 DEF PS2Next
<1>3. KeyboardInv => TypeOK
  <2> SUFFICES ASSUME KeyboardInv PROVE TypeOK
    OBVIOUS
  <2>1. KeyboardType
    BY Zenon DEF KeyboardInv
  <2>2. buffer \in [Cell -> ByteSet] /\ bufferLength \in 0 .. MaxBufferLength
    BY <2>1 DEF KeyboardType
  <2>3. reader \in [at : {"load", "store", "reload", "fetch"}, value : 0 .. MaxBufferLength]
    <3>1. reader \in [at : {"load", "store", "reload", "fetch"}, value : Nat] /\ reader.value <= MaxBufferLength
      BY <2>1, Zenon DEF KeyboardType
    <3>2. MaxBufferLength \in Nat
      BY LengthIsBounded
    <3>3. QED
      BY <3>1, <3>2
  <2>4. Len(read) < 3
    <3>1. Partial(read)
      BY <2>1, Zenon DEF KeyboardType
    <3>2. Len(read) = 0 \/ Len(read) = 1 \/ Len(read) = 2
      BY <3>1, Zenon DEF Partial
    <3> DEFINE n == Len(read)
    <3> HIDE DEF n
    <3>3. n = 0 \/ n = 1 \/ n = 2 => n < 3
      OBVIOUS
    <3>4. QED
      BY <3>2, <3>3, Zenon DEF n
  <2>5. QED
    BY <2>1, <2>2, <2>3, <2>4, Zenon DEF KeyboardType, TypeOK, ByteSet
<1>4. I /\ TypeOK => SetUpIsSound
  BY SetUpInvSays, Zenon DEF SetUpIsSound
<1>5. QED
  BY <1>1, <1>2, <1>3, <1>4, KeyboardInvAlways, PTL DEF PS2Spec

=============================================================================
