---------------------------- MODULE TerminalProofs ----------------------------
(***************************************************************************)
(* Theorems about the text screen and its line editor, for every size of   *)
(* the screen, every tabulation and every limit.                           *)
(***************************************************************************)
EXTENDS Terminal, SequenceTheorems, TLAPS

Shows == Character \cup {Blank}
Types == Shows \cup {Tab}

(* What PutChar may make of the cursor and the screen. *)
ScreenType == [position : Nat, screen : [Cell -> Shows], outside : SUBSET Nat]

Near(s) == s.position < Size + Width

(* A line that has been echoed whole ends on the screen. *)
EchoFits == reading /\ echo.whole /\ length > 0 => echo.origin + length <= Size

LineType == line \in Seq(Types)

-----------------------------------------------------------------------------
(* Dimensions of the screen. *)
LEMMA SizeFacts ==
  /\ Width \in Nat /\ Width > 0 /\ Size \in Nat /\ LastLine \in Nat
  /\ LastLine + Width = Size /\ LastLine > 0 /\ Size > 0
<1>1. Width \in Nat /\ Width > 0 /\ Height \in Nat /\ Height > 1
  BY TerminalAssumption
<1>2. Width * Height = Width * (Height - 1) + Width /\ (Height - 1) * Width = Width * (Height - 1)
  BY <1>1
<1>3. Width * (Height - 1) \in Nat /\ Width * (Height - 1) >= Width
  BY <1>1
<1>4. QED
  BY <1>1, <1>2, <1>3 DEF Size, LastLine

(* The column is a column, and the rest of the position a multiple of Width. *)
LEMMA ColumnFacts ==
  ASSUME NEW p \in Nat
  PROVE  /\ Column(p) \in 0 .. Width - 1
         /\ p - Column(p) \in Nat
         /\ p < Size + Width => p - Column(p) <= Size
<1>1. Width \in Nat /\ Width > 0 /\ Height \in Nat
  BY TerminalAssumption
<1>2. p % Width \in 0 .. Width - 1 /\ p \div Width \in Nat /\ p = Width * (p \div Width) + (p % Width)
  BY <1>1
<1> DEFINE q == p \div Width
<1>3. ASSUME p < Width * Height + Width PROVE Width * q <= Width * Height
  <2>1. Width * q < Width * (Height + 1)
    BY <1>1, <1>2, <1>3
  <2>2. q < Height + 1
    <3>1. SUFFICES ASSUME q >= Height + 1 PROVE FALSE
      BY <1>1, <1>2
    <3>2. Width * q >= Width * (Height + 1)
      BY <3>1, <1>1, <1>2
    <3>3. QED
      BY <3>2, <2>1, <1>1, <1>2
  <2>3. q <= Height
    BY <2>2, <1>1, <1>2
  <2>4. QED
    BY <2>3, <1>1, <1>2
<1>4. p - (p % Width) = Width * q
  BY <1>1, <1>2
<1>5. Width * q \in Nat
  BY <1>1, <1>2
<1>6. QED
  BY <1>2, <1>3, <1>4, <1>5 DEF Column, Size

(* A position in a line of the screen is on the screen. *)
LEMMA LineFacts ==
  ASSUME NEW p \in Nat, NEW index \in 0 .. Height - 1
  PROVE  Column(p) + index * Width \in Nat /\ Column(p) + index * Width < Size
<1>1. Width \in Nat /\ Width > 0 /\ Height \in Nat /\ index \in Nat /\ index + 1 <= Height
  BY TerminalAssumption
<1>2. (index + 1) * Width <= Height * Width /\ index * Width \in Nat
  BY <1>1
<1>3. (index + 1) * Width = index * Width + Width /\ Height * Width = Width * Height
  BY <1>1
<1>4. Column(p) \in 0 .. Width - 1
  BY ColumnFacts
<1>5. Width * Height \in Nat
  BY <1>1
<1>6. QED
  BY <1>1, <1>2, <1>3, <1>4, <1>5 DEF Size
-----------------------------------------------------------------------------
(* Every way to put a character keeps the screen, and the cursor near it. *)
LEMMA RaisedFacts ==
  ASSUME NEW s \in ScreenType
  PROVE  /\ Raised(s) \in ScreenType
         /\ Raised(s).position = LastLine
         /\ Near(Raised(s))
<1>1. [c \in Cell |-> IF c + Width < Size THEN s.screen[c + Width] ELSE Blank] \in [Cell -> Shows]
  <2>1. ASSUME NEW c \in Cell, c + Width < Size PROVE c + Width \in Cell
    BY <2>1, SizeFacts DEF Cell
  <2>2. QED
    BY <2>1 DEF ScreenType, Shows
<1> DEFINE f == [c \in Cell |-> IF c + Width < Size THEN s.screen[c + Width] ELSE Blank]
<1>2. Raised(s) = [s EXCEPT !.position = LastLine, !.screen = f]
  BY DEF Raised
<1> HIDE DEF f
<1>3. Raised(s) \in ScreenType /\ Raised(s).position = LastLine
  BY <1>1, <1>2, SizeFacts DEF ScreenType, f
<1>4. QED
  BY <1>3, SizeFacts DEF Near

LEMMA AdvancedFacts ==
  ASSUME NEW s \in ScreenType, NEW p \in Nat
  PROVE  Advanced(s, p) \in ScreenType /\ Near(Advanced(s, p))
<1>1. CASE p < Size
  BY <1>1, SizeFacts DEF Advanced, ScreenType, Near
<1>2. CASE ~(p < Size)
  BY <1>2, RaisedFacts DEF Advanced
<1>3. QED
  BY <1>1, <1>2

LEMMA WrittenFacts ==
  ASSUME NEW s \in ScreenType, NEW c \in Shows
  PROVE  /\ Written(s, c) \in ScreenType /\ Near(Written(s, c))
         /\ Written(s, c).position > 0
         /\ s.position < Size =>
              /\ Written(s, c).position = s.position + 1
              /\ Written(s, c).screen = [s.screen EXCEPT ![s.position] = c]
         /\ s.position >= Size => Written(s, c).position = LastLine
<1>1. CASE s.position < Size
  <2>1. Written(s, c) = [s EXCEPT !.position = @ + 1, !.screen[s.position] = c]
    BY <1>1 DEF Written
  <2>2. s.position \in Cell
    BY <1>1, SizeFacts DEF ScreenType, Cell
  <2> DEFINE f == [s.screen EXCEPT ![s.position] = c]
  <2>3. f \in [Cell -> Shows]
    BY <2>2 DEF ScreenType
  <2>4. Written(s, c) = [s EXCEPT !.position = s.position + 1, !.screen = f]
    BY <2>1
  <2> HIDE DEF f
  <2>5. /\ Written(s, c) \in ScreenType
        /\ Written(s, c).position = s.position + 1
        /\ Written(s, c).screen = f
    <3>1. s.position + 1 \in Nat
      BY DEF ScreenType
    <3> DEFINE q == s.position + 1
    <3> HIDE DEF q
    <3>2. q \in Nat
      BY <3>1 DEF q
    <3>3. Written(s, c) = [s EXCEPT !.position = q, !.screen = f]
      BY <2>4 DEF q
    <3>4. Written(s, c) \in ScreenType /\ Written(s, c).position = q /\ Written(s, c).screen = f
      BY <2>3, <3>2, <3>3 DEF ScreenType
    <3>5. QED
      BY <3>4 DEF q
  <2>6. s.position \in Nat
    BY DEF ScreenType
  <2>7. QED
    BY <1>1, <2>5, <2>6, SizeFacts DEF Near, f
<1>2. CASE s.position >= Size
  <2> DEFINE t == [s EXCEPT !.outside = @ \cup {s.position}]
  <2>1. t \in ScreenType
    BY DEF ScreenType
  <2>2. Written(s, c) = Raised(t)
    BY <1>2, SizeFacts DEF Written, ScreenType
  <2>3. QED
    BY <1>2, <2>1, <2>2, RaisedFacts, SizeFacts DEF ScreenType
<1>3. QED
  BY <1>1, <1>2, SizeFacts DEF ScreenType

LEMMA ErasedFacts ==
  ASSUME NEW s \in ScreenType, Near(s)
  PROVE  /\ Erased(s) \in ScreenType /\ Near(Erased(s))
         /\ s.position > 0 /\ s.position <= Size =>
              /\ Erased(s).position = s.position - 1
              /\ Erased(s).screen = [s.screen EXCEPT ![s.position - 1] = Blank]
<1>1. CASE s.position = 0
  BY <1>1 DEF Erased
<1>2. CASE s.position > 0
  <2> DEFINE r == [s EXCEPT !.position = @ - 1]
             t == Written(r, Blank)
  <2>1. r \in ScreenType /\ r.position = s.position - 1 /\ r.screen = s.screen
    BY <1>2 DEF ScreenType
  <2>2. Blank \in Shows
    BY DEF Shows
  <2>3. /\ t \in ScreenType /\ Near(t) /\ t.position > 0
        /\ r.position < Size =>
              /\ t.position = r.position + 1
              /\ t.screen = [r.screen EXCEPT ![r.position] = Blank]
    BY <2>1, <2>2, WrittenFacts
  <2>4. Erased(s) = [t EXCEPT !.position = @ - 1]
    BY <1>2 DEF Erased
  <2> HIDE DEF r, t
  <2>5. Erased(s) \in ScreenType /\ Erased(s).position = t.position - 1 /\ Erased(s).screen = t.screen
    BY <2>3, <2>4 DEF ScreenType
  <2>6. t.position \in Nat /\ s.position \in Nat
    BY <2>3 DEF ScreenType
  <2>7. QED
    BY <1>2, <2>1, <2>3, <2>5, <2>6, SizeFacts DEF Near
<1>3. QED
  BY <1>1, <1>2 DEF ScreenType

LEMMA PutFacts ==
  ASSUME NEW s \in ScreenType, Near(s), NEW c \in Types \cup {NewLine, Carret, Backspace}
  PROVE  /\ Put(s, c) \in ScreenType /\ Near(Put(s, c))
         /\ c \in Shows => Put(s, c) = Written(s, c)
         /\ c = Carret => Put(s, c).position <= Size
<1>1. /\ c \in Shows => c \notin {Tab, NewLine, Carret, Backspace}
      /\ c = Carret => c \notin {Tab, NewLine}
  BY TerminalAssumption, ControlAssumption DEF Shows
<1>2. s.position \in Nat /\ Width \in Nat /\ TabulationLength \in Nat /\ TabulationLength > 0
  BY TerminalAssumption DEF ScreenType
<1>3. /\ Column(s.position) \in Nat
      /\ s.position - Column(s.position) \in Nat
      /\ s.position - Column(s.position) <= Size
  <2> DEFINE p == s.position
  <2>1. p \in Nat /\ p < Size + Width
    BY <1>2 DEF Near
  <2> HIDE DEF p
  <2>2. Column(p) \in 0 .. Width - 1 /\ p - Column(p) \in Nat /\ p - Column(p) <= Size
    BY <2>1, ColumnFacts
  <2>3. Column(p) \in Nat
    BY <2>2
  <2>4. QED
    BY <2>2, <2>3 DEF p
<1>4. CASE c = Tab
  <2>1. Column(s.position) % TabulationLength \in 0 .. TabulationLength - 1
    BY <1>2, <1>3
  <2>2. s.position + TabulationLength - (Column(s.position) % TabulationLength) \in Nat
    BY <1>2, <2>1
  <2> DEFINE p == s.position + TabulationLength - (Column(s.position) % TabulationLength)
  <2>3. Put(s, c) = Advanced(s, p)
    BY <1>4, ControlAssumption DEF Put
  <2>4. c \notin Shows /\ c # Carret
    BY <1>1, <1>4, ControlAssumption
  <2> HIDE DEF p
  <2>5. QED
    BY <2>2, <2>3, <2>4, AdvancedFacts DEF p
<1>5. CASE c = NewLine
  <2>1. s.position + Width \in Nat
    BY <1>2
  <2>2. c # Tab
    BY <1>5, ControlAssumption
  <2>3. c \notin Shows /\ c # Carret
    BY <1>1, <1>5, ControlAssumption
  <2>4. Put(s, c) = Advanced(s, s.position + Width)
    BY <1>5, <2>2, ControlAssumption DEF Put
  <2>5. QED
    BY <2>1, <2>3, <2>4, AdvancedFacts
<1>6. CASE c = Carret
  <2>1. Put(s, c) = [s EXCEPT !.position = @ - Column(@)]
    BY <1>1, <1>6, ControlAssumption DEF Put
  <2> DEFINE p == s.position - Column(s.position)
  <2>2. Put(s, c) = [s EXCEPT !.position = p]
    BY <2>1
  <2>3. p \in Nat /\ p <= Size
    BY <1>3
  <2> HIDE DEF p
  <2>4. Put(s, c) \in ScreenType /\ Put(s, c).position = p
    BY <2>2, <2>3 DEF ScreenType
  <2>5. QED
    BY <1>1, <1>6, <2>3, <2>4, SizeFacts DEF Near
<1>7. CASE c = Backspace
  <2>1. Put(s, c) = IF s.position > 0 THEN [s EXCEPT !.position = @ - 1] ELSE s
    BY <1>7, ControlAssumption DEF Put
  <2>2. c # Carret
    BY <1>7, ControlAssumption
  <2>3. QED
    BY <1>1, <1>2, <1>7, <2>1, <2>2, SizeFacts DEF ScreenType, Near
<1>8. CASE c \in Shows
  <2>1. Put(s, c) = Written(s, c)
    BY <1>1, <1>8 DEF Put
  <2>2. QED
    BY <1>1, <1>8, <2>1, WrittenFacts
<1>9. QED
  BY <1>4, <1>5, <1>6, <1>7, <1>8 DEF Types
-----------------------------------------------------------------------------
(* The part of TypeOK that is about the screen, and the part that is not. *)
ScreenOK == Shown \in ScreenType /\ Near(Shown)

EditOK ==
  /\ reading \in BOOLEAN /\ limit \in Nat /\ length \in 0 .. limit
  /\ buffer \in [0 .. limit -> Types \cup {NewLine}]
  /\ written \subseteq 0 .. limit
  /\ echo \in [origin : Nat, whole : BOOLEAN]
  /\ LineType

LEMMA ScreenOKIsType == ScreenOK <=>
  /\ position \in Nat /\ screen \in [Cell -> Shows] /\ outside \subseteq Nat
  /\ CursorNearScreen
<1>1. Shown.position = position /\ Shown.screen = screen /\ Shown.outside = outside
  BY DEF Shown
<1>2. Shown \in ScreenType <=> position \in Nat /\ screen \in [Cell -> Shows] /\ outside \subseteq Nat
  BY <1>1 DEF Shown, ScreenType
<1>3. Near(Shown) <=> CursorNearScreen
  BY <1>1 DEF Near, CursorNearScreen
<1>4. QED
  BY <1>2, <1>3 DEF ScreenOK

(* What Show makes the next cursor and screen. *)
LEMMA ShowFacts ==
  ASSUME NEW s \in ScreenType, Near(s), Show(s)
  PROVE  ScreenOK'
<1>1. Shown' = s
  <2>1. s = [position |-> s.position, screen |-> s.screen, outside |-> s.outside]
    BY DEF ScreenType
  <2>2. QED
    BY <2>1 DEF Show, Shown
<1>2. QED
  BY <1>1 DEF ScreenOK, Near

LEMMA ScreenInit == Init => ScreenOK
<1>1. Init => /\ position \in Nat /\ screen \in [Cell -> Shows] /\ outside \subseteq Nat
              /\ position < Size + Width
  BY SizeFacts DEF Init, Shows
<1>2. QED
  BY <1>1, ScreenOKIsType DEF CursorNearScreen

(* Whatever is done, the cursor stays near the screen. *)
LEMMA ScreenStep ==
  ASSUME ScreenOK, [Next]_vars
  PROVE  ScreenOK'
<1>1. /\ position \in Nat /\ screen \in [Cell -> Shows] /\ outside \subseteq Nat
      /\ position < Size + Width
  BY ScreenOKIsType DEF CursorNearScreen
<1>2. Shown \in ScreenType /\ Near(Shown)
  BY DEF ScreenOK
<1>3. ASSUME NEW p \in Nat, p < Size + Width, position' = p, screen' \in [Cell -> Shows], outside' = outside
      PROVE  ScreenOK'
  <2>1. (position \in Nat /\ screen \in [Cell -> Shows] /\ outside \subseteq Nat /\ CursorNearScreen)'
    BY <1>1, <1>3 DEF CursorNearScreen
  <2>2. QED
    BY <2>1, ScreenOKIsType, PTL
<1>4. ASSUME NEW c \in Shows \cup {Tab, NewLine, Carret, Backspace}, PutChar(c)
      PROVE  ScreenOK'
  BY <1>2, <1>4, PutFacts, ShowFacts DEF PutChar, Types
<1>5. ASSUME NEW index \in 0 .. Width - 1, SetColumn(index)
      PROVE  ScreenOK'
  <2> DEFINE p == position - Column(position) + index
  <2>1. position - Column(position) \in Nat /\ position - Column(position) <= Size
    BY <1>1, ColumnFacts
  <2>2. p \in Nat /\ p < Size + Width
    BY <2>1, <1>5, SizeFacts
  <2> HIDE DEF p
  <2>3. position' = p /\ screen' = screen /\ outside' = outside
    BY <1>5 DEF SetColumn, p
  <2>4. QED
    BY <1>1, <1>3, <2>2, <2>3
<1>6. ASSUME NEW index \in 0 .. Height - 1, SetLine(index)
      PROVE  ScreenOK'
  <2>1. LineSet(index) \in Nat /\ LineSet(index) < Size
    BY <1>1, LineFacts DEF LineSet
  <2>2. QED
    BY <1>1, <1>3, <1>6, <2>1, SizeFacts DEF SetLine
<1>7. CASE Redraw
  <2>1. screen' \in [Cell -> Shows] /\ position' = position /\ outside' = outside
    BY <1>7 DEF Redraw, Shows
  <2>2. QED
    BY <1>1, <1>3, <2>1
<1>8. ASSUME NEW max \in Limits, ReadString(max)
      PROVE  ScreenOK'
  BY <1>1, <1>3, <1>8 DEF ReadString, screenVars
<1>9. CASE EraseLast
  BY <1>2, <1>9, ErasedFacts, ShowFacts DEF EraseLast
<1>10. CASE FinishLine
  <2>1. Put(Shown, Carret) \in ScreenType /\ Near(Put(Shown, Carret))
    BY <1>2, PutFacts
  <2>2. Put(Put(Shown, Carret), NewLine) \in ScreenType /\ Near(Put(Put(Shown, Carret), NewLine))
    BY <2>1, PutFacts
  <2>3. QED
    BY <1>10, <2>2, ShowFacts DEF FinishLine
<1>11. ASSUME NEW c \in Types, AppendChar(c)
       PROVE  ScreenOK'
  BY <1>2, <1>11, PutFacts, ShowFacts DEF AppendChar
<1>12. CASE UNCHANGED vars
  BY <1>1, <1>3, <1>12 DEF vars, screenVars
<1>13. QED
  BY <1>4, <1>5, <1>6, <1>7, <1>8, <1>9, <1>10, <1>11, <1>12 DEF Next, Shows, Types
-----------------------------------------------------------------------------
(* The line editor: its types, and the line it keeps. *)
LineInv == EditOK /\ LineIsEdited

LEMMA LineInit == Init => LineInv
<1> SUFFICES ASSUME Init PROVE LineInv
  OBVIOUS
<1>1. /\ reading = FALSE /\ limit = 0 /\ buffer = [i \in {0} |-> Blank] /\ length = 0
      /\ line = <<>> /\ written = {} /\ echo = [origin |-> 0, whole |-> TRUE]
  BY DEF Init, NoEcho
<1>2. Blank \in Types
  BY DEF Types, Shows
<1>3. 0 .. limit = {0}
  BY <1>1
<1>4. buffer \in [0 .. limit -> Types \cup {NewLine}]
  BY <1>1, <1>2, <1>3
<1>5. line \in Seq(Types) /\ Len(line) = 0
  BY <1>1, EmptySeq
<1>6. EditOK
  BY <1>1, <1>3, <1>4, <1>5 DEF EditOK, LineType
<1>7. LineIsEdited
  BY <1>1, <1>5 DEF LineIsEdited
<1>8. QED
  BY <1>6, <1>7 DEF LineInv

LEMMA LineStep ==
  ASSUME ScreenOK, LineInv, [Next]_vars
  PROVE  LineInv'
<1>1. /\ reading \in BOOLEAN /\ limit \in Nat /\ length \in 0 .. limit
      /\ buffer \in [0 .. limit -> Types \cup {NewLine}] /\ written \subseteq 0 .. limit
      /\ echo \in [origin : Nat, whole : BOOLEAN] /\ line \in Seq(Types)
  BY DEF LineInv, EditOK, LineType
<1>2. length = Len(line) /\ (\A i \in 0 .. length - 1 : buffer[i] = line[i + 1])
  BY DEF LineInv, LineIsEdited
<1>3. CASE UNCHANGED editVars
  BY <1>3 DEF editVars, LineInv, EditOK, LineIsEdited, LineType
<1>4. ASSUME NEW max \in Limits, ReadString(max)
      PROVE  LineInv'
  <2>1. max \in Nat /\ max > 0
    BY TerminalAssumption
  <2>2. position \in Nat
    BY ScreenOKIsType
  <2>3. EditOK'
    BY <1>4, <2>1, <2>2, EmptySeq DEF ReadString, EditOK, LineType, Types, Shows
  <2>4. LineIsEdited'
    BY <1>4, EmptySeq DEF ReadString, LineIsEdited
  <2>5. QED
    BY <2>3, <2>4 DEF LineInv
<1>5. CASE EraseLast
  <2>1. length' = length - 1 /\ limit' = limit /\ reading' = reading /\ echo' = echo /\ reading
    BY <1>5 DEF EraseLast, LengthErased
  <2>2. /\ length \in 1 .. limit /\ buffer' = [buffer EXCEPT ![length] = Blank]
        /\ written' = written \cup {length}
        /\ line' = SubSeq(line, 1, Len(line) - 1)
    BY <1>1, <1>5 DEF EraseLast
  <2>3. line' \in Seq(Types) /\ Len(line') = length - 1
        /\ \A i \in 1 .. length - 1 : line'[i] = line[i]
    BY <1>1, <1>2, <2>2, SubSeqProperties
  <2>4. EditOK'
    <3>1. buffer' \in [0 .. limit -> Types \cup {NewLine}]
      BY <1>1, <2>2 DEF Types, Shows
    <3>2. QED
      BY <1>1, <2>1, <2>2, <2>3, <3>1 DEF EditOK, LineType
  <2>5. ASSUME NEW i \in 0 .. length - 2 PROVE buffer'[i] = line'[i + 1]
    BY <1>1, <1>2, <2>2, <2>3
  <2>6. LineIsEdited'
    BY <1>1, <2>1, <2>3, <2>5 DEF LineIsEdited
  <2>7. QED
    BY <2>4, <2>6 DEF LineInv
<1>6. CASE FinishLine
  <2>1. /\ buffer' = [buffer EXCEPT ![length] = NewLine] /\ written' = written \cup {length}
        /\ reading' = FALSE /\ limit' = limit /\ length' = length /\ line' = line
        /\ echo' = [origin |-> 0, whole |-> TRUE]
    BY <1>6 DEF FinishLine, NoEcho
  <2>2. EditOK'
    BY <1>1, <2>1 DEF EditOK, LineType
  <2>3. ASSUME NEW i \in 0 .. length - 1 PROVE buffer'[i] = line[i + 1]
    BY <1>1, <1>2, <2>1
  <2>4. LineIsEdited'
    BY <1>1, <1>2, <2>1, <2>3 DEF LineIsEdited
  <2>5. QED
    BY <2>2, <2>4 DEF LineInv
<1>7. ASSUME NEW c \in Types, AppendChar(c)
      PROVE  LineInv'
  <2>1. /\ reading /\ length < limit
        /\ buffer' = [buffer EXCEPT ![length] = c] /\ written' = written \cup {length}
        /\ length' = length + 1 /\ line' = Append(line, c)
        /\ reading' = reading /\ limit' = limit
    BY <1>7 DEF AppendChar, Accepts
  <2>2. echo' \in [origin : Nat, whole : BOOLEAN]
    <3> DEFINE s == Put(Shown, c)
               w == echo.whole /\ c # Tab /\ s.position = position + 1
    <3>1. echo' = [echo EXCEPT !.whole = w]
      BY <1>7 DEF AppendChar
    <3>2. w \in BOOLEAN
      OBVIOUS
    <3> HIDE DEF w
    <3>3. QED
      BY <1>1, <3>1, <3>2
  <2>3. line' \in Seq(Types) /\ Len(line') = length + 1 /\ line'[length + 1] = c
        /\ \A i \in 1 .. length : line'[i] = line[i]
    BY <1>1, <1>2, <2>1, AppendProperties
  <2>4. EditOK'
    <3>1. buffer' \in [0 .. limit -> Types \cup {NewLine}]
      BY <1>1, <2>1
    <3>2. length' \in 0 .. limit'
      BY <1>1, <2>1
    <3>3. QED
      BY <1>1, <2>1, <2>2, <2>3, <3>1, <3>2 DEF EditOK, LineType
  <2>5. ASSUME NEW i \in 0 .. length PROVE buffer'[i] = line'[i + 1]
    BY <1>1, <1>2, <2>1, <2>3
  <2>6. LineIsEdited'
    BY <1>1, <2>1, <2>3, <2>5 DEF LineIsEdited
  <2>7. QED
    BY <2>4, <2>6 DEF LineInv
<1>8. QED
  BY <1>3, <1>4, <1>5, <1>6, <1>7
     DEF Next, vars, PutChar, SetColumn, SetLine, Redraw, Types, Shows
-----------------------------------------------------------------------------
(* The echo: what is on the screen is the line, while it is whole. *)
EchoInv == EchoIsLine /\ EchoFits

LEMMA EchoStep ==
  ASSUME ScreenOK, LineInv, EchoInv, [Next]_vars
  PROVE  EchoInv'
<1>1. /\ reading \in BOOLEAN /\ limit \in Nat /\ length \in 0 .. limit
      /\ echo \in [origin : Nat, whole : BOOLEAN] /\ line \in Seq(Types) /\ length = Len(line)
  BY DEF LineInv, EditOK, LineType, LineIsEdited
<1>2. /\ position \in Nat /\ screen \in [Cell -> Shows]
      /\ Shown \in ScreenType /\ Near(Shown)
      /\ Shown.position = position /\ Shown.screen = screen
  BY ScreenOKIsType DEF ScreenOK, Shown
<1>3. reading /\ echo.whole =>
        /\ position = echo.origin + length
        /\ \A i \in 0 .. length - 1 : screen[echo.origin + i] = line[i + 1]
  BY DEF EchoInv, EchoIsLine
<1>4. reading /\ echo.whole /\ length > 0 => echo.origin + length <= Size
  BY DEF EchoInv, EchoFits
<1>5. CASE ~reading'
  BY <1>5 DEF EchoInv, EchoIsLine, EchoFits
<1>6. CASE UNCHANGED vars
  BY <1>6 DEF vars, screenVars, editVars, EchoInv, EchoIsLine, EchoFits
<1>7. ASSUME NEW max \in Limits, ReadString(max)
      PROVE  EchoInv'
  <2>1. length' = 0 /\ position' = position /\ echo'.origin = position
    BY <1>7 DEF ReadString, screenVars
  <2>2. QED
    BY <1>2, <2>1 DEF EchoInv, EchoIsLine, EchoFits
<1>8. CASE EraseLast
  <2>1. /\ reading /\ length \in 1 .. limit /\ length' = length - 1 /\ echo' = echo
        /\ line' = SubSeq(line, 1, Len(line) - 1)
        /\ position' = Erased(Shown).position /\ screen' = Erased(Shown).screen
    BY <1>1, <1>8 DEF EraseLast, LengthErased, Show
  <2>2. \A i \in 1 .. length - 1 : line'[i] = line[i]
    BY <1>1, <2>1, SubSeqProperties
  <2>3. SUFFICES ASSUME echo.whole
                 PROVE  /\ position' = echo.origin + (length - 1)
                        /\ \A i \in 0 .. length - 2 : screen'[echo.origin + i] = line'[i + 1]
                        /\ echo.origin + (length - 1) <= Size
    <3>1. length' = length - 1 /\ echo' = echo
      BY <2>1
    <3>2. 0 .. length' - 1 = 0 .. length - 2
      BY <1>1, <3>1
    <3>3. QED
      BY <3>1, <3>2 DEF EchoInv, EchoIsLine, EchoFits
  <2>4. position > 0 /\ position <= Size /\ position = echo.origin + length /\ echo.origin \in Nat
    BY <1>1, <1>3, <1>4, <2>1, <2>3
  <2>5. position' = position - 1 /\ screen' = [screen EXCEPT ![position - 1] = Blank]
    BY <1>2, <2>1, <2>4, ErasedFacts
  <2>6. ASSUME NEW i \in 0 .. length - 2
        PROVE  screen'[echo.origin + i] = line'[i + 1]
    <3>1. echo.origin + i \in Cell /\ echo.origin + i # position - 1
      BY <1>1, <2>1, <2>4, SizeFacts DEF Cell
    <3>2. screen'[echo.origin + i] = screen[echo.origin + i]
      BY <1>2, <2>5, <3>1
    <3>3. screen[echo.origin + i] = line[i + 1] /\ line'[i + 1] = line[i + 1]
      BY <1>1, <1>3, <2>1, <2>2, <2>3
    <3>4. QED
      BY <3>2, <3>3
  <2>7. position' = echo.origin + (length - 1) /\ echo.origin + (length - 1) <= Size
    <3> DEFINE o == echo.origin
    <3>1. o \in Nat /\ length \in Nat /\ position = o + length /\ position <= Size
      BY <1>1, <2>4
    <3>2. position' = position - 1
      BY <2>5
    <3> HIDE DEF o
    <3>3. position' = o + (length - 1) /\ o + (length - 1) <= Size
      BY <3>1, <3>2, SizeFacts
    <3>4. QED
      BY <3>3 DEF o
  <2>8. QED
    BY <2>6, <2>7
<1>9. ASSUME NEW c \in Types, AppendChar(c)
      PROVE  EchoInv'
  <2> DEFINE s == Put(Shown, c)
             w == echo.whole /\ c # Tab /\ s.position = position + 1
  <2>1. /\ reading /\ length' = length + 1 /\ line' = Append(line, c)
        /\ position' = s.position /\ screen' = s.screen
        /\ echo' = [echo EXCEPT !.whole = w]
    BY <1>9 DEF AppendChar, Show
  <2>2. w \in BOOLEAN
    OBVIOUS
  <2>3. echo'.origin = echo.origin /\ echo'.whole = w
    <3> HIDE DEF w
    <3>1. QED
      BY <1>1, <2>1, <2>2
  <2>4. Len(line') = length + 1 /\ line'[length + 1] = c
        /\ \A i \in 1 .. length : line'[i] = line[i]
    BY <1>1, <2>1, AppendProperties
  <2>5. SUFFICES ASSUME w
                 PROVE  /\ position' = echo.origin + (length + 1)
                        /\ \A i \in 0 .. length : screen'[echo.origin + i] = line'[i + 1]
                        /\ echo.origin + (length + 1) <= Size
    <3> HIDE DEF w
    <3>1. QED
      BY <1>1, <2>1, <2>3 DEF EchoInv, EchoIsLine, EchoFits
  <2>6. echo.whole /\ c \in Shows /\ s.position = position + 1
    BY <1>9, <2>5 DEF Types
  <2>7. s = Written(Shown, c)
    BY <1>2, <2>6, PutFacts DEF Types
  <2> HIDE DEF s, w
  <2>8. position < Size
    <3>1. CASE position >= Size
      <4>1. Written(Shown, c).position = LastLine
        BY <1>2, <2>6, <3>1, WrittenFacts
      <4>2. QED
        BY <1>2, <2>6, <2>7, <3>1, <4>1, SizeFacts
    <3>2. QED
      BY <1>2, <3>1, SizeFacts
  <2>9. position' = position + 1 /\ screen' = [screen EXCEPT ![position] = c]
    BY <1>2, <2>1, <2>6, <2>7, <2>8, WrittenFacts
  <2>10. position = echo.origin + length /\ echo.origin \in Nat
    BY <1>1, <1>3, <2>1, <2>6
  <2>11. ASSUME NEW i \in 0 .. length
         PROVE  screen'[echo.origin + i] = line'[i + 1]
    <3>1. CASE i = length
      <4>1. echo.origin + i = position /\ position \in Cell
        BY <1>1, <1>2, <2>8, <2>10, <3>1, SizeFacts DEF Cell
      <4>2. QED
        BY <1>2, <2>4, <2>9, <3>1, <4>1
    <3>2. CASE i < length
      <4>1. echo.origin + i \in Cell /\ echo.origin + i # position
        BY <1>1, <2>8, <2>10, <3>2, SizeFacts DEF Cell
      <4>2. screen'[echo.origin + i] = screen[echo.origin + i]
        BY <1>2, <2>9, <4>1
      <4>3. screen[echo.origin + i] = line[i + 1] /\ line'[i + 1] = line[i + 1]
        BY <1>1, <1>3, <2>1, <2>4, <2>6, <3>2
      <4>4. QED
        BY <4>2, <4>3
    <3>3. QED
      BY <1>1, <3>1, <3>2
  <2>12. QED
    BY <1>1, <2>8, <2>9, <2>10, <2>11, SizeFacts
<1>10. QED
  BY <1>5, <1>6, <1>7, <1>8, <1>9
     DEF Next, PutChar, SetColumn, SetLine, Redraw, FinishLine, editVars, Types, Shows

-----------------------------------------------------------------------------
Inductive == ScreenOK /\ LineInv /\ EchoInv

LEMMA InductiveInvariant == Spec => []Inductive
<1>1. Init => Inductive
  <2>1. Init => EchoInv
    BY DEF Init, EchoInv, EchoIsLine, EchoFits
  <2>2. QED
    BY <2>1, ScreenInit, LineInit DEF Inductive
<1>2. Inductive /\ [Next]_vars => Inductive'
  BY ScreenStep, LineStep, EchoStep DEF Inductive
<1>3. QED
  BY <1>1, <1>2, PTL DEF Spec

(* The cursor, the cells, the caller's buffer and the line editor's counts *)
(* keep their types; the buffer is never written behind maxLength.         *)
THEOREM TypeCorrect == Spec => []TypeOK
<1>1. Inductive => TypeOK
  BY ScreenOKIsType DEF Inductive, LineInv, EditOK, TypeOK, Types, Shows
<1>2. QED
  BY <1>1, InductiveInvariant, PTL

(* The cursor never gets further than a line behind the screen. *)
THEOREM CursorNearScreenAlways == Spec => []CursorNearScreen
<1>1. Inductive => CursorNearScreen
  BY ScreenOKIsType DEF Inductive
<1>2. QED
  BY <1>1, InductiveInvariant, PTL

(* The caller's buffer holds the line as it was edited. *)
THEOREM LineIsEditedAlways == Spec => []LineIsEdited
<1>1. Inductive => LineIsEdited
  BY DEF Inductive, LineInv
<1>2. QED
  BY <1>1, InductiveInvariant, PTL

(* The screen shows the line being edited where it began. *)
THEOREM EchoIsLineAlways == Spec => []EchoIsLine
<1>1. Inductive => EchoIsLine
  BY DEF Inductive, EchoInv
<1>2. QED
  BY <1>1, InductiveInvariant, PTL
=============================================================================
