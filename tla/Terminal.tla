------------------------------- MODULE Terminal -------------------------------
(***************************************************************************)
(* The text screen, library/terminal/terminal.cxx: the cursor, the cells   *)
(* it writes, scrolling, and the line editor ReadString on top of them.    *)
(*                                                                         *)
(* A cell is two bytes of video memory, character and colour; positions    *)
(* here count cells.  Colours and the wording of formats are left out, and *)
(* a space and a zero are both Blank.  PutString and the format functions  *)
(* put one character after another, and nothing comes between them.        *)
(***************************************************************************)
EXTENDS Integers, Sequences

CONSTANTS
  Width, Height,      \* of the screen, in cells
  TabulationLength,
  Character,          \* characters that show
  Blank,
  Tab, NewLine, Carret, Backspace,
  Limits              \* what ReadString is called with as maxLength

ASSUME TerminalAssumption ==
  /\ Width \in Nat \ {0} /\ Height \in Nat \ {0, 1} /\ TabulationLength \in 1 .. Width
  /\ Limits \subseteq Nat \ {0}
  /\ Blank \notin Character
  /\ {Tab, NewLine, Carret, Backspace} \cap (Character \cup {Blank}) = {}

(* Backspace is told from the other control characters, and they from each *)
(* other, by the conditionals of PutChar.                                  *)
ASSUME ControlAssumption ==
  /\ Tab \notin {NewLine, Carret, Backspace}
  /\ NewLine \notin {Carret, Backspace} /\ Carret # Backspace

Size == Width * Height          \* BufferSize
LastLine == (Height - 1) * Width
Cell == 0 .. Size - 1
Column(p) == p % Width

VARIABLES
  position,   \* Position_
  screen,     \* Buffer_
  outside,    \* history: cells beyond the screen that have been written
  reading,    \* in ReadString
  limit, buffer, length,     \* its maxLength, the caller's buffer, length
  line,       \* history: the line as the user would expect it
  written,    \* history: the offsets of the buffer written
  echo        \* history: where the line starts on the screen, and whether it
              \* is still all there: no tab, no scrolling

screenVars == <<position, screen, outside>>
editVars   == <<reading, limit, buffer, length, line, written, echo>>
vars       == <<screenVars, editVars>>

-----------------------------------------------------------------------------
(* PutChar maps a cursor and a screen to the next. *)
Shown == [position |-> position, screen |-> screen, outside |-> outside]

Raised(s) == [s EXCEPT !.position = LastLine,
  !.screen = [c \in Cell |-> IF c + Width < Size THEN @[c + Width] ELSE Blank]]

(* The cursor after a tabulation or a new line. *)
Advanced(s, p) ==
  IF p < Size THEN [s EXCEPT !.position = p] ELSE Raised(s)

(* A character that shows.  It is written before the cursor is looked at. *)
Written(s, character) ==
  IF s.position < Size
    THEN [s EXCEPT !.position = @ + 1, !.screen[s.position] = character]
    ELSE Raised([s EXCEPT !.outside = @ \cup {s.position}])

Put(s, character) ==
  CASE character = Tab       -> Advanced(s, s.position + TabulationLength - (Column(s.position) % TabulationLength))
    [] character = NewLine   -> Advanced(s, s.position + Width)
    [] character = Carret    -> [s EXCEPT !.position = @ - Column(@)]
    [] character = Backspace -> IF s.position > 0 THEN [s EXCEPT !.position = @ - 1] ELSE s
    [] OTHER                 -> Written(s, character)

Show(s) == position' = s.position /\ screen' = s.screen /\ outside' = s.outside

PutChar(character) ==
  /\ ~reading
  /\ Show(Put(Shown, character))
  /\ UNCHANGED editVars

(* The column is set in the line of the cursor, wherever that is. *)
SetColumn(index) ==
  /\ ~reading /\ index < Width
  /\ position' = position - Column(position) + index
  /\ UNCHANGED <<screen, outside, editVars>>

(* The line is added to the offset, not to the column, of the cursor. *)
LineSet_Mutant(index) == position + index * Width

LineSet(index) == Column(position) + index * Width

SetLine(index) ==
  /\ ~reading /\ index < Height
  /\ position' = LineSet(index)
  /\ UNCHANGED <<screen, outside, editVars>>

Redraw ==
  /\ ~reading
  /\ screen' = [c \in Cell |-> Blank]
  /\ UNCHANGED <<position, outside, editVars>>

-----------------------------------------------------------------------------
(* ReadString runs to its end before anything else is printed: task        *)
(* switching is off.  The buffer's contents before the call do not matter. *)
ReadString(max) ==
  /\ ~reading
  /\ reading' = TRUE
  /\ limit' = max /\ length' = 0
  /\ buffer' = [i \in 0 .. max |-> Blank]
  /\ line' = <<>> /\ written' = {}
  /\ echo' = [origin |-> position, whole |-> TRUE]
  /\ UNCHANGED screenVars

(* The cursor stays behind the blank. *)
Erased_Mutant(s) ==
  IF s.position > 0 THEN Written([s EXCEPT !.position = @ - 1], Blank) ELSE s

(* The cursor goes back, over a blank, and back again. *)
Erased(s) ==
  IF s.position > 0
    THEN LET t == Written([s EXCEPT !.position = @ - 1], Blank)
         IN  [t EXCEPT !.position = @ - 1]
    ELSE s

Accepts == length < limit

(* The last character is kept in the buffer and the one before goes. *)
LengthErased_Mutant == length

LengthErased == length - 1

EraseLast ==
  /\ reading /\ length > 0
  /\ buffer'  = [buffer EXCEPT ![length] = Blank]
  /\ written' = written \cup {length}
  /\ length'  = LengthErased
  /\ line'    = SubSeq(line, 1, Len(line) - 1)
  /\ Show(Erased(Shown))
  /\ UNCHANGED <<reading, limit, echo>>

NoEcho == [origin |-> 0, whole |-> TRUE]

FinishLine ==
  /\ reading
  /\ buffer'  = [buffer EXCEPT ![length] = NewLine]    \* the terminating zero
  /\ written' = written \cup {length}
  /\ reading' = FALSE
  /\ Show(Put(Put(Shown, Carret), NewLine))
  /\ echo' = NoEcho
  /\ UNCHANGED <<limit, length, line>>

(* Tabulations are part of the line, as one character. *)
AppendChar(character) ==
  LET s == Put(Shown, character)
  IN  /\ reading /\ Accepts
      /\ buffer'  = [buffer EXCEPT ![length] = character]
      /\ written' = written \cup {length}
      /\ length'  = length + 1
      /\ line'    = Append(line, character)
      /\ Show(s)
      /\ echo' = [echo EXCEPT !.whole = @ /\ character # Tab /\ s.position = position + 1]
      /\ UNCHANGED <<reading, limit>>

Init ==
  /\ position = 0 /\ screen = [c \in Cell |-> Blank] /\ outside = {}
  /\ reading = FALSE /\ limit = 0 /\ buffer = [i \in {0} |-> Blank] /\ length = 0
  /\ line = <<>> /\ written = {} /\ echo = NoEcho

Next ==
  \/ \E c \in Character \cup {Blank, Tab, NewLine, Carret, Backspace} : PutChar(c)
  \/ \E index \in 0 .. Width - 1 : SetColumn(index)
  \/ \E index \in 0 .. Height - 1 : SetLine(index)
  \/ Redraw
  \/ \E max \in Limits : ReadString(max)
  \/ EraseLast
  \/ FinishLine
  \/ \E c \in Character \cup {Blank, Tab} : AppendChar(c)

Spec == Init /\ [][Next]_vars

-----------------------------------------------------------------------------
TypeOK ==
  /\ position \in Nat
  /\ screen \in [Cell -> Character \cup {Blank}]
  /\ outside \subseteq Nat
  /\ reading \in BOOLEAN /\ limit \in Nat /\ length \in 0 .. limit
  /\ buffer \in [0 .. limit -> Character \cup {Blank, Tab, NewLine}]
  /\ written \subseteq 0 .. limit
  /\ echo \in [origin : Nat, whole : BOOLEAN]

(* The cursor leaves the screen by at most a line: whatever is printed and *)
(* set, it is on the screen or in the line behind it.                      *)
CursorNearScreen == position < Size + Width

(* Nothing is written behind the last cell of the buffer, as its size      *)
(* declares.  The code writes the character first and then looks.          *)
StaysOnScreen == outside = {}

(* The caller's buffer holds the line as the user edited it, its zero      *)
(* right behind it, and is written up to the offset maxLength at most.     *)
LineIsEdited ==
  /\ length = Len(line)
  /\ \A i \in 0 .. length - 1 : buffer[i] = line[i + 1]
  /\ ~reading /\ written # {} => buffer[length] = NewLine

(* While a line is edited the screen shows it, from where the cursor was,  *)
(* and the cursor is behind it - as long as it contains no tabulation,     *)
(* which is erased as one cell, and does not reach the screen's end, where *)
(* a character is lost.                                                    *)
EchoIsLine ==
  reading /\ echo.whole =>
    /\ position = echo.origin + length
    /\ \A i \in 0 .. length - 1 : screen[echo.origin + i] = line[i + 1]
=============================================================================
