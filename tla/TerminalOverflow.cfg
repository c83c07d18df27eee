SPECIFICATION Spec
CONSTANTS
  Width = 4
  Height = 2
  TabulationLength = 2
  Character = {a}
  Blank = Blank
  Tab = Tab
  NewLine = NewLine
  Carret = Carret
  Backspace = Backspace
  Limits = {1, 3}
INVARIANTS
  StaysOnScreen
