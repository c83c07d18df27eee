SPECIFICATION Spec
CONSTANTS
  Word = 64
  Directory = {k, t}
  Tables = 2
  Pages = 3
  Frame = {f1, f2, f3, f4, f5, f6, f7}
  NoFrame = NoFrame
  NoTable = NoTable
  Stale = Stale
  FrameSize = 4
  Requests = {0, 4, 9}
  Reserved = {0, 1}
  Programs <- MCPrograms
INVARIANTS
  FramesAreKept
  BlocksIntact
  SearchWithinTable
PROPERTIES
  ProgramIsMapped
CHECK_DEADLOCK FALSE
VIEW MCView
