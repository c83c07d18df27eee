SPECIFICATION ServicesSpec
CONSTANTS
  LastFrame = 20
  MaxPages = 2
  Elsewhere <- MCElsewhere
  MaxForgotten = 4
  MaxCommands = 2
  CurrentPaths <- MCCurrentPaths
  RawPaths <- MCRawPaths
  WRONG_INDEX = WRONG_INDEX
  Objects = {"a", "b"}
  Values = {"u", "v"}
  CountAllocate = 2
  MaxBlocks = 3
  MaxElements = 6
  Size = 8
  Bytes = {0, 1}
INVARIANTS
  MemoryIsReturned
  StrayWritesAreKnown
  PathsAreResolved
  ListsAreKept
PROPERTIES
  PathsReturnUnlessRoot
  BlocksAreHandled
\* The model of the shell stops when memory has been written by mistake,
\* and the paths end.
CHECK_DEADLOCK FALSE
