SPECIFICATION Spec
CONSTANTS
  Trees <- MCTrees
  Paths <- MCPaths
  DataSize = 3
  NextSize = 1
  PartitionName = "base"
  NameLength <- MCNameLength
  Offsets = {0, 1, 4}
  Counts = {0, 2}
  None = None
  Root = Root
INVARIANTS
  IDsRepeatBehindDeepDirectories
  LookupsAreKnown
  ReadReturnsFile
  ListingIsDirectory
