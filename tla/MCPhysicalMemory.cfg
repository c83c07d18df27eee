SPECIFICATION Spec
CONSTANTS
  Word = 64
  Frames = 7
  RegionOf <- MCRegionOf
  FrameSize = 4
  Requests = {0, 4, 9}
  NoFrame = NoFrame
INVARIANTS
  BlocksAreDisjoint
  NoFrameLost
PROPERTIES
  ImplementsAllocator
