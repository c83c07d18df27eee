SPECIFICATION Spec
CONSTANTS
  Word = 144
  RawMaps <- MCRawMaps
  ExtraRegions <- MCExtraRegions
  TableAddress = 3
  EntrySize = 1
  FrameSize = 4
  DescriptorSize = 1
INVARIANT
  FramesFitRegion
CHECK_DEADLOCK FALSE
