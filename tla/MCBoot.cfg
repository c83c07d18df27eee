SPECIFICATION BootSpec
CONSTANTS
  Word = 144
  RawMaps <- MCRawMaps
  ExtraRegions <- MCExtraRegions
  TableAddress = 3
  EntrySize = 1
  FrameSize = 4
  DescriptorSize = 1
  Firmwares <- MCFirmwares
  LastPlace = 3
  MaxWalk = 3
  MaxTries = 2
  Machines <- MCMachines
  BusesCount = 3
  DevicesPerBus = 3
  FunctionsCount = 2
  MaxDepth = 6
  Drives <- MCDrives
  MaxSectorsPerOperation = 2
  WordsPerSector = 2
  Sectors <- MCSectors
  Counts = {0, 2, 3}
  Devices <- MCDevices
  CountAllocate = 2
  MaxDevicesCount = 4
  Bootable <- MCBootable
  Texts <- MCTexts
INVARIANTS
  RegionsAreSound
  FramesFitLongerRegion
  TablesAreUsed
  BusesAreWalked
  TransfersAreSound
  LettersAreKept
  ConfigurationIsRead
PROPERTIES
  CommandsReachIdleDrives
  BootEnds
\* every stage is over at some time
CHECK_DEADLOCK FALSE
