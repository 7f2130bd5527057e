SPECIFICATION Spec
CONSTANTS
  PageSize = 2
  PageFrameCount = 11
  ReserveFrames = 3
  MemoryBase = 8
  WordSize = 64
  HardwareRegions <- MCHardwareRegions
  BootSizes = {1, 2, 3, 5}
  PageCounts = {0, 1, 2, 3, 5}
  Addresses <- MCAddresses
INVARIANTS
  TypeOK
  NeverReserved
  BootPagesKept
PROPERTIES
  BootRetired
  ImplementsPagePool
CHECK_DEADLOCK FALSE
