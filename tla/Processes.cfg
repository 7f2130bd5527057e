SPECIFICATION FairSpec
CONSTANTS
  PageSize = 1
  PageFrameCount = 15
  ReserveFrames = 1
  MemoryBase = 0
  WordSize = 64
  HardwareRegions <- MCHardwareRegions
  MaxVMPageMappings = 4
  UserStackTop = 8
  UserStackPages = 4
  UserTrapPage = 9
  NPROC = 3
  PidLimit = 5
  ExitStatuses = {0}
  UserPages <- MCStackPages
INVARIANTS
  TypeOK
  OneRunning
  PidsUnique
  NoLostWakeup
  NoStuckSleeper
  PageOwnership
  Isolation
  NoInternalPanic
PROPERTIES
  NoStarvation
  ImplementsProcessLife
CHECK_DEADLOCK FALSE
