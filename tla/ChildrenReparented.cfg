SPECIFICATION Spec
CONSTANTS
  PageSize = 1
  PageFrameCount = 15
  ReserveFrames = 1
  MemoryBase = 0
  WordSize = 64
  HardwareRegions <- MCHardwareRegions
  MaxVMPageMappings = 4
  UserStackTop = 8
  UserStackPages = 4
  UserTrapPage = 9
  NPROC = 3
  PidLimit = 5
  ExitStatuses = {0}
  UserPages <- MCUserPages
INVARIANT ChildrenReparented
CHECK_DEADLOCK FALSE
