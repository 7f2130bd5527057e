SPECIFICATION KernelSpec
CONSTANTS
  PageSize = 2
  PageFrameCount = 13
  ReserveFrames = 1
  MemoryBase = 2
  WordSize = 64
  HardwareRegions <- MCHardwareRegions
  MaxVMPageMappings = 4
  UserStackTop = 8
  UserStackPages = 4
  UserTrapPage = 9
  NPROC = 2
  PidLimit = 4
  ExitStatuses = {0}
  UserPages = {}
  MaxRuntimeHeapAllocs = 2
  HeapSizes <- MCHeapSizes
  HeapAddresses <- MCHeapAddresses
INVARIANTS
  MemoryAccounted
  OnlyDeclaredPanics
  HeapCovers
CHECK_DEADLOCK FALSE
