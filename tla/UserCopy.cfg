SPECIFICATION Spec
CONSTANTS
  PageSize = 2
  PageFrameCount = 8
  ReserveFrames = 1
  MemoryBase = 0
  WordSize = 12
  HardwareRegions <- CopyHardwareRegions
  MaxVMPageMappings = 3
  UserStackTop = 5
  UserStackPages = 2
  UserTrapPage = 5
  Procs = {p1, p2}
  DataPages = {1, 2}
  Payloads <- CopyPayloads
  Counts = {0, 3}
  MaxPathLength = 3
SYMMETRY CopySymmetry
INVARIANTS
  PagesAccounted
  CopyoutPrefix
  CopyinExact
  StringsEndAtZero
CHECK_DEADLOCK FALSE
