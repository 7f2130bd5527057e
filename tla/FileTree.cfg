SPECIFICATION Spec
CONSTANTS
  MaxInodes = 8
  MaxDirEntries = 4
  MaxFileBytes = 1
  ZeroByte = zero
  Procs = {1}
  MaxOpenFiles = 1
  MaxSyscallIOBytes = 2
  OpenPaths <- TreePaths
  NamePaths <- TreePaths
  OpenFlags <- TreeFlags
  Counts = {}
  TextSizes = {}
  Radix = 10
  TickLimit = 0
  SinkLimit = 0
  InodeIDLimit = 10
INVARIANTS
  LinksCounted
  TreeRooted
  DescriptorsSafe
PROPERTIES
  ImplementsNamespace
CHECK_DEADLOCK FALSE
