SPECIFICATION Spec
CONSTANTS
  MaxInodes = 7
  MaxDirEntries = 4
  MaxFileBytes = 2
  ZeroByte = zero
  Procs = {1}
  MaxOpenFiles = 2
  MaxSyscallIOBytes = 2
  OpenPaths <- DevicePaths
  NamePaths <- FileNames
  OpenFlags <- DeviceFlags
  Counts = {0, 1, 3}
  TextSizes = {1, 3}
  Radix = 2
  TickLimit = 2
  SinkLimit = 1
  InodeIDLimit = 9
INVARIANTS
  TypeOK
  FilesKeepApart
PROPERTIES
  ErrorsChangeNothing
CHECK_DEADLOCK FALSE
