SPECIFICATION Spec
CONSTANTS
  MaxInodes = 10
  MaxDirEntries = 5
  MaxFileBytes = 8
  ZeroByte = ""
  Lines <- ShellLines
  InitLines <- InitShellLines
  Split <- ShellSplit
  Pids <- ShellPids
  SortedNames <- ShellNames
  Programs <- ShellPrograms
  Script <- ShellScript
  DepthLimit = 2
PROPERTIES
  RedirectFaithful
  OnlyTargetWritten
