SPECIFICATION Spec
CONSTANTS
  N = 4
  ClusterSize = 2
  Paths <- MCPaths
  TooLong = {"long"}
  Disks <- MCDisks
  Junk <- MCJunk
INVARIANTS
  StaysInBuffer
  FindsTheFile
  LoadsTheFile
PROPERTY
  Terminates
CHECK_DEADLOCK FALSE
