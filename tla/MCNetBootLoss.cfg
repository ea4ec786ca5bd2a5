SPECIFICATION Spec
CONSTANTS
  Conns = {c1}
  PageLen = 2
  SndBuf = 1
  Lengths = {2}
  Chunks = {1, 2}
  MaxLines = 3
  MaxOver = 0
  Scenes = {"careful"}
  MaxPost = 4
INVARIANT
  BootsSelectedFiles
CHECK_DEADLOCK FALSE
