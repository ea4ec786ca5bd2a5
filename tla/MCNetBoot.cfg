SPECIFICATION Spec
CONSTANTS
  Conns = {c1, c2}
  PageLen = 2
  SndBuf = 1
  Lengths = {2}
  Chunks = {1, 2}
  MaxLines = 6
  MaxOver = 1
  Scenes = {"careful", "rough"}
  MaxPost = 3
INVARIANTS
  BootsUndisturbedUploads
  FilesNotMixedUp
  NextStepPage
  StateFreedOnce
PROPERTY
  AnsweredEnds
CHECK_DEADLOCK FALSE
