SPECIFICATION Spec
CONSTANTS
  Conns = {c1, c2}
  PageLen = 2
  SndBuf = 1
  Lengths = {0, 2}
  Chunks = {1, 3}
  MaxLines = 6
  MaxOver = 1
  MaxBuffers = 2
SYMMETRY Symmetry
INVARIANTS
  FlashesWholeImage
  AnswerMatchesDecision
  BuffersAccounted
  CallbacksHaveState
CHECK_DEADLOCK FALSE
