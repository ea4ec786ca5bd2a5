SPECIFICATION Spec
CONSTANTS
  Addrs = {a1, a2}
  Leases <- MCLeases
  FineMsecs = 10000
  TimerRange = 3
  TriesRange = 11
  CoarseTicks = 1
  Tools = {"netflash"}
  ResetPresses = 0
  MaxReplies = 2
INVARIANTS
  FallbackIsFinal
  WillAskAgain
PROPERTIES
  StartsWithAddress
  Starts
CHECK_DEADLOCK FALSE
