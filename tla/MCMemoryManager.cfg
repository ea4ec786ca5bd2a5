SPECIFICATION HeapSpec
CONSTANTS
  NumEntries = 9
  TableSize = 16
  MaxFailed = 1
  Requests <- MCRequests
INVARIANTS
  BlocksDisjoint
  MarksIntact
  NothingElseLost
PROPERTY
  RequestCovered
CHECK_DEADLOCK FALSE
