SPECIFICATION HeapSpec
CONSTANTS
  NumEntries = 9
  TableSize = 16
  MaxFailed = 1
  Requests <- MCRequests
INVARIANT
  BlocksInsideRegion
CHECK_DEADLOCK FALSE
