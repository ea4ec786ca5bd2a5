SPECIFICATION Spec
CONSTANTS
  Buses <- MCBuses
  Byte = 3
  Nibble = 2
  MaxCuts = 2
  MaxFaults = 1
INVARIANTS
  OpensAtBoot
  LockIsRecoverable
  ReadsRequestedBlock
CHECK_DEADLOCK FALSE
