SPECIFICATION Spec
CONSTANTS
  Body <- MCBody
  Legal = {2, 4}
  Pcbs = 2
  MaxSeg = 11
INVARIANTS
  BootsWholeFiles
  FlashesWholeBios
  OnlyBodyBytes
  PointersOwnTheirBlocks
PROPERTY
  Finishes
CHECK_DEADLOCK FALSE
