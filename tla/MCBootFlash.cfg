SPECIFICATION Spec
CONSTANTS
  Bits = {1, 2}
  ChipLength = 6
  SectorSize = 2
  BlockSize = 4
  UpdateEvery = 2
  Regions <- MCRegions
  Images <- MCImages
  Contents <- MCContents
  Chips <- MCChips
  Callbacks <- MCCallbacks
INVARIANTS
  RebootOnlyWithImage
  FootprintMinimal
  EraseAttemptsBounded
  EndFollowsStart
PROPERTIES
  KeepsPromise
  GoodChipCompletes
CHECK_DEADLOCK FALSE
