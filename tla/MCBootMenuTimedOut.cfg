SPECIFICATION Spec
CONSTANTS
  Media <- MCMedia
  Consoles <- MCConsoles
  Discs <- MCDiscs
  Bays = 2
  Rows = 2
  OtherItems = 2
  WebMenus = 2
  TimeWait = 1
INVARIANT TimedOutMeansAutomatic
CHECK_DEADLOCK FALSE
