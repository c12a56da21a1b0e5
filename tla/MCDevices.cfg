CONSTANTS
  MaxPrints = 1
  MaxTicks = 1
  MaxBytes = 2
  MaxInj = 1
  MaxSpurious = 1
  CONSOLE_WIDTH = 6
  CONSOLE_HEIGHT = 5
  CONSOLE_MAX_CPU = 2
  NumCpus = 2
  Art = TRUE
  DEBUG_VGA = FALSE
  MaxUpdates = 4
  MaxChars = 0
SPECIFICATION DeviceSpec
INVARIANTS
  LinesWhole
  InServiceIsHandled
  ScreenShows
  TextShows
PROPERTIES
  ShotIsLast
  PrintfReturnsOrLost
  
  MouseRight
CHECK_DEADLOCK FALSE
