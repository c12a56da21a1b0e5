CONSTANTS
  MaxPrints = 1
  MaxTicks = 0
  MaxBytes = 1
  MaxInj = 0
  MaxSpurious = 0
SPECIFICATION Spec
PROPERTIES
  PrintfReturns
CHECK_DEADLOCK FALSE
