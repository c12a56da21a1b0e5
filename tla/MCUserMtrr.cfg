SPECIFICATION Spec
CONSTANTS
  Cpus = {c1, c2}
  PalAvailable = 2
  Options <- MCNestedMsr
  PalMayFail = FALSE
INVARIANTS
  MtrrBeforePal
CHECK_DEADLOCK FALSE
