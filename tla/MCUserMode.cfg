SPECIFICATION Spec
CONSTANTS
  Cpus = {c1, c2, c3}
  PalAvailable = 2
  Options <- MCOptions
  PalMayFail = TRUE
SYMMETRY Symmetry
INVARIANTS
  TypeOK
  Exclusion
  TableInUseComplete
  MtrrBeforePal
PROPERTIES
  SemaphoreSpec
  FrozenStopsPals
CHECK_DEADLOCK FALSE
