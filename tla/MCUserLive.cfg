SPECIFICATION FairSpec
CONSTANTS
  Cpus = {c1, c2}
  PalAvailable = 1
  Options <- MCLive
  PalMayFail = TRUE
PROPERTIES
  PalsGoOn
CHECK_DEADLOCK FALSE
