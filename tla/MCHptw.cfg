CONSTANTS
  MaxLvl = 3
  Fanout = 2
  PageLvls = {1, 2}
  PoolSize = 2
  Frames = {0}
  Ept = TRUE
  Prots <- MCProts
SPECIFICATION Spec
INVARIANTS
  WalkerRight
PROPERTIES
  EntriesKept
  ImplementsPageMap
CHECK_DEADLOCK FALSE
