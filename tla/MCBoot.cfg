SPECIFICATION FairSpec
CONSTANTS
  b = b
  a1 = a1
  a2 = a2
  u = u
  Cpus <- MCCpus
  Bsp = b
  Madts <- MCMadts
  MAX_PCPU_ENTRIES = 3
  CONSOLE_MAX_CPU = 2
  MaxTime = 1
INVARIANTS
  InterruptsFindIdt
  DistinctVcpus
  OnlyUnlistedPark
  OnlyMachineFailures
PROPERTIES
  BarriersSpec
  BootCompletes
CHECK_DEADLOCK FALSE
