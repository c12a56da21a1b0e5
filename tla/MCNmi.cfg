SPECIFICATION FairSpec
CONSTANTS
  interrupt_period = 5
  Lag = 2
  FirstTickInHlt = TRUE
  ExpMask <- AllExperiments
INVARIANTS
  TypeOK
  TestsPass
  InterruptHitsHlt
  CleanBoundary
PROPERTIES
  ExperimentsEnd
CHECK_DEADLOCK FALSE
