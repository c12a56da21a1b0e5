SPECIFICATION FairSpec
CONSTANTS
  interrupt_period = 5
  Lag = 1
  FirstTickInHlt = FALSE
  ExpMask <- AllExperiments
INVARIANTS
  InterruptHitsHlt
CHECK_DEADLOCK FALSE
