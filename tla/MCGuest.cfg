SPECIFICATION FairSpec
CONSTANTS
  Options <- MCOptions
  EptCount = 2
  EptSub = 2
  VpidCount = 8
INVARIANTS
  TypeOK
  TestsPass
  NoStaleMapping
  CleanIteration
PROPERTIES
  IterationsGoOn
