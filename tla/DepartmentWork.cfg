SPECIFICATION FairSpec
CONSTANTS
  Calls = {c1, c2, c3}
  Cap = 1
  Parallel = 2
  TimeoutTime = 0
  MaxNow = 1
  MaxCrashes = 1
  MaxBoots = 1
INVARIANTS
  TypeOK
  CompletedHasResult
  ToldTheTruth
  OvershootBounded
PROPERTY EveryTaskSettles
CHECK_DEADLOCK FALSE
