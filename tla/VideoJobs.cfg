SPECIFICATION FairSpec
CONSTANTS
  Workers = {w1, w2}
  Requests = {r1}
  Keys = {k1}
  LeaseTime = 1
  TimeoutTime = 1
  MaxNow = 2
  MaxCrashes = 1
  MaxAbandoned = 1
INVARIANTS
  TypeOK
  CompletedHasResult
  
PROPERTIES
  
  EveryJobSettles
CHECK_DEADLOCK FALSE
