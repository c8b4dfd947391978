SPECIFICATION FairSpec
CONSTANTS
  Sessions = {s1}
  MaxRuns = 3
  MaxEvents = 3
PROPERTIES
  EveryRunSettles
CHECK_DEADLOCK FALSE
