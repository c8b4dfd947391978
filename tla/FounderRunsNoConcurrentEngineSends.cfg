SPECIFICATION Spec
CONSTANTS
  Sessions = {s1}
  MaxRuns = 2
  MaxEvents = 3
INVARIANT NoConcurrentEngineSends
CHECK_DEADLOCK FALSE
