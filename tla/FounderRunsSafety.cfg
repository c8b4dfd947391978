SPECIFICATION Spec
CONSTANTS
  Sessions = {s1, s2}
  MaxRuns = 3
  MaxEvents = 3
INVARIANTS
  TypeOK
  LogAgreesWithStatus
PROPERTIES
  CompletedIsFinal
  CancelledInQueueNeverRuns
  ImplementsSessionQueue
SYMMETRY SessionSymmetry
CHECK_DEADLOCK FALSE
