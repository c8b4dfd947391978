SPECIFICATION Spec
CONSTANTS
  Runners = {a}
  Readers = {}
  Sockets = {s1, s2, s3}
  RetryLimit = 1
  None = None

INVARIANT OneRunPerCall
CHECK_DEADLOCK FALSE
