SPECIFICATION FairSpec
CONSTANTS
  Runners = {a}
  Readers = {r}
  Sockets = {s1, s2}
  RetryLimit = 1
  None = None

INVARIANTS TypeOK OneConnect AnswersMatch FreshChallenge NobodyForgotten
PROPERTY EveryCallSettles
CHECK_DEADLOCK FALSE
