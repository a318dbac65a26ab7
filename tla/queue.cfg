CONSTANTS
  Msg = {m1, m2, m3}
  MaxAttempts = 2
  BatchLimit = 1
SPECIFICATION FairQueueSpec
INVARIANTS
  HandledAtMostOnce
  RetryBudget
PROPERTIES
  DoneIsFinal
  EveryMessageSettles
CHECK_DEADLOCK FALSE
