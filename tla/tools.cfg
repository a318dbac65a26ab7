CONSTANTS
  None = None
  Call = {r1, w1, w2}
  Reading = {r1}
  Writing = {w1, w2}
  OutOfScope = {w2}
  WorkerLimit = 2
  MaxAttempts = 2
SPECIFICATION FairSpec
INVARIANTS
  SlotsAccounted
  SideEffectOnce
  AnswerOfLastAttempt
PROPERTIES
  EveryCallAnswered
CHECK_DEADLOCK FALSE
