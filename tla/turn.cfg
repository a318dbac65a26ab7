CONSTANTS
  None = None
  MaxSteps = 12
SPECIFICATION Spec
INVARIANTS
  OwnersFollowThePlan
  RefundOnlyWhenCleared
  PromisesKept
  NothingAfterDecision
