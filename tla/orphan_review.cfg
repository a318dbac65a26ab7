CONSTANTS
  Order = {o1}
  Review = {r1}
  Msg = {m1}
  MaxAttempts = 1
  BatchLimit = 1
SPECIFICATION Spec
INVARIANT
  CancelledRefundHasNoPendingReview
CHECK_DEADLOCK FALSE
