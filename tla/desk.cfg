CONSTANTS
  Order = {o1}
  Review = {r1, r2}
  Msg = {m1, m2, m3}
  MaxAttempts = 2
  BatchLimit = 2
SPECIFICATION Spec
INVARIANTS
  TypeOK
  StatusFollowsShipping
  ProcessedOnlyWithApproval
  QueuedKeepsItsEvent
  OnePendingRefundReview
  AtMostTwoEvents
PROPERTIES
  TerminalIsFinal
  QueueUsedAsSpecified
CONSTRAINT DeskBound
SYMMETRY Symmetric
CHECK_DEADLOCK FALSE
