CONSTANTS
  Order = {o1}
  Review = {r1}
  Msg = {m1, m2}
  MaxAttempts = 2
  BatchLimit = 1
SPECIFICATION FairDeskSpec
PROPERTIES
  QueuedRefundMoves
CHECK_DEADLOCK FALSE
