CONSTANTS
  Order = {o1}
  Review = {r1}
  Msg = {m1, m2}
  MaxAttempts = 1
  BatchLimit = 2
SPECIFICATION Spec
INVARIANTS
  SubmittedAtMostOnce
  NoPayoutWithoutDispatch
  BooksAgreeWithGateway
  OrderMirrorsRefund
PROPERTIES
  KeepsRefundPromise
CONSTRAINT PaymentBound
SYMMETRY Symmetric
CHECK_DEADLOCK FALSE
