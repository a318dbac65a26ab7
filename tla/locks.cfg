CONSTANTS
  None = None
  v1 = v1
  v2 = v2
  f1 = f1
  f2 = f2
  o1 = o1
  o2 = o2
  m1 = m1
  m2 = m2
  Tx = {t1, t2, t3}
  Review = {v1, v2}
  Refund = {f1, f2}
  Order = {o1, o2}
  Message = {m1, m2}
  MaxPlace = 1
  OrderOf <- MCOrderOf
  RefundOf <- MCRefundOf
  Place <- MCPlace
SPECIFICATION Spec
SYMMETRY Symmetry
INVARIANTS
  NoWaitCycle
