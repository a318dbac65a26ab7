CONSTANTS
  None = None
  Operator = {a, b}
  TicketId = {1, 2, 3}
  Traced = {1}
  Review = {r1}
  Submission = {s1, s2}
  MaxAudit = 4
  MaxClock = 1
SPECIFICATION Spec
CONSTRAINT DeskBound
INVARIANTS
  AuditExplainsTicket
  ListingIsComplete
  MaterialRecordedOnce
PROPERTIES
  DecidedOnSeenMaterial
CHECK_DEADLOCK FALSE
