CONSTANTS
  Caller = {c1, c2}
  Memory = {m1}
  Redis = redis
SPECIFICATION FairSpec
INVARIANTS
  TypeOK
  OneCreator
  ReplayIsCurrent
  OwnerKeepsKey
PROPERTIES
  CreatedOnConfirmedPayment
  EveryCallEnds
CHECK_DEADLOCK FALSE
