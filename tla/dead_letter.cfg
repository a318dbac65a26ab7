CONSTANTS
  Msg = {m1}
  MaxAttempts = 1
  BatchLimit = 1
SPECIFICATION QueueSpec
PROPERTIES
  DeadLetterRetained
CHECK_DEADLOCK FALSE
