CONSTANTS
  None = None
  Window = 1
  Conversation = {c1}
  MaxRuns = 3
  MaxStops = 1
SPECIFICATION Spec
INVARIANTS
  HistoryIsTheTurns
  RepeatsAreExplained
PROPERTIES
  ConversationReopens
CHECK_DEADLOCK FALSE
