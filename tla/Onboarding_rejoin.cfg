CONSTANTS
  Chats = {c1}
  Worker = worker
  Handlers = {h1}
  None = None
  SlowCalls = FALSE
  InOrder = FALSE
  MaxJoins = 2
  MaxTokens = 2
  MaxChanges = 2
  MaxFaults = 1
SPECIFICATION Spec
INVARIANTS
  TypeOK
  ReleasedWereBound
  
CHECK_DEADLOCK FALSE
