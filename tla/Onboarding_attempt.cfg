CONSTANTS
  Chats = {c1}
  Worker = worker
  Handlers = {h1}
  None = None
  SlowCalls = FALSE
  InOrder = FALSE
  MaxJoins = 1
  MaxTokens = 2
  MaxChanges = 2
  MaxFaults = 2
SPECIFICATION FairSpec

  
PROPERTIES
  BoundIsReleased
  
CHECK_DEADLOCK FALSE
