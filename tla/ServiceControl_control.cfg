SPECIFICATION FairSpec
CONSTANTS
  Accounts = {a1, a2}
  Commands = {c1}
  Loop = loop
  None = None
  Bounds <- ControlBounds
INVARIANTS
  TypeOK
  
  CurrentIsVerified
CHECK_DEADLOCK FALSE
PROPERTIES
  PendingKeepsClosed
  UnauthorizedCloses
  
