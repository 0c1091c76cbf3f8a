CONSTANTS
  Users = {u1, u2}
  None = None
  Limits = {1, 2}
  FirstLimit = 1
  Amounts = {1}
  Keys = {k1, k2}
  Batch = 2
  MaxUse = 1
  Bounds <- TwoUsers
SPECIFICATION FairSpec
PROPERTIES
  TransfersAreSound
  
  
CHECK_DEADLOCK FALSE
