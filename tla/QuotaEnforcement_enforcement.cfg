CONSTANTS
  Users = {u1}
  None = None
  Limits = {1}
  FirstLimit = 1
  Amounts = {1}
  Keys = {k1}
  Batch = 2
  MaxUse = 1
  Bounds <- OneUser
SPECIFICATION Spec
INVARIANTS
  TypeOK
  ConfirmationIsTrue
PROPERTIES
  RevokedOnlyWhileEnforced
  NoReturnInRound
CHECK_DEADLOCK FALSE
