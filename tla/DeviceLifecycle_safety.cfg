SPECIFICATION Spec
CONSTANTS
  Users = {u1, u2}
  Devices = {d1}
  Links = {l1, l2}
  Requests = {q1, q2}
  Schedulers = {s1}
  None = None
  MaxAssociations = 2
  MaxRevokes = 2
  MaxFaults = 1
  ConsoleRevokes = TRUE
SYMMETRY Symmetry
CHECK_DEADLOCK FALSE
INVARIANTS
  TypeOK
  PostedOnceAfterArming
  ExclusiveSlots
  GrantsAccountedFor
  StateMatchesActions
  RevokeHitsItsHolder
PROPERTIES
  FinalIsFinal
  ImplementsOwnership
