SPECIFICATION FairSpec
CONSTANTS
  Users = {u1}
  Devices = {d1}
  Links = {l1}
  Requests = {q1}
  Schedulers = {s1}
  None = None
  MaxAssociations = 1
  MaxRevokes = 2
  MaxFaults = 1
  ConsoleRevokes = FALSE
CHECK_DEADLOCK FALSE
PROPERTIES
  EffectiveRevokeIsRecorded
