CONSTANTS
  Users = {u1}
  Devices = {d1}
  Runners = {p1}
  None = None
  Week = 6
  Horizon = 5
  LastTime = 21
  MaxAssociations = 1
  MaxCycles = 2
  MaxPeriodic = 1
  MaxTotal = 1
  Bounds <- OneFault
SPECIFICATION Spec
INVARIANTS
  TypeOK
  ChargedForOwnUse
  CompletedSampleCounted
PROPERTIES
  ChargesStay
CHECK_DEADLOCK FALSE
