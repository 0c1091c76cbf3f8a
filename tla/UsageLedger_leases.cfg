CONSTANTS
  Users = {u1}
  Devices = {d1}
  Runners = {p1, p2}
  None = None
  Week = 40
  Horizon = 0
  LastTime = 21
  MaxAssociations = 1
  MaxCycles = 1
  MaxPeriodic = 0
  MaxTotal = 0
  Bounds <- FaultOrCallbacks
SPECIFICATION FairSpec
PROPERTIES
  SettledJobsStay
  FinalSampleTaken
CHECK_DEADLOCK FALSE
