SPECIFICATION FairSpec
CONSTANTS
  Accounts = {a1, a2}
  FirstAccount = a1
  Loops = {l1, l2}
  FirstLoop = l1
  Commands = {c1, c2}
  None = None
  Window = 3
  Cooldown = 2
  ExpiredCooldown = 1
  Lease = 1
  MaxNotices = 2
  Bounds <- StatisticsBounds
INVARIANTS
  TypeOK
  EstimateIsOfItsRound
  CopiesNeedDoubt

  
CHECK_DEADLOCK FALSE
