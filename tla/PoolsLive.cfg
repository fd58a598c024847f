SPECIFICATION FairSpec
CONSTANTS
  a = a
  b = b
  c = c
  NoPool = NoPool
  Pool = {a, b}
  InitPools <- Two
  InitStrategy = "failover"
  Scenes <- Live
  RejectLimit = 0
PROPERTIES
  LeavesIdlePool
  FailsBack
  RotateVisitsAll
CHECK_DEADLOCK FALSE
