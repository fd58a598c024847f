SPECIFICATION Spec
CONSTANTS
  a = a
  b = b
  c = c
  NoPool = NoPool
  Pool = {a, b}
  InitPools <- Two
  InitStrategy = "failover"
  Scenes <- Removes
  RejectLimit = 0
INVARIANTS
  RemovedPoolIsNotCurrent
CHECK_DEADLOCK FALSE
