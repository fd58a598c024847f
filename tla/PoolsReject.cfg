SPECIFICATION Spec
CONSTANTS
  a = a
  b = b
  c = c
  NoPool = NoPool
  Pool = {a, b}
  InitPools <- Two
  InitStrategy = "failover"
  Scenes <- Rejects
  RejectLimit = 1
PROPERTIES
  ContinualRejectsDisable
CHECK_DEADLOCK FALSE
