SPECIFICATION FairSpec
CONSTANTS
  a = a
  b = b
  c = c
  NoPool = NoPool
  Pool = {a, b}
  InitPools <- Two
  InitStrategy = "failover"
  Scenes <- FirstDisabled
  RejectLimit = 0
PROPERTIES
  DisabledPoolIsLeft
CHECK_DEADLOCK FALSE
