SPECIFICATION Spec
CONSTANTS
  a = a
  b = b
  c = c
  NoPool = NoPool
  Pool = {a, b, c}
  InitPools <- Two
  InitStrategy = "failover"
  Scenes <- Safety
  RejectLimit = 0
INVARIANTS
  PoolTableIsSound
PROPERTIES
  MovesToBestPool
CHECK_DEADLOCK FALSE
