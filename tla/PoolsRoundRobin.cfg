SPECIFICATION Spec
CONSTANTS
  a = a
  b = b
  c = c
  NoPool = NoPool
  Pool = {a, b}
  InitPools <- Two
  InitStrategy = "roundrobin"
  Scenes <- Starts
  RejectLimit = 0
PROPERTIES
  RoundRobinStays
CHECK_DEADLOCK FALSE
