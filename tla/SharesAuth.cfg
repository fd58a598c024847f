SPECIFICATION Spec
CONSTANTS
  s1 = s1
  s2 = s2
  Pool = {p1}
  Share = {s1}
  PoolOf <- OnePool
  LongNonce2 = {}
  LowMem = FALSE
  Window = 2
  MaxConn = 2
  Administered = {}
  NoPool = NoPool
  NoShare = NoShare
PROPERTY
  AuthReadsItsAnswer
CHECK_DEADLOCK FALSE
