SPECIFICATION Spec
CONSTANTS
  s1 = s1
  s2 = s2
  Pool = {p1}
  Share = {s1, s2, s3}
  PoolOf <- OnePool
  LongNonce2 = {}
  LowMem = TRUE
  Window = 1
  MaxConn = 2
  Administered = {}
  NoPool = NoPool
  NoShare = {s1, s2, s3}
INVARIANT
  IdsAreUnique
SYMMETRY ShareSymmetry
CHECK_DEADLOCK FALSE
