SPECIFICATION Spec
CONSTANTS
  s1 = s1
  s2 = s2
  Pool = {p1}
  Share = {s1, s2}
  PoolOf <- OnePool
  LongNonce2 = {}
  LowMem = FALSE
  Window = 2
  MaxConn = 2
  Administered = {}
  NoPool = NoPool
  NoShare = NoShare
INVARIANTS
  TypeOK
  SharesHaveOnePlace
  SsharesCountsTable
  SuspendedHasNoShares
  UntrackedWasCleared
PROPERTIES
  LedgerSpec
SYMMETRY ShareSymmetry
CHECK_DEADLOCK FALSE
