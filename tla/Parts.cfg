SPECIFICATION PartsSpec
CONSTANTS
  Thread = {t1, t2, t3}
  NoThread = NoThread
  BtPool = {p1}
  BtCurrent = p1
  Keep = 1
  MaxBlock = 3
  BtMaxJob = 3
  Pools = 3
  Quotas = {0, 1, 2, 3}
  FirstQuotas <- MCFirst
  Strategies = {"loadbalance", "balance"}
  FailOnly = {TRUE, FALSE}
  IntBits = 4
  LongBits = 6
  MaxUsed = 4
  MaxShares = 3
  MaxChanges = 2
  User = {u1, u2, u3}
  Limits = {0, 1, 2}
INVARIANTS Exclusion OldBlockIsStale BalanceIsEven HandlesAreSound
PROPERTIES ModesSpec WriterGetsIn RoundIsExact PoolsAreServed RequestsAreServed
