\* With opt_fail_only and a dead first pool the quotas are never given out again.
SPECIFICATION SelectSpec
CONSTANTS
  Pools = 3
  Quotas = {1, 2}
  FirstQuotas <- MCOneTwo
  Strategies = {"loadbalance"}
  FailOnly = {TRUE}
  IntBits = 6
  LongBits = 8
  MaxUsed = 6
  MaxShares = 0
  MaxChanges = 1
PROPERTIES QuotaIsUsedUp
CHECK_DEADLOCK FALSE
