\* The number the quotas are divided by does not divide them.
SPECIFICATION SelectSpec
CONSTANTS
  Pools = 2
  Quotas = {1, 4, 6}
  FirstQuotas <- MCOnes
  Strategies = {"loadbalance"}
  FailOnly = {FALSE}
  IntBits = 6
  LongBits = 8
  MaxUsed = 6
  MaxShares = 0
  MaxChanges = 2
INVARIANTS GcdDividesQuotas
CHECK_DEADLOCK FALSE
