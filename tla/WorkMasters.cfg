\* Stale masters leave the counter behind.
SPECIFICATION Spec
CONSTANTS
  t1 = t1
  t2 = t2
  p = p
  q = q
  Miner <- MCMiner
  Pool <- MCPool
  LocalSets <- MCNoLocal
  OptQueue = 0
  MaxQueue = 1
  MaxEvents = 3
  None = None
PROPERTIES ClonesFirst
