\* Liveness, with getwork pools only or with one: one event.
SPECIFICATION Spec
CONSTANTS
  t1 = t1
  t2 = t2
  p = p
  q = q
  Miner <- MCMiner
  Pool <- MCPool
  LocalSets <- MCNoLocal
  OptQueue = 0
  MaxQueue = 0
  MaxEvents = 1
  None = None
PROPERTIES NotAllStarve
