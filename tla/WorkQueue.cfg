\* Two threads and two pools, each with its own way of making work.
SPECIFICATION Spec
CONSTANTS
  t1 = t1
  t2 = t2
  p = p
  q = q
  Miner <- MCMiner
  Pool <- MCPool
  LocalSets <- MCLocalSets
  OptQueue = 1
  MaxQueue = 2
  MaxEvents = 2
  None = None
INVARIANTS CounterCoversMasters NobodySleepsOnWork SchedulerHearsMiners LastPoolLeavesOneWork
SYMMETRY MinerSymmetry
