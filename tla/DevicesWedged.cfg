\* A wedged GPU keeps the read lock of mining_thr_lock.
SPECIFICATION DevSpec
CONSTANTS
  Gpu = {g1}
  Faults = {"fails", "initfails", "wedges"}
  MaxQueue = 2
  MaxSem = 1
  MaxEvents = 2
PROPERTIES WedgedGpuIsHarmless
CHECK_DEADLOCK FALSE
