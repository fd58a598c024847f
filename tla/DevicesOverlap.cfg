\* A hard restart while the reinit thread restarts a GPU.
SPECIFICATION DevSpec
CONSTANTS
  Gpu = {g1}
  Faults = {"fails", "initfails", "wedges", "overlap"}
  MaxQueue = 2
  MaxSem = 1
  MaxEvents = 2
PROPERTIES OneMiner
CHECK_DEADLOCK FALSE
