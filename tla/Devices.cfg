SPECIFICATION DevSpec
CONSTANTS
  Gpu = {g1}
  Faults = {"fails", "initfails", "wedges"}
  MaxQueue = 1
  MaxSem = 1
  MaxEvents = 2
PROPERTIES SickIsHung DeviceMines RestartGetsIn
CHECK_DEADLOCK FALSE
