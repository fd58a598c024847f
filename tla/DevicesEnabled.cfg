\* The flags that no enable, restart or schedule resets.
SPECIFICATION DevSpec
CONSTANTS
  Gpu = {g1}
  Faults = {"fails", "initfails", "wedges"}
  MaxQueue = 2
  MaxSem = 1
  MaxEvents = 2
PROPERTIES EnabledDeviceMines
CHECK_DEADLOCK FALSE
