\* Two pools: a number that is written late brings old work back to life.
SPECIFICATION BtSpec
CONSTANTS
  BtPool = {p1, p2}
  BtCurrent = p1
  Keep = 1
  MaxBlock = 2
  BtMaxJob = 3
INVARIANTS OldBlockIsStale
CHECK_DEADLOCK FALSE
