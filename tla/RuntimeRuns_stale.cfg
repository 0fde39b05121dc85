SPECIFICATION Spec
CONSTANTS
  Workers = {w1, w2}
  RunKeys = {k1}
  Configs = {c1}
  LeaseTicks = 2
  MaxDelay = 1
  MaxAttempts = 3
  MaxCrashes = 1
  NoRow = NoRow
PROPERTIES
  ActiveLeaseBlocksSecondWorker
CHECK_DEADLOCK FALSE
