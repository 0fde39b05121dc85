SPECIFICATION WakingSpec
CONSTANTS
  Workers = {w1}
  k1 = k1
  k2 = k2
  RunKeys = {k1, k2}
  Configs = {c1}
  DayOf <- OneADay
  LastDay = 2
  LeaseTicks = 2
  MaxDelay = 1
  MaxAttempts = 3
  MaxCrashes = 1
  NoRow = NoRow
PROPERTIES
  DurableWorkIsFound
CHECK_DEADLOCK FALSE
