SPECIFICATION FairSpec
CONSTANTS
  Workers = {w1, w2}
  RunKeys = {k1}
  Configs = {c1, c2}
  LeaseTicks = 2
  MaxDelay = 1
  MaxAttempts = 12
  MaxCrashes = 1
  NoRow = NoRow
INVARIANTS
  TypeOK
  LiveLeaseExclusive
  LeaseTracksRun
PROPERTIES
  ImplementsAuthority
  EveryRunEnds
CHECK_DEADLOCK FALSE
