SPECIFICATION Spec
CONSTANTS
  Universe <- MCUniverse
  SectorOf <- MCSectorOf
  Frames <- MCFrames
  StateFrames <- MCStateFrames
  FreeBatches <- MCBatches
  MaxHoldings = 2
  CalendarLength = 4
  LotSize = 10
  CostBps = 100
  Grain = 10
  Sessions = 4
  ShortWindow = 1
  LongWindow = 2
  VolumeWindow = 1
  OffensiveCap = 12
  NeutralCap = 5
  InitialCash = {0, 100000}
INVARIANTS
  TypeOK
  RunNeverRaises
  LimitsHold
  EnvelopeCarriedOut
CHECK_DEADLOCK FALSE
