SPECIFICATION FairSpec
CONSTANTS
  Markets <- BothMarkets
  Dates <- FourDates
  YearOf <- TwoYears
  CoveredYears = {1}
  Sessions <- TwoSchedules
  Closures <- OneClosure
  MarketZone <- Zones2
  Wakes = {w1, w2}
  Order <- USFirst
  Instants <- InterestingInstants
  Zones <- CallerZones
  Switches <- AllSwitches
  Account <- Accounts
  Reported <- ReportsTried
  Texts = {x, y}
  MaxSwitches = 1
  None = None
INVARIANTS
  TypeOK
  DecidesOnNewestSession
  ReportsLand
PROPERTIES
  LockIsFreed
  KillSwitchHolds
CHECK_DEADLOCK FALSE
