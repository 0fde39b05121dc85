SPECIFICATION Spec
CONSTANTS
  Workers = {w1, w2}
  r1 = r1
  r2 = r2
  s1 = s1
  s2 = s2
  t1 = t1
  Runs = {r1, r2}
  Symbols = {s1, s2}
  Targets = {t1}
  Rejected = Rejected
  DecisionsOf <- TwoRuns
  Validated = {w1}
  MaxCrashes = 1
  None = None
INVARIANTS
  TypeOK
  OrdersAgree
  RiskExplainsOrders
PROPERTIES
  FillsAreFinal
CHECK_DEADLOCK FALSE
