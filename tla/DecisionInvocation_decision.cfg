SPECIFICATION FairSpec
CONSTANTS
  Workers = {w1, w2}
  r1 = r1
  r2 = r2
  f1 = f1
  Runs = {r1, r2}
  Fingerprints = {f1}
  RequestsOf <- OneRunOrTwo
  Times = {t1, t2}
  WakeTime = t1
  Answers = {a1, a2}
  MaxCrashes = 3
  None = None
INVARIANTS
  TypeOK
  SendAtMostOnce
  InvocationsAreTrue
  JournalsAgree
  CallersAgree
PROPERTIES
  IntentIsExplained
CHECK_DEADLOCK FALSE
