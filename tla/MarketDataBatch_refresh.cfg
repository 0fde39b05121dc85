SPECIFICATION Spec
CONSTANTS
  Workers = {w1, w2}
  SymbolCount = 2
  Days = {d1, d2}
  NormalLimit = 2
  RecoveryLimit = 1
  None = None
SYMMETRY Symmetry
INVARIANTS
  TypeOK
  CallsArePaid
  SuccessIsIngested
PROPERTIES
  SettledStaysSettled
CHECK_DEADLOCK FALSE
