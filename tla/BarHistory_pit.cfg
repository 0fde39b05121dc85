SPECIFICATION Spec
CONSTANTS
  p1 = p1
  p2 = p2
  Sessions <- TwoSessions
  Close <- ClosesAt1And2
  Payloads = {p1, p2}
  Sources = {east, alpha}
  Instants <- FourInstants
  MaxPending = 1
  None = None
CONSTRAINT BoundedPending
SYMMETRY Symmetry
INVARIANTS
  TypeOK
  StreamsAreOrdered
  RefreezeAgrees
PROPERTIES
  RecordIsFixed
  SpecStillRuns
CHECK_DEADLOCK FALSE
