SPECIFICATION VerifySpec
CONSTANTS
  p1 = p1
  us = us
  fixture = fixture
  Sessions <- ThreeSessions
  Close <- ClosesInOrder
  Payloads = {p1}
  Sources = {east}
  Provider = east
  Instants <- FourInstants
  Verifiers = {v1, v2}
  Jobs = {us, fixture}
  FixtureJob = fixture
  Fixture <- CommittedFixture
  ObservedAt = 4
  DecisionDate <- FirstSession
  Offers <- SomeOffers
  Parts = {"providers", "backtest", "account"}
  DigestedParts <- LiveAndFixtureDigests
  MinSessions = 3
  MaxEdits = 1
  MaxTotalEdits = 1
  None = None
SYMMETRY VerifierSymmetry
CONSTRAINT FewEdits
INVARIANT EvidenceIsSound
CHECK_DEADLOCK FALSE
