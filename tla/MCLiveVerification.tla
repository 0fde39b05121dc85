------------------------- MODULE MCLiveVerification -------------------------
(* Model checking of LiveVerification on small instances. *)
EXTENDS LiveVerification, TLC

CONSTANTS p1, us, fixture, MaxTotalEdits

ThreeSessions == 1 .. 3
ClosesInOrder == [s \in Sessions |-> s]
FourInstants == 0 .. 4
CommittedFixture == [s \in Sessions |-> p1]
FirstSession == 1

Envelope(regime, legal) == [regime |-> regime, legal |-> legal]

\* As the committed fixture is answered: BUY, then the first of REDUCE and SELL, and
\* nothing asked on the last session
Committed ==
  << Envelope("OFFENSIVE", <<"BUY", "HOLD">>), Envelope("NEUTRAL", <<"REDUCE", "SELL">>),
     Envelope("NEUTRAL", <<"HOLD">>) >>

\* A version without the signal, one that sells out, one without a later candidate
SomeOffers ==
  { Committed,
    [Committed EXCEPT ![1] = Envelope("NEUTRAL", <<"BUY", "HOLD">>)],
    [Committed EXCEPT ![2] = Envelope("DEFENSIVE", <<"SELL">>)],
    [Committed EXCEPT ![2] = None] }

\* data/providers and backtest, of which the live digest covers both and the
\* fixture's the second; the fixture's also covers account
LiveAndFixtureDigests ==
  (us :> {"providers", "backtest"}) @@ (fixture :> {"backtest", "account"})

TotalEdits ==
  LET sum[S \in SUBSET Parts] ==
        IF S = {} THEN 0 ELSE LET p == CHOOSE x \in S : TRUE IN tree[p] + sum[S \ {p}]
  IN  sum[Parts]

VerifierSymmetry == Permutations(Verifiers)

FewEdits == TotalEdits <= MaxTotalEdits

=============================================================================
