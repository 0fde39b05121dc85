-------------------------- MODULE PointInTimeProofs --------------------------
(***************************************************************************)
(* Proofs about the two systems that rest on the point-in-time store.      *)
(*                                                                         *)
(* BarHistory, for every set of sessions, sources, payloads and instants:  *)
(* no stream of a session is rewritten, and no manifest made from them.    *)
(*                                                                         *)
(* LiveVerification, for every number of verifiers, jobs, source files and *)
(* edits: what an evidence file says was complete.                         *)
(***************************************************************************)
EXTENDS BarHistory, LiveVerification, FiniteSetTheorems, WellFoundedInduction, TLAPS


Rows(b, s) == {r \in b : r.session = s}

\* A stream in order: one provider, one baseline known at the close, and corrections
\* that are known when they are ingested, at instants of their own
Ordered(rows, s, base, top) ==
  /\ base \in rows /\ base.kind = "BASELINE" /\ base.available = Close[s]
  /\ \A r \in rows \ {base} :
       r.kind = "CORRECTION" /\ r.available = r.ingested /\ r.ingested > base.ingested
  /\ \A r \in rows : r.source = base.source
  /\ \A r, q \in rows : r.ingested = q.ingested => r = q
  /\ top \in rows /\ \A r \in rows : r.ingested <= top.ingested

StreamInv(b) ==
  \A s \in Sessions : Rows(b, s) # {} =>
    \E base, top \in Rows(b, s) : Ordered(Rows(b, s), s, base, top)

-----------------------------------------------------------------------------
(* Reading the store *)

LEMMA RevisionFields ==
  ASSUME NEW r \in Revision
  PROVE  /\ r.session \in Sessions /\ r.source \in Sources /\ r.kind \in Kinds
         /\ r.available \in Nat /\ r.ingested \in Nat /\ r.available <= r.ingested
         /\ r # None
BY StoreAssumption, NoneAssumption DEF Revision

\* A bounded set of naturals has a greatest element.
LEMMA GreatestExists ==
  ASSUME NEW T \in SUBSET Nat, T # {}, NEW bound \in Nat, \A t \in T : t <= bound
  PROVE  \E t \in T : \A u \in T : u <= t
<1> DEFINE gaps == {n \in Nat : \E t \in T : t + n = bound}
           less == {ss \in Nat \X Nat : ss[1] < ss[2]}
<1>1. gaps \subseteq Nat /\ gaps # {}
  <2>1. PICK t \in T : TRUE
    OBVIOUS
  <2>2. bound - t \in Nat /\ t + (bound - t) = bound
    BY <2>1
  <2> QED BY <2>2
<1>2. IsWellFoundedOn(less, Nat)
  BY NatLessThanWellFounded DEF OpToRel
<1>3. \E g \in gaps : \A h \in gaps : <<h, g>> \notin less
  <2> HIDE DEF less, gaps
  <2> QED BY <1>1, <1>2, WFMin
<1>4. PICK g \in gaps : \A h \in gaps : <<h, g>> \notin less
  BY <1>3
<1>5. PICK t \in T : t + g = bound
  BY <1>4
<1>6. ASSUME NEW u \in T, t < u PROVE FALSE
  <2>1. bound - u \in Nat /\ u + (bound - u) = bound /\ bound - u < g
    BY <1>4, <1>5, <1>6
  <2>2. <<bound - u, g>> \in less
    BY <1>4, <2>1
  <2> QED BY <1>4, <2>1, <2>2
<1> QED BY <1>5, <1>6

\* In an ordered stream the order of availability is that of ingestion.
LEMMA SameOrder ==
  ASSUME NEW s \in Sessions, NEW rows \in SUBSET Revision, NEW base, NEW top,
         Ordered(rows, s, base, top), NEW r \in rows, NEW q \in rows
  PROVE  /\ r.available < q.available <=> r.ingested < q.ingested
         /\ r.available = q.available => r = q
<1>1. /\ r.available \in Nat /\ r.ingested \in Nat /\ r.available <= r.ingested
      /\ q.available \in Nat /\ q.ingested \in Nat /\ q.available <= q.ingested
      /\ base.available \in Nat /\ base.ingested \in Nat /\ base.available <= base.ingested
  BY RevisionFields DEF Ordered
<1>2. \A x \in rows : x = base \/ (x.available = x.ingested /\ x.ingested > base.ingested)
  BY DEF Ordered
<1>3. CASE r = base /\ q = base
  BY <1>1, <1>3
<1>4. CASE r = base /\ q # base
  BY <1>1, <1>2, <1>4
<1>5. CASE r # base /\ q = base
  BY <1>1, <1>2, <1>5
<1>6. CASE r # base /\ q # base
  BY <1>1, <1>2, <1>6 DEF Ordered
<1> QED BY <1>3, <1>4, <1>5, <1>6

\* The newest of some rows of an ordered stream is the one ingested last.
LEMMA NewestIs ==
  ASSUME NEW s \in Sessions, NEW rows \in SUBSET Revision, NEW base, NEW top,
         Ordered(rows, s, base, top),
         NEW S \in SUBSET rows, NEW last \in S, \A r \in S : r.ingested <= last.ingested
  PROVE  Newest(S) = last
<1> DEFINE Best(r) == \A q \in S : \/ q.available < r.available
                                   \/ q.available = r.available /\ q.ingested <= r.ingested
<1>1. \A r \in S : r.available \in Nat /\ r.ingested \in Nat
  BY RevisionFields
<1>2. Best(last)
  <2> SUFFICES ASSUME NEW q \in S
               PROVE  \/ q.available < last.available
                      \/ q.available = last.available /\ q.ingested <= last.ingested
    OBVIOUS
  <2>1. CASE q.ingested < last.ingested
    BY <2>1, SameOrder
  <2>2. CASE q.ingested = last.ingested
    <3>1. q = last
      BY <2>2 DEF Ordered
    <3> QED BY <1>1, <3>1
  <2> QED BY <1>1, <2>1, <2>2
<1>3. ASSUME NEW r \in S, Best(r) PROVE r = last
  <2>1. \/ last.available < r.available
        \/ last.available = r.available /\ last.ingested <= r.ingested
    BY <1>3
  <2>2. CASE last.available < r.available
    <3>1. last.ingested < r.ingested
      BY <2>2, SameOrder
    <3> QED BY <1>1, <3>1
  <2>3. CASE last.available = r.available
    BY <2>3, SameOrder
  <2> QED BY <2>1, <2>2, <2>3
<1> HIDE DEF Best
<1>4. (CHOOSE r \in S : Best(r)) = last
  BY <1>2, <1>3
<1> QED BY <1>4 DEF Newest, Best

Visible(b, s, t) == {r \in b : r.session = s /\ r.available <= t}

\* In order, a session has one provider, and its newest row is the one it observed last.
LEMMA OrderedReads ==
  ASSUME NEW b \in SUBSET Revision, NEW s \in Sessions, NEW base, NEW top,
         Ordered(Rows(b, s), s, base, top)
  PROVE  /\ BarRevisionSources(b, s) = {base.source}
         /\ Stream(b, s, base.source) = Rows(b, s)
         /\ LatestObservedBarRevision(b, base.source, s) = top
         /\ Newest(Rows(b, s)) = top
<1> DEFINE rows == Rows(b, s)
<1>1. \A r \in rows : r \in Revision /\ r.session = s /\ r.ingested \in Nat
  BY RevisionFields DEF Rows
<1>2. /\ base \in rows /\ top \in rows /\ \A r \in rows : r.source = base.source
      /\ \A r \in rows : r.ingested <= top.ingested
      /\ \A r, q \in rows : r.ingested = q.ingested => r = q
  BY DEF Ordered
<1>3. BarRevisionSources(b, s) = {base.source}
  BY <1>2 DEF BarRevisionSources, Rows
<1>4. Stream(b, s, base.source) = rows
  BY <1>2 DEF Stream, Rows
<1>5. LatestObservedBarRevision(b, base.source, s) = top
  <2> DEFINE Last(r) == \A q \in rows : q.ingested <= r.ingested
  <2>1. \A r \in rows : Last(r) => r = top
    <3> SUFFICES ASSUME NEW r \in rows, Last(r) PROVE r = top
      OBVIOUS
    <3>1. top.ingested <= r.ingested /\ r.ingested <= top.ingested
      BY <1>2
    <3>2. r.ingested = top.ingested
      BY <1>1, <1>2, <3>1
    <3> QED BY <1>2, <3>2
  <2>2. top \in rows /\ Last(top)
    BY <1>2
  <2>3. LatestObservedBarRevision(b, base.source, s) = CHOOSE r \in rows : Last(r)
    BY <1>2, <1>4 DEF LatestObservedBarRevision
  <2> HIDE DEF Last, rows
  <2> QED BY <2>1, <2>2, <2>3
<1>6. Newest(rows) = top
  BY <1>1, <1>2, NewestIs
<1> QED BY <1>3, <1>4, <1>5, <1>6

\* A query shows a row exactly when one was available.
LEMMA VisibleNewest ==
  ASSUME NEW b \in SUBSET Revision, StreamInv(b), NEW s \in Sessions, NEW t \in Instants
  PROVE  /\ Visible(b, s, t) = {} => LatestBarRevisionAsOf(b, s, t) = None
         /\ Visible(b, s, t) # {} =>
              /\ LatestBarRevisionAsOf(b, s, t) = Newest(Visible(b, s, t))
              /\ LatestBarRevisionAsOf(b, s, t) \in Revision
              /\ LatestBarRevisionAsOf(b, s, t) # None
<1> DEFINE seen == Visible(b, s, t)
<1>1. LatestBarRevisionAsOf(b, s, t) = IF seen = {} THEN None ELSE Newest(seen)
  BY DEF LatestBarRevisionAsOf, Visible
<1>2. ASSUME seen # {} PROVE Newest(seen) \in Revision
  <2>1. Rows(b, s) # {} /\ seen \subseteq Rows(b, s) /\ Rows(b, s) \subseteq Revision
    BY <1>2 DEF Rows, Visible
  <2>2. PICK base, top \in Rows(b, s) : Ordered(Rows(b, s), s, base, top)
    BY <2>1 DEF StreamInv
  <2>3. \A r \in Rows(b, s) : r.ingested \in Nat /\ r.ingested <= top.ingested
    BY <2>1, <2>2, RevisionFields DEF Ordered
  <2> DEFINE T == {n \in Nat : \E r \in seen : r.ingested = n}
  <2>4. T # {} /\ \A n \in T : n <= top.ingested
    BY <1>2, <2>1, <2>3
  <2>5. top.ingested \in Nat
    BY <2>2, <2>3
  <2>6. PICK n \in T : \A m \in T : m <= n
    <3> HIDE DEF T
    <3>1. T \in SUBSET Nat
      BY DEF T
    <3> QED BY <2>4, <2>5, <3>1, GreatestExists
  <2>7. PICK last \in seen : last.ingested = n
    BY <2>6
  <2>8. \A r \in seen : r.ingested <= last.ingested
    BY <2>1, <2>3, <2>6, <2>7
  <2> HIDE DEF seen, T
  <2>9. Newest(seen) = last
    BY <2>1, <2>2, <2>7, <2>8, NewestIs
  <2> QED BY <2>1, <2>7, <2>9
<1>3. ASSUME seen # {} PROVE Newest(seen) # None
  BY <1>2, <1>3, RevisionFields
<1> QED BY <1>1, <1>2, <1>3

-----------------------------------------------------------------------------
(* An ingestion *)

\* An ingestion adds nothing, or for each of some sessions one row of the provider
\* that owns it: a baseline where there was nothing, or else a correction after it all.
Extends(b, new, source, now) ==
  /\ new \subseteq Revision
  /\ \A r, q \in new : r.session = q.session => r = q
  /\ \A r \in new :
       /\ r.ingested = now /\ r.source = source /\ Close[r.session] <= now
       /\ Rows(b, r.session) = {} => r.kind = "BASELINE" /\ r.available = Close[r.session]
       /\ Rows(b, r.session) # {} =>
            /\ r.kind = "CORRECTION" /\ r.available = now
            /\ \A q \in Rows(b, r.session) : q.source = source /\ q.ingested < now

LEMMA IngestShape ==
  ASSUME NEW b \in SUBSET Revision, StreamInv(b), NEW source \in Sources,
         NEW requested \in SUBSET Sessions, NEW fetched \in [requested -> Payloads],
         NEW now \in Instants
  PROVE  \/ Ingest(b, source, requested, fetched, now) = b
         \/ \E new : /\ Ingest(b, source, requested, fetched, now) = b \cup new
                     /\ Extends(b, new, source, now)
<1> DEFINE new == Candidates(b, source, fetched, now)
           b2 == Ingest(b, source, requested, fetched, now)
<1> SUFFICES ASSUME b2 # b PROVE b2 = b \cup new /\ Extends(b, new, source, now)
  OBVIOUS
<1>1. /\ ScheduleAdmits(requested, now) /\ ~PlanRefused(b, source, fetched, now)
      /\ b2 = b \cup new
  BY DEF Ingest, AppendBarRevisions
<1> HIDE DEF b2
<1>2. now \in Nat /\ DOMAIN fetched = requested /\ Close \in [Sessions -> Instants]
      /\ Instants \subseteq Nat
  BY StoreAssumption
<1>3. ASSUME NEW s \in requested, ~IsUnchanged(b, source, s, fetched[s])
      PROVE  /\ Stream(b, s, source) = Rows(b, s)
             /\ \A q \in Rows(b, s) : q.source = source /\ q.ingested < now
  <2>1. BarRevisionSources(b, s) \ {source} = {}
    BY <1>1, <1>2 DEF PlanRefused
  <2>2. \A q \in Rows(b, s) : q.source = source
    BY <2>1 DEF BarRevisionSources, Rows
  <2>3. Stream(b, s, source) = Rows(b, s)
    BY <2>2 DEF Stream, Rows
  <2>4. ASSUME NEW q \in Rows(b, s) PROVE q.ingested < now
    <3>1. s \in Sessions /\ Rows(b, s) # {} /\ Rows(b, s) \subseteq Revision
      BY <2>4 DEF Rows
    <3>2. PICK base, top \in Rows(b, s) : Ordered(Rows(b, s), s, base, top)
      BY <3>1 DEF StreamInv
    <3>3. base.source = source
      BY <2>2
    <3>4. LatestObservedBarRevision(b, source, s) = top
      BY <3>1, <3>2, <3>3, OrderedReads
    <3>5. ~(now <= LatestObservedBarRevision(b, source, s).ingested)
      BY <1>1, <1>2, <1>3, <2>3, <3>1 DEF PlanRefused
    <3>6. q.ingested <= top.ingested /\ q.ingested \in Nat /\ top.ingested \in Nat
      BY <3>1, <3>2, RevisionFields DEF Ordered
    <3> QED BY <1>2, <3>4, <3>5, <3>6
  <2> QED BY <2>2, <2>3, <2>4
<1>4. ASSUME NEW r \in new
      PROVE  \E s \in requested : /\ ~IsUnchanged(b, source, s, fetched[s])
                                  /\ r = Candidate(b, source, s, fetched[s], now)
  BY <1>2 DEF Candidates
<1>5. \A r, q \in new : r.session = q.session => r = q
  BY <1>4 DEF Candidate
<1> HIDE DEF new
<1>6. ASSUME NEW r \in new
      PROVE  /\ r \in Revision
             /\ r.ingested = now /\ r.source = source /\ Close[r.session] <= now
             /\ Rows(b, r.session) = {} => r.kind = "BASELINE" /\ r.available = Close[r.session]
             /\ Rows(b, r.session) # {} =>
                  /\ r.kind = "CORRECTION" /\ r.available = now
                  /\ \A q \in Rows(b, r.session) : q.source = source /\ q.ingested < now
  <2>1. PICK s \in requested : /\ ~IsUnchanged(b, source, s, fetched[s])
                               /\ r = Candidate(b, source, s, fetched[s], now)
    BY <1>4, <1>6
  <2>2. /\ Stream(b, s, source) = Rows(b, s)
        /\ \A q \in Rows(b, s) : q.source = source /\ q.ingested < now
    BY <1>3, <2>1
  <2>3. /\ r.session = s /\ r.source = source /\ r.ingested = now
        /\ r.kind = IF Rows(b, s) = {} THEN "BASELINE" ELSE "CORRECTION"
        /\ r.available = IF Rows(b, s) = {} THEN Close[s] ELSE now
    BY <2>1, <2>2 DEF Candidate
  <2>4. Close[s] <= now /\ s \in Sessions /\ Close[s] \in Instants /\ fetched[s] \in Payloads
    BY <1>1, <1>2 DEF ScheduleAdmits
  <2>5. r.available \in Instants /\ r.available <= now /\ r.kind \in Kinds
    BY <1>2, <2>3, <2>4 DEF Kinds
  <2>6. r \in Revision
    <3>1. r = [session |-> s, source |-> source, payload |-> fetched[s], ingested |-> now,
               kind |-> r.kind, available |-> r.available]
      BY <2>1 DEF Candidate
    <3> QED BY <2>4, <2>5, <3>1 DEF Revision
  <2> QED BY <2>2, <2>3, <2>4, <2>6
<1>7. Extends(b, new, source, now)
  BY <1>5, <1>6 DEF Extends
<1> QED BY <1>1, <1>7

LEMMA ExtensionKeepsOrder ==
  ASSUME NEW b \in SUBSET Revision, StreamInv(b), NEW source, NEW now \in Nat,
         NEW new, Extends(b, new, source, now)
  PROVE  StreamInv(b \cup new)
<1> SUFFICES ASSUME NEW s \in Sessions, Rows(b \cup new, s) # {}
             PROVE  \E base, top \in Rows(b \cup new, s) : Ordered(Rows(b \cup new, s), s, base, top)
  BY DEF StreamInv
<1>1. CASE Rows(new, s) = {}
  <2>1. Rows(b \cup new, s) = Rows(b, s)
    BY <1>1 DEF Rows
  <2> QED BY <2>1 DEF StreamInv
<1>2. CASE Rows(new, s) # {}
  <2>1. PICK n \in new : n.session = s
    BY <1>2 DEF Rows
  <2>2. Rows(b \cup new, s) = Rows(b, s) \cup {n}
    <3>1. Rows(new, s) = {n}
      BY <2>1 DEF Extends, Rows
    <3> QED BY <3>1 DEF Rows
  <2>3. n.ingested = now /\ n.source = source
    BY <2>1 DEF Extends
  <2>4. CASE Rows(b, s) = {}
    <3>1. Rows(b \cup new, s) = {n} /\ n.kind = "BASELINE" /\ n.available = Close[s]
      BY <2>1, <2>2, <2>4 DEF Extends
    <3>2. Ordered({n}, s, n, n)
      BY <2>3, <3>1 DEF Ordered
    <3> QED BY <3>1, <3>2
  <2>5. CASE Rows(b, s) # {}
    <3>1. PICK base, top \in Rows(b, s) : Ordered(Rows(b, s), s, base, top)
      BY <2>5 DEF StreamInv
    <3>2. /\ n.kind = "CORRECTION" /\ n.available = now
          /\ \A q \in Rows(b, s) : q.source = source /\ q.ingested < now
      BY <2>1, <2>5 DEF Extends
    <3>3. \A q \in Rows(b, s) : q.ingested \in Nat /\ q.source = source
      BY <3>2, RevisionFields DEF Rows
    <3>4. Ordered(Rows(b, s) \cup {n}, s, base, n)
      BY <2>3, <3>1, <3>2, <3>3 DEF Ordered
    <3> QED BY <2>2, <3>1, <3>4
  <2> QED BY <2>4, <2>5
<1> QED BY <1>1, <1>2

\* What a session showed at an instant it goes on showing, if the instant is before the
\* ingestion or is the close of the session.
LEMMA ShownStays ==
  ASSUME NEW b \in SUBSET Revision, StreamInv(b), NEW source, NEW now \in Nat,
         NEW new, Extends(b, new, source, now),
         NEW s \in Sessions, NEW t \in Nat, t < now \/ t = Close[s],
         Visible(b, s, t) # {}
  PROVE  LatestBarRevisionAsOf(b \cup new, s, t) = LatestBarRevisionAsOf(b, s, t)
<1>1. Rows(b, s) # {} /\ Rows(b, s) \subseteq Revision
  BY DEF Rows, Visible
<1>2. ASSUME NEW n \in new, n.session = s
      PROVE  n.available = now /\ t < now
  <2>1. PICK base, top \in Rows(b, s) : Ordered(Rows(b, s), s, base, top)
    BY <1>1 DEF StreamInv
  <2>2. /\ base.available = Close[s] /\ base.available <= base.ingested
        /\ base.available \in Nat /\ base.ingested \in Nat
    BY <1>1, <2>1, RevisionFields DEF Ordered
  <2>3. n.available = now /\ base.ingested < now
    BY <1>1, <1>2, <2>1 DEF Extends
  <2> QED BY <2>2, <2>3
<1>3. Visible(b \cup new, s, t) = Visible(b, s, t)
  <2>1. \A n \in new : n.session = s => ~(n.available <= t)
    BY <1>2
  <2> QED BY <2>1 DEF Visible
<1> QED BY <1>3 DEF LatestBarRevisionAsOf, Visible

-----------------------------------------------------------------------------
(* The inductive invariant *)

\* A manifest that was frozen is complete.
Frozen == {m \in Manifest : m.revisions \in [Known(m.run) -> Revision]}

\* With a steady clock, a manifest made after its close is what its run resolves.
Agrees(m) == m.afterClose => Close[m.run] < clock /\ m.revisions = Resolve(m.run)

HistoryInv ==
  /\ steady \in BOOLEAN
  /\ clock \in Instants
  /\ bars \in SUBSET Revision
  /\ wake \in Wake \cup {None}
  /\ pending \in SUBSET Frozen
  /\ manifests \in [Runs -> Frozen \cup {None}]
  /\ \A r \in Runs : manifests[r] # None => manifests[r].run = r
  /\ StreamInv(bars)
  /\ steady =>
       /\ wake # None => wake.now = clock
       /\ \A m \in pending : Agrees(m)
       /\ \A r \in Runs : manifests[r] # None => Agrees(manifests[r])

\* What an ingestion leaves alone, and what it may change
LEMMA IngestStep ==
  ASSUME HistoryInv, NEW requested \in SUBSET Sessions, NEW fetched \in [requested -> Payloads],
         IngestRange(requested, fetched)
  PROVE  /\ wake \in Wake /\ wake.now \in Nat
         /\ \/ bars' = bars
            \/ \E new : bars' = bars \cup new /\ Extends(bars, new, wake.source, wake.now)
<1>1. wake \in Wake /\ wake.now \in Instants /\ wake.source \in Sources
  BY DEF HistoryInv, IngestRange, Wake
<1>2. bars \in SUBSET Revision /\ StreamInv(bars)
  BY DEF HistoryInv
<1>3. bars' = Ingest(bars, wake.source, requested, fetched, wake.now)
  BY DEF IngestRange
<1> QED BY <1>1, <1>2, <1>3, IngestShape, StoreAssumption

LEMMA InitHistoryInv == Init => HistoryInv
<1> SUFFICES ASSUME Init PROVE HistoryInv
  OBVIOUS
<1>1. StreamInv(bars)
  BY DEF Init, StreamInv, Rows
<1> QED BY <1>1, ClockAssumption DEF Init, HistoryInv

LEMMA NextHistoryInv == HistoryInv /\ [Next]_vars => HistoryInv'
<1> SUFFICES ASSUME HistoryInv, [Next]_vars PROVE HistoryInv'
  OBVIOUS
<1>1. ASSUME NEW source \in Sources, NEW t \in Instants, OpenStore(source, t) PROVE HistoryInv'
  <2>1. wake' \in Wake /\ wake'.now = t
    BY <1>1 DEF OpenStore, Wake
  <2>2. UNCHANGED <<steady, bars, pending, manifests>>
        /\ clock' \in Instants /\ clock' >= clock /\ clock \in Nat /\ clock' \in Nat
        /\ (steady => clock' = t)
    BY <1>1, StoreAssumption DEF OpenStore, HistoryInv
  <2>3. ASSUME NEW m \in Frozen, Agrees(m) PROVE Agrees(m)'
    <3>1. Close[m.run] \in Nat
      BY <2>3, StoreAssumption DEF Frozen, Manifest, Runs
    <3> QED BY <2>2, <2>3, <3>1 DEF Agrees, Resolve
  <2>4. \A r \in Runs : manifests[r] # None => manifests[r] \in Frozen
    BY DEF HistoryInv
  <2> QED BY <2>1, <2>2, <2>3, <2>4 DEF HistoryInv
<1>2. ASSUME NEW requested \in SUBSET Sessions, NEW fetched \in [requested -> Payloads],
             IngestRange(requested, fetched)
      PROVE HistoryInv'
  <2>1. UNCHANGED <<steady, clock, wake, pending, manifests>>
    BY <1>2 DEF IngestRange
  <2>2. CASE bars' = bars
    BY <2>1, <2>2 DEF HistoryInv, Agrees, Resolve
  <2>3. CASE bars' # bars
    <3>1. PICK new : bars' = bars \cup new /\ Extends(bars, new, wake.source, wake.now)
      BY <1>2, <2>3, IngestStep
    <3>2. wake.now \in Nat /\ wake # None
      BY <1>2, IngestStep DEF IngestRange
    <3>3. bars' \in SUBSET Revision /\ StreamInv(bars')
      BY <3>1, <3>2, ExtensionKeepsOrder DEF HistoryInv, Extends
    <3>4. ASSUME steady, NEW m \in Frozen, Agrees(m) PROVE Agrees(m)'
      <4>1. SUFFICES ASSUME m.afterClose
                     PROVE  Close[m.run] < clock' /\ m.revisions = Resolve(m.run)'
        BY DEF Agrees
      <4>2. Close[m.run] < wake.now /\ m.revisions = Resolve(m.run) /\ m.run \in Runs
        BY <3>2, <3>4, <4>1 DEF Agrees, HistoryInv, Frozen, Manifest
      <4>3. \A d \in Known(m.run) : LatestBarRevisionAsOf(bars, d, Close[m.run]) # None
        <5> SUFFICES ASSUME NEW d \in Known(m.run)
                     PROVE  LatestBarRevisionAsOf(bars, d, Close[m.run]) # None
          OBVIOUS
        <5>1. m.revisions[d] \in Revision
          BY <3>4 DEF Frozen
        <5>2. m.revisions[d] = LatestBarRevisionAsOf(bars, d, Close[m.run])
          BY <4>2 DEF Resolve
        <5> QED BY <5>1, <5>2, RevisionFields
      <4>4. \A d \in Known(m.run) : LatestBarRevisionAsOf(bars', d, Close[m.run])
                                    = LatestBarRevisionAsOf(bars, d, Close[m.run])
        <5> SUFFICES ASSUME NEW d \in Known(m.run)
                     PROVE  LatestBarRevisionAsOf(bars', d, Close[m.run])
                              = LatestBarRevisionAsOf(bars, d, Close[m.run])
          OBVIOUS
        <5>1. bars \in SUBSET Revision /\ StreamInv(bars)
          BY DEF HistoryInv
        <5>2. d \in Sessions /\ Close[m.run] \in Instants /\ Close[m.run] \in Nat
          BY <4>2, StoreAssumption DEF Runs, Known
        <5>3. Visible(bars, d, Close[m.run]) # {}
          BY <4>3, <5>1, <5>2, VisibleNewest
        <5>4. LatestBarRevisionAsOf(bars \cup new, d, Close[m.run])
                = LatestBarRevisionAsOf(bars, d, Close[m.run])
          BY <3>1, <3>2, <4>2, <5>1, <5>2, <5>3, ShownStays
        <5> QED BY <3>1, <5>4
      <4>5. Resolve(m.run)' = Resolve(m.run)
        BY <4>4 DEF Resolve
      <4> QED BY <2>1, <3>2, <3>4, <4>2, <4>5 DEF HistoryInv
    <3>5. \A r \in Runs : manifests[r] # None => manifests[r] \in Frozen
      BY DEF HistoryInv
    <3> QED BY <2>1, <3>2, <3>3, <3>4, <3>5 DEF HistoryInv
  <2> QED BY <2>2, <2>3
<1>3. ASSUME NEW r \in Runs, FreezeSnapshot(r) PROVE HistoryInv'
  <2> DEFINE m == [run |-> r, afterClose |-> wake.now > Close[r], revisions |-> Resolve(r)]
  <2>1. /\ UNCHANGED <<steady, clock, bars, wake, manifests>> /\ pending' = pending \cup {m}
        /\ wake # None /\ Complete(Resolve(r))
    BY <1>3 DEF FreezeSnapshot
  <2>2. Resolve(r) \in [Known(r) -> Revision]
    <3>1. ASSUME NEW d \in Known(r) PROVE LatestBarRevisionAsOf(bars, d, Close[r]) \in Revision
      <4>1. d \in Sessions /\ Close[r] \in Instants
        BY StoreAssumption DEF Known, Runs
      <4>2. LatestBarRevisionAsOf(bars, d, Close[r]) # None
        BY <2>1 DEF Complete, Resolve
      <4> QED BY <4>1, <4>2, VisibleNewest DEF HistoryInv
    <3> QED BY <3>1 DEF Resolve
  <2>3. m \in Frozen
    <3>1. Resolve(r) \in History
      BY <2>2 DEF History, Runs
    <3> QED BY <2>2, <3>1 DEF Frozen, Manifest
  <2>4. steady => Agrees(m)
    BY <2>1 DEF Agrees, HistoryInv
  <2>5. \A x : Agrees(x)' <=> Agrees(x)
    BY <2>1 DEF Agrees, Resolve
  <2> HIDE DEF m
  <2> QED BY <2>1, <2>3, <2>4, <2>5 DEF HistoryInv
<1>4. ASSUME NEW m \in pending, StoreSnapshotManifest(m) PROVE HistoryInv'
  <2>1. /\ UNCHANGED <<steady, clock, bars, wake>> /\ pending' = pending \ {m}
        /\ manifests' \in {manifests, [manifests EXCEPT ![m.run] = m]}
    BY <1>4 DEF StoreSnapshotManifest
  <2>2. m \in Frozen /\ m.run \in Runs /\ (steady => Agrees(m))
    BY DEF HistoryInv, Frozen, Manifest
  <2>3. \A x : Agrees(x)' <=> Agrees(x)
    BY <2>1 DEF Agrees, Resolve
  <2>4. /\ manifests' \in [Runs -> Frozen \cup {None}]
        /\ \A r \in Runs : manifests'[r] = manifests[r] \/ (r = m.run /\ manifests'[r] = m)
    BY <2>1, <2>2 DEF HistoryInv
  <2> QED BY <2>1, <2>2, <2>3, <2>4 DEF HistoryInv
<1>5. ASSUME CloseStore \/ Crash \/ UNCHANGED vars PROVE HistoryInv'
  <2>1. /\ UNCHANGED <<steady, clock, bars, manifests>> /\ pending' \subseteq pending
        /\ wake' \in {wake, None}
    BY <1>5 DEF CloseStore, Crash, vars
  <2>2. \A x : Agrees(x)' <=> Agrees(x)
    BY <2>1 DEF Agrees, Resolve
  <2> QED BY <2>1, <2>2 DEF HistoryInv
<1> QED BY <1>1, <1>2, <1>3, <1>4, <1>5 DEF Next

\* The invariant holds throughout.
LEMMA HistoryInvHolds == Spec => []HistoryInv
BY InitHistoryInv, NextHistoryInv, PTL DEF Spec

-----------------------------------------------------------------------------
(* Theorems *)

\* The store, the manifests and the wake have their types: in particular no manifest
\* has a gap (freeze_snapshot).
THEOREM TypeCorrect == Spec => []TypeOK
<1>1. HistoryInv => TypeOK
  <2> SUFFICES ASSUME HistoryInv PROVE TypeOK
    OBVIOUS
  <2>1. ASSUME NEW m \in pending \cup {manifests[r] : r \in Runs}, m # None
        PROVE  m \in Frozen
    BY <2>1 DEF HistoryInv
  <2> QED BY <2>1 DEF HistoryInv, TypeOK, Frozen, Manifest
<1> QED BY <1>1, HistoryInvHolds, PTL

\* One provider, one baseline, corrections in the order they were seen: the revision
\* observed last is the one a query selects (append_bar_revisions, the ingestion plan).
THEOREM StreamsStayOrdered == Spec => []StreamsAreOrdered
<1>1. HistoryInv => StreamsAreOrdered
  <2> SUFFICES ASSUME HistoryInv, NEW s \in Sessions, Rows(bars, s) # {}
               PROVE  /\ Cardinality(BarRevisionSources(bars, s)) = 1
                      /\ \E base \in Rows(bars, s) :
                           /\ base.kind = "BASELINE" /\ base.available = Close[s]
                           /\ \A r \in Rows(bars, s) \ {base} :
                                r.kind = "CORRECTION" /\ r.available = r.ingested
                                /\ r.ingested > base.ingested
                      /\ \A r, q \in Rows(bars, s) : r.ingested = q.ingested => r = q
                      /\ \A source \in BarRevisionSources(bars, s) :
                           LatestObservedBarRevision(bars, source, s) = Newest(Rows(bars, s))
    BY DEF StreamsAreOrdered, Rows
  <2>1. PICK base, top \in Rows(bars, s) : Ordered(Rows(bars, s), s, base, top)
    BY DEF HistoryInv, StreamInv
  <2>2. /\ BarRevisionSources(bars, s) = {base.source}
        /\ LatestObservedBarRevision(bars, base.source, s) = top
        /\ Newest(Rows(bars, s)) = top
    BY <2>1, OrderedReads DEF HistoryInv
  <2>3. Cardinality(BarRevisionSources(bars, s)) = 1
    BY <2>2, FS_Singleton
  <2> QED BY <2>1, <2>2, <2>3 DEF Ordered
<1> QED BY <1>1, HistoryInvHolds, PTL

\* With a clock that never goes back, a manifest made after the close of its run is what
\* freezing the run again, or resolving its data, will always give (freeze_snapshot).
THEOREM RefreezesAgree == Spec => []RefreezeAgrees
<1>1. HistoryInv => RefreezeAgrees
  BY DEF HistoryInv, Agrees, RefreezeAgrees
<1> QED BY <1>1, HistoryInvHolds, PTL

\* Every step leaves the bars alone or is an ingestion of the wake.
LEMMA BarsStep ==
  ASSUME HistoryInv, [Next]_vars, bars' # bars
  PROVE  /\ wake # None /\ wake.now \in Nat
         /\ \E new : bars' = bars \cup new /\ Extends(bars, new, wake.source, wake.now)
<1>1. PICK requested \in SUBSET Sessions : \E fetched \in [requested -> Payloads] :
         IngestRange(requested, fetched)
  BY DEF Next, vars, OpenStore, FreezeSnapshot, StoreSnapshotManifest, CloseStore, Crash
<1> QED BY <1>1, IngestStep DEF IngestRange

\* Neither what was known at a past instant nor what a run was decided on is rewritten,
\* by any ingestion or freeze and whatever the clock does (latest_bar_revision_as_of,
\* store_snapshot_manifest).
THEOREM RecordFixed == Spec => RecordIsFixed
<1>1. ASSUME HistoryInv, [Next]_vars, wake # None, NEW s \in Sessions, NEW t \in Instants,
             t < wake.now, LatestBarRevisionAsOf(bars, s, t) # None
      PROVE  LatestBarRevisionAsOf(bars', s, t) = LatestBarRevisionAsOf(bars, s, t)
  <2>1. CASE bars' = bars
    BY <2>1
  <2>2. CASE bars' # bars
    <3>1. PICK new : bars' = bars \cup new /\ Extends(bars, new, wake.source, wake.now)
      BY <1>1, <2>2, BarsStep
    <3>2. wake.now \in Nat /\ t \in Nat
      BY <1>1, <2>2, BarsStep, StoreAssumption
    <3>3. Visible(bars, s, t) # {}
      BY <1>1, VisibleNewest DEF HistoryInv
    <3> QED BY <1>1, <3>1, <3>2, <3>3, ShownStays DEF HistoryInv
  <2> QED BY <2>1, <2>2
<1>2. ASSUME HistoryInv, [Next]_vars, NEW r \in Runs, manifests[r] # None
      PROVE  manifests'[r] # None /\ manifests'[r].revisions = manifests[r].revisions
  <2>1. ASSUME NEW m \in pending, StoreSnapshotManifest(m)
        PROVE  manifests'[r] # None /\ manifests'[r].revisions = manifests[r].revisions
    <3>1. m \in Frozen /\ m \in Manifest /\ m # None /\ m.run \in Runs
      BY <1>2, NoneAssumption DEF HistoryInv, Frozen, Manifest
    <3>2. CASE MayStoreManifest(m)
      <4>1. manifests' = [manifests EXCEPT ![m.run] = m]
        BY <2>1, <3>2 DEF StoreSnapshotManifest
      <4>2. manifests \in [Runs -> Frozen \cup {None}]
        BY <1>2 DEF HistoryInv
      <4>3. CASE r = m.run
        BY <1>2, <3>1, <3>2, <4>1, <4>2, <4>3 DEF MayStoreManifest
      <4>4. CASE r # m.run
        BY <1>2, <4>1, <4>2, <4>4
      <4> QED BY <4>3, <4>4
    <3>3. CASE ~MayStoreManifest(m)
      BY <1>2, <2>1, <3>3 DEF StoreSnapshotManifest
    <3> QED BY <3>2, <3>3
  <2>2. CASE manifests' = manifests
    BY <1>2, <2>2
  <2>3. manifests' # manifests => \E m \in pending : StoreSnapshotManifest(m)
    BY <1>2 DEF Next, vars, OpenStore, IngestRange, FreezeSnapshot, CloseStore, Crash
  <2> QED BY <2>1, <2>2, <2>3
<1>3. HistoryInv /\ [Next]_vars =>
        [wake # None => \A s \in Sessions, t \in Instants :
           t < wake.now /\ LatestBarRevisionAsOf(bars, s, t) # None =>
             LatestBarRevisionAsOf(bars', s, t) = LatestBarRevisionAsOf(bars, s, t)]_vars
  BY <1>1
<1>4. HistoryInv /\ [Next]_vars =>
        [\A r \in Runs : manifests[r] # None =>
           manifests'[r] # None /\ manifests'[r].revisions = manifests[r].revisions]_vars
  BY <1>2
<1>5. Spec => PastIsStable
  BY <1>3, HistoryInvHolds, PTL DEF Spec, PastIsStable
<1>6. Spec => ManifestsAreFixed
  BY <1>4, HistoryInvHolds, PTL DEF Spec, ManifestsAreFixed
<1> QED BY <1>5, <1>6, PTL DEF RecordIsFixed

\* A specification whose sessions all had a bar at their close runs as it was built, for
\* ever (build_real_data_backtest_spec, _validate_open_frame_sources).
THEOREM SpecsStillRun == Spec => SpecStillRuns
<1>1. ASSUME HistoryInv, [Next]_vars, NEW s \in Sessions,
             LatestBarRevisionAsOf(bars, s, Close[s]) # None
      PROVE  LatestBarRevisionAsOf(bars', s, Close[s]) = LatestBarRevisionAsOf(bars, s, Close[s])
  <2>1. CASE bars' = bars
    BY <2>1
  <2>2. CASE bars' # bars
    <3>1. PICK new : bars' = bars \cup new /\ Extends(bars, new, wake.source, wake.now)
      BY <1>1, <2>2, BarsStep
    <3>2. wake.now \in Nat /\ Close[s] \in Nat /\ Close[s] \in Instants
      BY <1>1, <2>2, BarsStep, StoreAssumption
    <3>3. Visible(bars, s, Close[s]) # {}
      BY <1>1, <3>2, VisibleNewest DEF HistoryInv
    <3> QED BY <1>1, <3>1, <3>2, <3>3, ShownStays DEF HistoryInv
  <2> QED BY <2>1, <2>2
<1>2. ASSUME HistoryInv, [Next]_vars, NEW spec, spec = OwnRevisions, Complete(spec)
      PROVE  OpenFrameSourcesMatch(spec)'
  <2>1. \A s \in Sessions : /\ spec[s] = LatestBarRevisionAsOf(bars, s, Close[s])
                            /\ spec[s] # None
    BY <1>2 DEF OwnRevisions, Complete
  <2>2. \A s \in Sessions : s \in Known(s)
    BY StoreAssumption DEF Known
  <2>3. \A s \in Sessions : Resolve(s)'[s] = LatestBarRevisionAsOf(bars', s, Close[s])
    BY <2>2 DEF Resolve
  <2> QED BY <1>1, <1>2, <2>1, <2>3 DEF OpenFrameSourcesMatch
<1>3. HistoryInv /\ [Next]_vars =>
        [\A spec \in {OwnRevisions} : Complete(spec) => OpenFrameSourcesMatch(spec)']_vars
  BY <1>2
<1> QED BY <1>3, HistoryInvHolds, PTL DEF Spec, SpecStillRuns

-----------------------------------------------------------------------------
(* LiveVerification *)

Ready == {"digest", "check", "create", "write", "replace"}

\* The calls a file of a job may report, and the decisions they are for
Accounted(job, calls, journal) ==
  IF job = FixtureJob
  THEN Lifecycle(journal) /\ calls = Cardinality(DOMAIN journal)
  ELSE calls = 1

\* What a verifier has found by each step
PInv(me) ==
  /\ me \in Process
  /\ me.pc = "idle" <=> me.job = None
  /\ me.pc = "fetch" => me.job # FixtureJob /\ me.calls = 0 /\ me.rows = None
  /\ me.pc = "assemble" => me.job # FixtureJob /\ me.rows \in AllRows /\ me.calls = 1
  /\ me.pc \in {"load", "record", "replay", "check"} => me.job = FixtureJob
  /\ me.pc \in {"record", "replay"} => me.rows = Fixture
  /\ me.pc \in Ready =>
       DOMAIN me.rows = Sessions /\ Accounted(me.job, me.calls, me.journal)
  /\ me.pc \in Ready \ {"digest"} => me.digest \in Digests

\* The content of an evidence file of a job
Sound(c, job) ==
  c.sessions = Sessions /\ Accounted(job, c.calls, c.journal)

Staged(file, me) ==
  file # None =>
    /\ me.pc \in {"write", "replace"}
    /\ Sound(file.content, me.job)
    /\ me.pc = "replace" => file.whole

Published == \A j \in Jobs : evidence[j] # None =>
               evidence[j].whole /\ Sound(evidence[j].content, j)

VerifyInv ==
  /\ tree \in Tree
  /\ DOMAIN proc = Verifiers /\ DOMAIN staging = Verifiers /\ DOMAIN evidence = Jobs
  /\ \A v \in Verifiers : PInv(proc[v]) /\ Staged(staging[v], proc[v])
  /\ Published

-----------------------------------------------------------------------------
(* What the verifiers establish *)

\* An assembly is complete only if the provider gave a bar for every session.
LEMMA CompleteMeansAll ==
  ASSUME NEW rows \in AllRows, NEW now, CompleteAssemblies(rows, now)
  PROVE  DOMAIN rows = Sessions
<1> DEFINE first == Ingest({}, Provider, Sessions, rows, now)
<1>1. DOMAIN rows \subseteq Sessions
  BY DEF AllRows
<1>2. first \subseteq Candidates({}, Provider, rows, now)
  BY DEF Ingest, AppendBarRevisions
<1>3. \A r \in first : r.session \in DOMAIN rows
  <2> HIDE DEF first
  <2> QED BY <1>2 DEF Candidates, Candidate
<1>4. \A s \in Sessions : LatestBarRevisionAsOf(first, s, Close[s]) # None
  BY DEF CompleteAssemblies
<1> HIDE DEF first
<1>5. \A s \in Sessions : \E r \in first : r.session = s
  BY <1>4 DEF LatestBarRevisionAsOf
<1> QED BY <1>1, <1>3, <1>5

LEMMA IdleFits == PInv(Idle)
BY VerificationAssumption DEF PInv, Idle, Process, PCs, Ready

\* What is written is what the verifier found.
LEMMA ContentIsSound ==
  ASSUME NEW v \in Verifiers, PInv(proc[v]), proc[v].pc \in {"create", "write", "replace"}
  PROVE  Sound(ContentOf(v), proc[v].job)
BY DEF PInv, Sound, ContentOf, Ready

-----------------------------------------------------------------------------
(* Steps *)

LEMMA AdvanceShape ==
  ASSUME VerifyInv, NEW v \in Verifiers, NEW from, NEW next, Advance(v, from, next)
  PROVE  /\ proc[v].pc = from /\ DOMAIN proc' = Verifiers /\ proc'[v] = next
         /\ \A u \in Verifiers : u # v => proc'[u] = proc[u]
BY DEF VerifyInv, Advance

\* A verifier that has no staging file goes on, or gives up.
LEMMA GoesOn ==
  ASSUME VerifyInv, NEW v \in Verifiers, NEW from, NEW next, Advance(v, from, next),
         from \notin {"write", "replace"}, PInv(next),
         UNCHANGED <<tree, staging, evidence>>
  PROVE  VerifyInv'
<1>1. /\ proc[v].pc = from /\ DOMAIN proc' = Verifiers /\ proc'[v] = next
      /\ \A u \in Verifiers : u # v => proc'[u] = proc[u]
  BY AdvanceShape
<1>2. staging[v] = None
  BY <1>1 DEF VerifyInv, Staged
<1>3. ASSUME NEW u \in Verifiers PROVE PInv(proc[u])' /\ Staged(staging[u], proc[u])'
  <2>1. PInv(proc'[u]) /\ Staged(staging[u], proc'[u])
    BY <1>1, <1>2 DEF VerifyInv, Staged
  <2> QED BY <2>1 DEF PInv, Staged
<1> QED BY <1>1, <1>3 DEF VerifyInv, Published

\* A verifier steps, and its staging file with it.
LEMMA Stages ==
  ASSUME VerifyInv, NEW v \in Verifiers, NEW from, NEW next, Advance(v, from, next), PInv(next),
         NEW file, staging' = [staging EXCEPT ![v] = file], Staged(file, next),
         UNCHANGED tree, DOMAIN evidence' = Jobs, Published'
  PROVE  VerifyInv'
<1>1. /\ DOMAIN proc' = Verifiers /\ proc'[v] = next
      /\ \A u \in Verifiers : u # v => proc'[u] = proc[u]
  BY AdvanceShape
<1>2. /\ DOMAIN staging' = Verifiers /\ staging'[v] = file
      /\ \A u \in Verifiers : u # v => staging'[u] = staging[u]
  BY DEF VerifyInv
<1>3. ASSUME NEW u \in Verifiers PROVE PInv(proc[u])' /\ Staged(staging[u], proc[u])'
  <2>1. PInv(proc'[u]) /\ Staged(staging'[u], proc'[u])
    BY <1>1, <1>2 DEF VerifyInv
  <2> QED BY <2>1 DEF PInv, Staged
<1> QED BY <1>1, <1>2, <1>3 DEF VerifyInv

LEMMA InitVerifyInv == VerifyInit => VerifyInv
<1> SUFFICES ASSUME VerifyInit PROVE VerifyInv
  OBVIOUS
<1>1. tree \in Tree
  BY VerificationAssumption DEF VerifyInit, Tree, Versions
<1>2. \A v \in Verifiers : proc[v] = Idle /\ staging[v] = None
  BY DEF VerifyInit
<1>3. \A v \in Verifiers : PInv(proc[v]) /\ Staged(staging[v], proc[v])
  BY <1>2, IdleFits DEF Staged
<1> QED BY <1>1, <1>3 DEF VerifyInit, VerifyInv, Published

\* A live schedule: the bars of every session, fetched once.
LEMMA LiveKeeps ==
  ASSUME VerifyInv, NEW v \in Verifiers,
         \/ \E job \in Jobs, now \in Instants : StartLive(v, job, now)
         \/ \E rows \in AllRows : FetchBars(v, rows)
         \/ AssembleTwice(v)
  PROVE  VerifyInv'
<1> DEFINE me == proc[v]
<1>1. PInv(me) /\ me \in Process /\ tree \in Tree
  BY DEF VerifyInv, PInv
<1>2. ASSUME NEW job \in Jobs, NEW now \in Instants, StartLive(v, job, now) PROVE VerifyInv'
  <2> DEFINE next == [Idle EXCEPT !.pc = "fetch", !.job = job, !.now = now]
  <2>1. /\ job # FixtureJob /\ Advance(v, "idle", next) /\ UNCHANGED <<tree, staging, evidence>>
    BY <1>2 DEF StartLive
  <2>2. Idle \in Process
    BY IdleFits DEF PInv
  <2>3. /\ next \in Process /\ next.pc = "fetch" /\ next.job = job
        /\ next.calls = 0 /\ next.rows = None
    BY <1>1, <2>2 DEF Idle, Process, PCs
  <2> HIDE DEF next
  <2>4. PInv(next)
    BY <2>1, <2>3, VerificationAssumption DEF PInv, Ready
  <2> QED BY <2>1, <2>4, GoesOn
<1>3. ASSUME NEW rows \in AllRows, FetchBars(v, rows) PROVE VerifyInv'
  <2> DEFINE next == [me EXCEPT !.pc = "assemble", !.rows = rows,
                                !.calls = @ + CallsFor(me.rows)]
  <2>1. UNCHANGED <<tree, staging, evidence>>
    BY <1>3 DEF FetchBars
  <2>2. CASE Advance(v, "fetch", next)
    <3>1. me.pc = "fetch" /\ me.calls + CallsFor(me.rows) = 1
      BY <1>1, <2>2 DEF Advance, PInv, CallsFor
    <3>2. /\ next \in Process /\ next.pc = "assemble" /\ next.job = me.job
          /\ next.rows = rows /\ next.calls = 1
      <4>1. next = [me EXCEPT !.pc = "assemble", !.rows = rows, !.calls = 1]
        BY <3>1
      <4> HIDE DEF next
      <4> QED BY <1>1, <1>3, <4>1 DEF Process, PCs
    <3> HIDE DEF next
    <3>3. PInv(next)
      BY <1>1, <1>3, <3>1, <3>2, VerificationAssumption DEF PInv, Ready
    <3> QED BY <2>1, <2>2, <3>3, GoesOn
  <2>3. CASE Fail(v, "fetch")
    BY <2>1, <2>3, IdleFits, GoesOn DEF Fail
  <2> QED BY <1>3, <2>2, <2>3 DEF FetchBars
<1>4. CASE AssembleTwice(v)
  <2> DEFINE next == [me EXCEPT !.pc = "digest", !.calls = @ + CallsFor(me.rows)]
  <2>1. UNCHANGED <<tree, staging, evidence>>
    BY <1>4 DEF AssembleTwice
  <2>2. CASE CompleteAssemblies(me.rows, me.now) /\ Advance(v, "assemble", next)
    <3>1. me.pc = "assemble" /\ me.rows \in AllRows /\ me.calls = 1 /\ me.job # FixtureJob
      BY <1>1, <2>2 DEF Advance, PInv
    <3>2. me.calls + CallsFor(me.rows) = 1
      BY <3>1, VerificationAssumption DEF CallsFor
    <3>3. /\ next \in Process /\ next.pc = "digest" /\ next.job = me.job
          /\ next.rows = me.rows /\ next.calls = 1
      <4>1. next = [me EXCEPT !.pc = "digest", !.calls = 1]
        BY <3>2
      <4> HIDE DEF next
      <4> QED BY <1>1, <4>1 DEF Process, PCs
    <3>4. DOMAIN next.rows = Sessions
      BY <2>2, <3>1, <3>3, CompleteMeansAll
    <3> HIDE DEF next
    <3>5. PInv(next)
      BY <1>1, <3>1, <3>3, <3>4 DEF PInv, Ready, Accounted
    <3> QED BY <2>1, <2>2, <3>5, GoesOn
  <2>3. CASE Fail(v, "assemble")
    BY <2>1, <2>3, IdleFits, GoesOn DEF Fail
  <2> QED BY <1>4, <2>2, <2>3 DEF AssembleTwice
<1> QED BY <1>2, <1>3, <1>4

\* The fixture: recorded, and replayed from the journal.
LEMMA FixtureKeeps ==
  ASSUME VerifyInv, NEW v \in Verifiers,
         \/ FixtureJob \in Jobs /\ StartFixture(v)
         \/ \E rows \in AllRows : LoadFixture(v, rows)
         \/ \E offer \in Offers : RecordRun(v, offer)
         \/ ReplayRun(v)
  PROVE  VerifyInv'
<1> DEFINE me == proc[v]
<1>1. PInv(me) /\ me \in Process /\ tree \in Tree
  BY DEF VerifyInv, PInv
<1>2. CASE FixtureJob \in Jobs /\ StartFixture(v)
  <2> DEFINE next == [Idle EXCEPT !.pc = "load", !.job = FixtureJob]
  <2>1. Advance(v, "idle", next) /\ UNCHANGED <<tree, staging, evidence>>
    BY <1>2 DEF StartFixture
  <2>2. Idle \in Process
    BY IdleFits DEF PInv
  <2>3. next \in Process /\ next.pc = "load" /\ next.job = FixtureJob
    BY <1>1, <1>2, <2>2 DEF Idle, Process, PCs
  <2> HIDE DEF next
  <2>4. PInv(next)
    BY <1>2, <2>3, VerificationAssumption DEF PInv, Ready
  <2> QED BY <2>1, <2>4, GoesOn
<1>3. ASSUME NEW rows \in AllRows, LoadFixture(v, rows) PROVE VerifyInv'
  <2> DEFINE next == [me EXCEPT !.pc = "record", !.rows = rows]
  <2>1. UNCHANGED <<tree, staging, evidence>>
    BY <1>3 DEF LoadFixture
  <2>2. CASE rows = Fixture /\ Advance(v, "load", next)
    <3>1. /\ next \in Process /\ next.pc = "record" /\ next.job = me.job
          /\ next.rows = Fixture /\ me.pc = "load"
      BY <1>1, <2>2 DEF Process, PCs, Advance
    <3> HIDE DEF next
    <3>2. PInv(next)
      BY <1>1, <3>1 DEF PInv, Ready
    <3> QED BY <2>1, <2>2, <3>2, GoesOn
  <2>3. CASE Fail(v, "load")
    BY <2>1, <2>3, IdleFits, GoesOn DEF Fail
  <2> QED BY <1>3, <2>2, <2>3 DEF LoadFixture
<1>4. ASSUME NEW offer \in Offers, RecordRun(v, offer) PROVE VerifyInv'
  <2> DEFINE journal == [s \in Asked(offer) |-> FixtureAnswer(s, offer[s])]
             calls == me.calls + Cardinality(Asked(offer))
             next == [me EXCEPT !.pc = "replay", !.calls = calls, !.journal = journal]
  <2>1. /\ Advance(v, "record", next) /\ UNCHANGED <<tree, staging, evidence>>
    BY <1>4 DEF RecordRun
  <2>2. Asked(offer) \subseteq Sessions /\ IsFiniteSet(Asked(offer))
    BY VerificationAssumption, FS_Subset DEF Asked
  <2>3. Cardinality(Asked(offer)) \in Nat
    BY <2>2, FS_CardinalityType
  <2>4. journal \in Journals
    <3>1. ASSUME NEW s \in Asked(offer) PROVE FixtureAnswer(s, offer[s]) \in Actions
      <4>1. offer[s].legal \in Seq(Actions) /\ offer[s].legal # <<>>
        BY <2>2, VerificationAssumption DEF Asked
      <4>2. offer[s].legal[1] \in Actions
        BY <4>1
      <4> QED BY <4>2 DEF FixtureAnswer, Actions
    <3>2. journal \in [Asked(offer) -> Actions]
      BY <3>1
    <3> QED BY <2>2, <3>2 DEF Journals
  <2>5. calls \in Nat
    BY <1>1, <2>3 DEF Process
  <2> HIDE DEF journal, calls
  <2>6. /\ next \in Process /\ next.pc = "replay" /\ next.job = me.job
        /\ next.rows = me.rows /\ me.pc = "record"
    BY <1>1, <2>1, <2>4, <2>5 DEF Process, PCs, Advance
  <2> HIDE DEF next
  <2>7. PInv(next)
    BY <1>1, <2>6 DEF PInv, Ready
  <2> QED BY <2>1, <2>7, GoesOn
<1>5. CASE ReplayRun(v)
  <2> DEFINE next == [me EXCEPT !.pc = "digest"]
  <2>1. UNCHANGED <<tree, staging, evidence>>
    BY <1>5 DEF ReplayRun
  <2>2. CASE /\ Lifecycle(me.journal) /\ me.calls = Cardinality(DOMAIN me.journal)
             /\ Advance(v, "replay", next)
    <3>1. /\ next \in Process /\ next.pc = "digest" /\ next.job = me.job
          /\ next.rows = me.rows /\ next.calls = me.calls
          /\ next.journal = me.journal /\ me.pc = "replay"
      BY <1>1, <2>2 DEF Process, PCs, Advance
    <3> HIDE DEF next
    <3>2. DOMAIN Fixture = Sessions
      BY VerificationAssumption
    <3>3. PInv(next)
      BY <1>1, <2>2, <3>1, <3>2 DEF PInv, Ready, Accounted
    <3> QED BY <2>1, <2>2, <3>3, GoesOn
  <2>3. CASE Fail(v, "replay")
    BY <2>1, <2>3, IdleFits, GoesOn DEF Fail
  <2> QED BY <1>5, <2>2, <2>3 DEF ReplayRun
<1> QED BY <1>2, <1>3, <1>4, <1>5

\* The digest is of the parts its verifier covers.
LEMMA DigestKeeps ==
  ASSUME VerifyInv, NEW v \in Verifiers, TakeDigest(v) \/ VerifyEvidence(v)
  PROVE  VerifyInv'
<1> DEFINE me == proc[v]
<1>1. PInv(me) /\ me \in Process /\ tree \in Tree
  BY DEF VerifyInv, PInv
<1>2. CASE TakeDigest(v)
  <2> DEFINE next == [me EXCEPT !.digest = SourceDigest(me.job, tree),
                                !.pc = IF me.job = FixtureJob THEN "check" ELSE "create"]
  <2>1. Advance(v, "digest", next) /\ UNCHANGED <<tree, staging, evidence>>
    BY <1>2 DEF TakeDigest
  <2>2. me.pc = "digest" /\ me.job \in Jobs
    BY <1>1, <2>1 DEF Advance, PInv, Process
  <2>3. SourceDigest(me.job, tree) \in Digests
    <3>1. DigestedParts[me.job] \subseteq Parts
      BY <2>2, VerificationAssumption
    <3> QED BY <1>1, <3>1 DEF SourceDigest, Digests, Tree
  <2>4. /\ next \in Process /\ next.digest = SourceDigest(me.job, tree)
        /\ next.job = me.job /\ next.rows = me.rows /\ next.calls = me.calls
        /\ next.journal = me.journal
        /\ next.pc = IF me.job = FixtureJob THEN "check" ELSE "create"
    BY <1>1, <2>1, <2>3 DEF Process, PCs, Advance
  <2> HIDE DEF next
  <2>5. PInv(next)
    BY <1>1, <2>2, <2>3, <2>4 DEF PInv, Ready
  <2> QED BY <2>1, <2>5, GoesOn
<1>3. CASE VerifyEvidence(v)
  <2> DEFINE next == [me EXCEPT !.pc = "create"]
  <2>1. UNCHANGED <<tree, staging, evidence>>
    BY <1>3 DEF VerifyEvidence
  <2>2. CASE Advance(v, "check", next)
    <3>1. /\ next \in Process /\ next.pc = "create" /\ next.digest = me.digest
          /\ next.job = me.job
          /\ next.rows = me.rows /\ next.calls = me.calls /\ next.journal = me.journal
          /\ me.pc = "check"
      BY <1>1, <2>2 DEF Process, PCs, Advance
    <3> HIDE DEF next
    <3>2. PInv(next)
      BY <1>1, <3>1 DEF PInv, Ready
    <3> QED BY <2>1, <2>2, <3>2, GoesOn
  <2>3. CASE Fail(v, "check")
    BY <2>1, <2>3, IdleFits, GoesOn DEF Fail
  <2> QED BY <1>3, <2>2, <2>3 DEF VerifyEvidence
<1> QED BY <1>2, <1>3

\* The evidence goes through a staging file of the verifier's own.
LEMMA EvidenceKeeps ==
  ASSUME VerifyInv, NEW v \in Verifiers,
         \/ CreateStaging(v) \/ WriteStaging(v) \/ ReplaceEvidence(v) \/ DropStaging(v)
         \/ Die(v)
  PROVE  VerifyInv'
<1> DEFINE me == proc[v]
<1>1. PInv(me) /\ me \in Process /\ Staged(staging[v], me) /\ Published
      /\ DOMAIN evidence = Jobs /\ DOMAIN proc = Verifiers
  BY DEF VerifyInv, PInv
<1>2. UNCHANGED evidence => DOMAIN evidence' = Jobs /\ Published'
  BY <1>1 DEF Published
<1>3. CASE CreateStaging(v)
  <2> DEFINE next == [me EXCEPT !.pc = "write"]
             file == [content |-> ContentOf(v), whole |-> FALSE]
  <2>1. /\ Advance(v, "create", next) /\ staging' = [staging EXCEPT ![v] = file]
        /\ UNCHANGED <<tree, evidence>>
    BY <1>3 DEF CreateStaging, StagingName
  <2>2. /\ next \in Process /\ next.pc = "write" /\ next.digest = me.digest
        /\ next.job = me.job
        /\ next.rows = me.rows /\ next.calls = me.calls /\ next.journal = me.journal
        /\ me.pc = "create"
    BY <1>1, <2>1 DEF Process, PCs, Advance
  <2>3. Sound(file.content, me.job)
    BY <1>1, <2>2, ContentIsSound
  <2> HIDE DEF next, file
  <2>4. PInv(next) /\ Staged(file, next)
    BY <1>1, <2>2, <2>3 DEF PInv, Ready, Staged
  <2> QED BY <1>2, <2>1, <2>4, Stages
<1>4. CASE WriteStaging(v)
  <2> DEFINE next == [me EXCEPT !.pc = "replace"]
             file == [content |-> ContentOf(v), whole |-> TRUE]
  <2>1. /\ Advance(v, "write", next) /\ staging' = [staging EXCEPT ![v] = file]
        /\ UNCHANGED <<tree, evidence>>
    BY <1>4 DEF WriteStaging, StagingName
  <2>2. /\ next \in Process /\ next.pc = "replace" /\ next.digest = me.digest
        /\ next.job = me.job
        /\ next.rows = me.rows /\ next.calls = me.calls /\ next.journal = me.journal
        /\ me.pc = "write"
    BY <1>1, <2>1 DEF Process, PCs, Advance
  <2>3. Sound(file.content, me.job) /\ file.whole
    BY <1>1, <2>2, ContentIsSound
  <2> HIDE DEF next, file
  <2>4. PInv(next) /\ Staged(file, next)
    BY <1>1, <2>2, <2>3 DEF PInv, Ready, Staged
  <2> QED BY <1>2, <2>1, <2>4, Stages
<1>5. CASE ReplaceEvidence(v)
  <2>1. /\ Advance(v, "replace", Idle) /\ staging[v] # None
        /\ evidence' = [evidence EXCEPT ![me.job] = staging[v]]
        /\ staging' = [staging EXCEPT ![v] = None] /\ UNCHANGED tree
    BY <1>5 DEF ReplaceEvidence, StagingName, Fail
  <2>2. me.pc = "replace" /\ me.job \in Jobs
    BY <1>1, <2>1 DEF Advance, PInv, Process
  <2>3. staging[v].whole /\ Sound(staging[v].content, me.job)
    BY <1>1, <2>1, <2>2 DEF Staged
  <2>4. DOMAIN evidence' = Jobs /\ Published'
    BY <1>1, <2>1, <2>2, <2>3 DEF Published, Sound, Accounted
  <2>5. Staged(None, Idle)
    BY DEF Staged
  <2> QED BY <2>1, <2>4, <2>5, IdleFits, Stages
<1>6. CASE DropStaging(v)
  <2>1. /\ Advance(v, "write", Idle) \/ Advance(v, "replace", Idle)
        /\ staging' = [staging EXCEPT ![v] = None] /\ UNCHANGED <<tree, evidence>>
    BY <1>6 DEF DropStaging, StagingName, Fail
  <2>2. Staged(None, Idle)
    BY DEF Staged
  <2> QED BY <1>2, <2>1, <2>2, IdleFits, Stages
<1>7. CASE Die(v)
  <2>1. /\ Advance(v, me.pc, Idle)
        /\ staging' = [staging EXCEPT ![v] = None] /\ UNCHANGED <<tree, evidence>>
    BY <1>7 DEF Die, Advance
  <2>2. Staged(None, Idle)
    BY DEF Staged
  <2> QED BY <1>2, <2>1, <2>2, IdleFits, Stages
<1> QED BY <1>3, <1>4, <1>5, <1>6, <1>7

\* An edit leaves the verifiers, which have loaded their code, as they are.
LEMMA EditKeeps ==
  ASSUME VerifyInv, NEW p \in Parts, Edit(p)
  PROVE  VerifyInv'
<1>1. /\ tree[p] < MaxEdits /\ tree' = [tree EXCEPT ![p] = @ + 1]
      /\ UNCHANGED <<proc, staging, evidence>>
  BY DEF Edit
<1>2. tree' \in Tree
  <2>1. tree[p] \in 0 .. MaxEdits /\ tree \in Tree
    BY DEF VerifyInv, Tree, Versions
  <2>2. tree[p] + 1 \in 0 .. MaxEdits
    BY <1>1, <2>1, VerificationAssumption
  <2> QED BY <1>1, <2>1, <2>2 DEF Tree, Versions
<1> QED BY <1>1, <1>2 DEF VerifyInv, PInv, Staged, Published

LEMMA NextVerifyInv == VerifyInv /\ [VerifyNext]_verifyVars => VerifyInv'
<1> SUFFICES ASSUME VerifyInv, [VerifyNext]_verifyVars PROVE VerifyInv'
  OBVIOUS
<1>1. ASSUME NEW v \in Verifiers, Step(v) PROVE VerifyInv'
  BY <1>1, LiveKeeps, FixtureKeeps, DigestKeeps, EvidenceKeeps DEF Step
<1>2. ASSUME NEW v \in Verifiers, Die(v) PROVE VerifyInv'
  BY <1>2, EvidenceKeeps
<1>3. ASSUME NEW p \in Parts, Edit(p) PROVE VerifyInv'
  BY <1>3, EditKeeps
<1>4. CASE UNCHANGED verifyVars
  BY <1>4 DEF verifyVars, VerifyInv, PInv, Staged, Published
<1> QED BY <1>1, <1>2, <1>3, <1>4 DEF VerifyNext

\* The invariant holds in every behaviour.
LEMMA VerifyInvHolds == VerifySpec => []VerifyInv
BY InitVerifyInv, NextVerifyInv, PTL DEF VerifySpec

-----------------------------------------------------------------------------
(* Theorems *)

\* Whatever verifiers overlap, fail or die, an evidence file is whole and reports a run
\* that was complete, with no call it does not account for, and no staging file outlives its verifier's attempt
\* (atomic_write_evidence, _require_complete_assemblies, _assemble_evidence).
THEOREM EvidenceStaysSound == VerifySpec => []EvidenceIsSound
<1>1. VerifyInv => EvidenceIsSound
  <2> SUFFICES ASSUME VerifyInv PROVE EvidenceIsSound
    OBVIOUS
  <2>1. ASSUME NEW v \in Verifiers
        PROVE  /\ proc[v].pc \in PCs
               /\ (proc[v].pc # "idle") = (proc[v].job \in Jobs)
               /\ proc[v].pc \in {"create", "write", "replace"} => proc[v].digest \in Digests
               /\ staging[v] # None => proc[v].pc \in {"write", "replace"}
    BY VerificationAssumption DEF VerifyInv, PInv, Staged, Process, Ready
  <2>2. VerifyTypeOK
    BY <2>1 DEF VerifyInv, VerifyTypeOK
  <2> QED BY <2>2 DEF VerifyInv, Published, Sound, Accounted, EvidenceIsSound
<1> QED BY <1>1, VerifyInvHolds, PTL

=============================================================================
