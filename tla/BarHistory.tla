----------------------------- MODULE BarHistory -----------------------------
(***************************************************************************)
(* The history of a symbol's bars, and what is derived from it: frozen     *)
(* snapshot manifests (runtime/snapshots.py, runtime/store.py), real-data  *)
(* backtest specifications (backtest/real_data.py) and the data a backtest *)
(* run resolves (backtest/runner.py).                                      *)
(*                                                                         *)
(* The bar store is a DuckDB file that one process at a time can open: a   *)
(* wake opens it, ingests, freezes, builds and runs with one reading of    *)
(* the clock, and closes it or dies.  A frozen manifest may reach the      *)
(* runtime store after the wake that froze it has let go of the bars.      *)
(* The wall clock may be set back: the variable steady says it is not.     *)
(***************************************************************************)
EXTENDS PointInTimeStore

VARIABLES
  steady,     \* does every wake read a later instant than the one before?
  clock,      \* the reading of the last wake, kept while it is a lower bound
  bars,       \* the rows of the bar store
  wake,       \* the process that has the bar store open, or None
  pending,    \* manifests frozen and not yet stored
  manifests   \* runtime.sqlite: table snapshot_manifests, by run

vars == <<steady, clock, bars, wake, pending, manifests>>

\* Run s trades on session s and knows the sessions up to s as of its close.
Runs == Sessions
Known(s) == {d \in Sessions : d <= s}

History == UNION {[Known(s) -> Revision] : s \in Sessions}
Manifest == [run : Runs, afterClose : BOOLEAN, revisions : History]
Wake == [now : Instants, source : Sources]

\* The clock has a reading before every wake.
ASSUME ClockAssumption == 0 \in Instants

ASSUME NoneAssumption == None \notin Revision \cup History \cup Manifest \cup Wake

\* The rows that sessions 1 .. s show as of the close of s: what freeze_snapshot
\* selects for run s, and what the runner resolves for session s of a backtest
Resolve(s) == [d \in Known(s) |-> LatestBarRevisionAsOf(bars, d, Close[s])]
Complete(history) == \A d \in DOMAIN history : history[d] # None

TypeOK ==
  /\ steady \in BOOLEAN
  /\ clock \in Instants
  /\ bars \subseteq Revision
  /\ wake # None => wake \in Wake
  /\ \A m \in pending \cup {manifests[r] : r \in Runs} : m # None =>
       /\ m.run \in Runs /\ m.afterClose \in BOOLEAN
       /\ m.revisions \in [Known(m.run) -> Revision]

Init ==
  /\ steady \in BOOLEAN
  /\ clock = 0
  /\ bars = {}
  /\ wake = None
  /\ pending = {}
  /\ manifests = [r \in Runs |-> None]

-----------------------------------------------------------------------------
(* A wake has the bar store to itself *)

OpenStore(source, t) ==
  /\ wake = None
  /\ steady => t > clock
  /\ clock' = IF steady THEN t ELSE clock
  /\ wake' = [now |-> t, source |-> source]
  /\ UNCHANGED <<steady, bars, pending, manifests>>

\* IncrementalBarIngestor.ingest of one range, with what the provider returned
IngestRange(requested, fetched) ==
  /\ wake # None
  /\ bars' = Ingest(bars, wake.source, requested, fetched, wake.now)
  /\ UNCHANGED <<steady, clock, wake, pending, manifests>>

\* Mutant: a missing session is left out instead of refused.
FreezeSnapshot_Gaps(r) ==
  /\ wake # None
  /\ \E d \in Known(r) : LatestBarRevisionAsOf(bars, d, Close[r]) # None
  /\ pending' = pending \cup
       {[run |-> r, afterClose |-> wake.now > Close[r], revisions |-> Resolve(r)]}
  /\ UNCHANGED <<steady, clock, bars, wake, manifests>>

\* freeze_snapshot of a run; SnapshotIncompleteError if a session is missing
FreezeSnapshot(r) ==
  /\ wake # None
  /\ Complete(Resolve(r))
  /\ pending' = pending \cup
       {[run |-> r, afterClose |-> wake.now > Close[r], revisions |-> Resolve(r)]}
  /\ UNCHANGED <<steady, clock, bars, wake, manifests>>

\* A first manifest for the run, or one with the same digest
MayStoreManifest(m) ==
  manifests[m.run] # None => manifests[m.run].revisions = m.revisions

\* store_snapshot_manifest; a conflict is a StoreError and changes nothing.
StoreSnapshotManifest(m) ==
  /\ m \in pending
  /\ pending' = pending \ {m}
  /\ manifests' = IF MayStoreManifest(m) THEN [manifests EXCEPT ![m.run] = m]
                                         ELSE manifests
  /\ UNCHANGED <<steady, clock, bars, wake>>

CloseStore ==
  /\ wake # None
  /\ wake' = None
  /\ UNCHANGED <<steady, clock, bars, pending, manifests>>

\* The process dies with the manifests it holds.
Crash ==
  /\ wake # None \/ pending # {}
  /\ wake' = None
  /\ pending' = {}
  /\ UNCHANGED <<steady, clock, bars, manifests>>

Next ==
  \/ \E source \in Sources, t \in Instants : OpenStore(source, t)
  \/ \E requested \in SUBSET Sessions : \E fetched \in [requested -> Payloads] :
       IngestRange(requested, fetched)
  \/ \E r \in Runs : FreezeSnapshot(r)
  \/ \E m \in pending : StoreSnapshotManifest(m)
  \/ CloseStore \/ Crash

Spec == Init /\ [][Next]_vars

-----------------------------------------------------------------------------
(* Properties *)

\* One provider owns a session; its stream starts with one revision known at
\* the close and goes on with corrections, each known when it was ingested, so
\* that the revision ingested last is also the one every later query selects.
StreamsAreOrdered ==
  \A s \in Sessions : LET rows == {r \in bars : r.session = s} IN
    rows # {} =>
      /\ Cardinality(BarRevisionSources(bars, s)) = 1
      /\ \E base \in rows :
           /\ base.kind = "BASELINE" /\ base.available = Close[s]
           /\ \A r \in rows \ {base} :
                r.kind = "CORRECTION" /\ r.available = r.ingested
                /\ r.ingested > base.ingested
      /\ \A r, q \in rows : r.ingested = q.ingested => r = q
      /\ \A source \in BarRevisionSources(bars, s) :
           LatestObservedBarRevision(bars, source, s) = Newest(rows)

\* What was known at a past instant never changes once it was known, whatever
\* is ingested afterwards and even if the clock is set back: only a session
\* nothing was known of can still get its late baseline.
PastIsStable ==
  [][wake # None => \A s \in Sessions, t \in Instants :
       t < wake.now /\ LatestBarRevisionAsOf(bars, s, t) # None =>
         LatestBarRevisionAsOf(bars', s, t) = LatestBarRevisionAsOf(bars, s, t)]_vars

\* Mutant: the specification takes the newest revision of each session.
OwnRevisions_Newest ==
  [s \in Sessions |-> LatestBarRevisionAsOf_Hindsight(bars, s, Close[s])]

\* build_real_data_backtest_spec: the revision of every session as of its own
\* close; ValueError if a session has none
OwnRevisions == [s \in Sessions |-> LatestBarRevisionAsOf(bars, s, Close[s])]

\* _validate_open_frame_sources: the provenance a specification recorded against
\* the own-session rows that a run of the backtest resolves
OpenFrameSourcesMatch(spec) == \A s \in Sessions : spec[s] = Resolve(s)[s]

\* A specification that can be built once can be run for ever: corrections
\* never disturb the provenance of its opening prices.
SpecStillRuns ==
  [][\A spec \in {OwnRevisions} : Complete(spec) => OpenFrameSourcesMatch(spec)']_vars

\* With a steady clock, freezing a run again (or resolving its data again for a
\* backtest) gives the manifest that is stored, if the first was made after the
\* close.
RefreezeAgrees ==
  steady => \A r \in Runs : manifests[r] # None /\ manifests[r].afterClose =>
    manifests[r].revisions = Resolve(r)

\* What a run was decided on stays on record, also when a clock that was set
\* back makes a second freeze come out differently.
ManifestsAreFixed ==
  [][\A r \in Runs : manifests[r] # None =>
       manifests'[r] # None /\ manifests'[r].revisions = manifests[r].revisions]_vars

\* Neither what was known nor what was decided on is ever rewritten, by late
\* bars, corrections, repeated freezes or a clock that runs backwards
\* (append_bar_revisions, latest_bar_revision_as_of, store_snapshot_manifest).
RecordIsFixed == PastIsStable /\ ManifestsAreFixed

=============================================================================
