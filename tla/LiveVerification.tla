-------------------------- MODULE LiveVerification --------------------------
(***************************************************************************)
(* The two verifiers that leave evidence files beside the code:            *)
(* scripts/verify_live_market_data.py (a provider's bars, assembled twice) *)
(* and scripts/verify_strategy_a_real_data.py (a recorded fixture, run     *)
(* once with a journal and once from it).                                  *)
(*                                                                         *)
(* A verifier runs the code it loaded when it started, and names in its    *)
(* evidence a digest of the source files as they are when it has finished. *)
(* Meanwhile somebody may edit the sources, a second verifier may work on  *)
(* the same evidence file, and either may die.  Bar stores and journals    *)
(* are temporary and private to a run; the evidence files are shared.      *)
(***************************************************************************)
EXTENDS PointInTimeStore, Sequences

CONSTANTS
  Verifiers,      \* processes
  Jobs,           \* evidence files: one per live schedule, and FixtureJob
  FixtureJob,     \* the Strategy A fixture, verified without a network
  Provider,       \* the provider of a live schedule
  Fixture,        \* the rows of the committed fixture
  ObservedAt,     \* when the fixture was fetched
  DecisionDate,   \* the session on which the recorded answer is a BUY
  Offers,         \* what versions of the strategy may offer, session by session
  Parts,          \* the source files a verifier executes, in groups
  DigestedParts,  \* of each evidence file: those its digest covers
  MinSessions,    \* sessions a live schedule must have
  MaxEdits        \* bound on the number of edits

AllRows == UNION {[d -> Payloads] : d \in SUBSET Sessions}
Actions == {"BUY", "HOLD", "REDUCE", "SELL"}

ASSUME VerificationAssumption ==
  /\ Fixture \in [Sessions -> Payloads]
  /\ ObservedAt \in Instants /\ \A s \in Sessions : Close[s] <= ObservedAt
  /\ IsFiniteSet(Sessions) /\ DecisionDate \in Sessions
  /\ None \notin Jobs /\ None \notin AllRows
  /\ \A offer \in Offers, s \in Sessions :
       offer[s] # None => offer[s].legal \in Seq(Actions) \ {<<>>}
  /\ DigestedParts \in [Jobs -> SUBSET Parts]
  /\ MinSessions \in Nat /\ MaxEdits \in Nat

VARIABLES
  tree,      \* the working tree: the version of each part
  proc,      \* each verifier: program counter, job and what it has found
  staging,   \* temporary files beside the evidence, by name
  evidence   \* the evidence files

verifyVars == <<tree, proc, staging, evidence>>

Versions == 0 .. MaxEdits
Tree == [Parts -> Versions]
Journals == UNION {[d -> Actions] : d \in SUBSET Sessions}
Digests == UNION {[d -> Versions] : d \in SUBSET Parts}
PCs == {"idle", "fetch", "assemble", "load", "record", "replay", "digest", "check",
        "create", "write", "replace"}

Process ==
  [pc : PCs, job : Jobs \cup {None}, now : Instants \cup {0},
   rows : AllRows \cup {None}, calls : Nat, journal : Journals \cup {None},
   digest : Digests \cup {None}]

Idle == [pc |-> "idle", job |-> None, now |-> 0, rows |-> None,
         calls |-> 0, journal |-> None, digest |-> None]

\* What a file says: the sources it names, and the sessions, calls and decisions of
\* the run behind it
Evidence ==
  [digest : Digests, sessions : SUBSET Sessions, calls : Nat,
   journal : Journals \cup {None}]

File == [content : Evidence, whole : BOOLEAN]

\* The shapes; and no verifier that gave up leaves a staging file behind.
VerifyTypeOK ==
  /\ tree \in Tree
  /\ DOMAIN proc = Verifiers
  /\ \A v \in Verifiers : proc[v].pc \in PCs
       /\ (proc[v].pc # "idle") = (proc[v].job \in Jobs)
       /\ proc[v].pc \in {"create", "write", "replace"} => proc[v].digest \in Digests
  /\ DOMAIN staging = Verifiers
  /\ \A v \in Verifiers : staging[v] # None => proc[v].pc \in {"write", "replace"}
  /\ DOMAIN evidence = Jobs

VerifyInit ==
  /\ tree = [p \in Parts |-> 0]
  /\ proc = [v \in Verifiers |-> Idle]
  /\ staging = [n \in Verifiers |-> None]
  /\ evidence = [j \in Jobs |-> None]

\* The verifier goes on, or gives up without touching the evidence.
Advance(v, from, next) ==
  /\ proc[v].pc = from
  /\ proc' = [proc EXCEPT ![v] = next]
Fail(v, from) == Advance(v, from, Idle)

-----------------------------------------------------------------------------
(* A live schedule *)

\* validate_schedule_for_live_run: every session has closed, strictly.
LiveScheduleReady(now) ==
  /\ Cardinality(Sessions) >= MinSessions
  /\ \A s \in Sessions : Close[s] < now

StartLive(v, job, now) ==
  /\ job # FixtureJob
  /\ LiveScheduleReady(now)
  /\ Advance(v, "idle", [Idle EXCEPT !.pc = "fetch", !.job = job, !.now = now])
  /\ UNCHANGED <<tree, staging, evidence>>

\* _RecordingProvider: the bars it has recorded answer a repeated request, and the
\* provider is called only if there are none.
CallsFor(recorded) == IF recorded = None THEN 1 ELSE 0

\* The first ingestion; the provider may fail.
FetchBars(v, rows) ==
  /\ \/ Advance(v, "fetch", [proc[v] EXCEPT !.pc = "assemble", !.rows = rows,
                                             !.calls = @ + CallsFor(proc[v].rows)])
     \/ Fail(v, "fetch")
  /\ UNCHANGED <<tree, staging, evidence>>

\* _require_complete_assemblies: every session ingested as a baseline, the
\* repetition and the second assembly agree with the first, and a backtest
\* specification can be built.
CompleteAssemblies(rows, now) ==
  LET first  == Ingest({}, Provider, Sessions, rows, now)
      rerun  == Ingest(first, Provider, Sessions, rows, now)
      second == Ingest({}, Provider, Sessions, rows, now)
  IN  /\ Cardinality(first) = Cardinality(Sessions)
      /\ \A s \in Sessions : LatestBarRevisionAsOf(rerun, s, Close[s]) # None
      /\ rerun = first
      /\ second = first

\* The repeated ingestion, which asks the recording provider again, the second
\* assembly, which has the recorded bars, the runs on both and the comparison
AssembleTwice(v) ==
  /\ proc[v].pc = "assemble"
  /\ \/ /\ CompleteAssemblies(proc[v].rows, proc[v].now)
        /\ Advance(v, "assemble",
             [proc[v] EXCEPT !.pc = "digest", !.calls = @ + CallsFor(proc[v].rows)])
     \/ /\ ~CompleteAssemblies(proc[v].rows, proc[v].now)
        /\ Fail(v, "assemble")
  /\ UNCHANGED <<tree, staging, evidence>>

-----------------------------------------------------------------------------
(* The Strategy A fixture *)

StartFixture(v) ==
  /\ Advance(v, "idle", [Idle EXCEPT !.pc = "load", !.job = FixtureJob])
  /\ UNCHANGED <<tree, staging, evidence>>

\* _load_fixture: only the rows of the frozen schedule pass its digests.
LoadFixture(v, rows) ==
  /\ \/ /\ rows = Fixture
        /\ Advance(v, "load", [proc[v] EXCEPT !.pc = "record", !.rows = rows])
     \/ rows # Fixture /\ Fail(v, "load")
  /\ UNCHANGED <<tree, staging, evidence>>

\* _store_and_spec: each row is appended as known at its close and observed
\* when the fixture was fetched.
FixtureStore(rows) ==
  UNION {AppendBar({}, [session |-> s, source |-> Provider, payload |-> rows[s],
                        kind |-> "BASELINE", available |-> Close[s],
                        ingested |-> ObservedAt]).bars : s \in DOMAIN rows}

\* The recorded transport: a BUY on the decision date if the signal is there, HOLD
\* where it may, and otherwise the first action offered.
Legal(envelope) == {envelope.legal[i] : i \in DOMAIN envelope.legal}
FixtureAnswer(s, envelope) ==
  IF s = DecisionDate /\ envelope.regime = "OFFENSIVE" /\ "BUY" \in Legal(envelope) THEN "BUY"
  ELSE IF "HOLD" \in Legal(envelope) THEN "HOLD" ELSE envelope.legal[1]

\* The runner asks for no decision on the last session, and the strategy asks the
\* model only about candidates.
Asked(offer) == {s \in Sessions : s + 1 \in Sessions /\ offer[s] # None}

\* The run that asks the transport and writes the journal.  What the strategy
\* offers follows from its code, which an edit may have changed.
RecordRun(v, offer) ==
  /\ proc[v].pc = "record"
  /\ FixtureStore(proc[v].rows) # {}
  /\ Advance(v, "record",
       [proc[v] EXCEPT !.pc = "replay", !.calls = @ + Cardinality(Asked(offer)),
                       !.journal = [s \in Asked(offer) |-> FixtureAnswer(s, offer[s])]])
  /\ UNCHANGED <<tree, staging, evidence>>

\* _assemble_evidence wants the BUY of the decision date, which fills at the next
\* open, and a position at the end.
Lifecycle(journal) ==
  /\ DecisionDate \in DOMAIN journal /\ journal[DecisionDate] = "BUY"
  /\ \A s \in DOMAIN journal : s > DecisionDate => journal[s] # "SELL"

\* The run that answers from the reopened journal: one request for each attempt.
\* It also fails if the fill, the lots or the NAV are not as they should be.
ReplayRun(v) ==
  /\ proc[v].pc = "replay"
  /\ \/ /\ Lifecycle(proc[v].journal)
        /\ proc[v].calls = Cardinality(DOMAIN proc[v].journal)
        /\ Advance(v, "replay", [proc[v] EXCEPT !.pc = "digest"])
     \/ Fail(v, "replay")
  /\ UNCHANGED <<tree, staging, evidence>>

-----------------------------------------------------------------------------
(* The evidence *)

\* compute_relevant_source_digest, of which each verifier has its own: it stands for
\* the contents of the files it covers.
SourceDigest(job, t) == [p \in DigestedParts[job] |-> t[p]]

TakeDigest(v) ==
  /\ Advance(v, "digest",
       [proc[v] EXCEPT !.digest = SourceDigest(proc[v].job, tree),
                       !.pc = IF proc[v].job = FixtureJob THEN "check" ELSE "create"])
  /\ UNCHANGED <<tree, staging, evidence>>

\* verify_evidence_semantics takes the digest of the sources once more.
VerifyEvidence(v) ==
  /\ proc[v].pc = "check"
  /\ \/ /\ proc[v].digest = SourceDigest(proc[v].job, tree)
        /\ Advance(v, "check", [proc[v] EXCEPT !.pc = "create"])
     \/ proc[v].digest # SourceDigest(proc[v].job, tree) /\ Fail(v, "check")
  /\ UNCHANGED <<tree, staging, evidence>>

ContentOf(v) ==
  [digest |-> proc[v].digest, sessions |-> DOMAIN proc[v].rows,
   calls |-> proc[v].calls, journal |-> proc[v].journal]

\* Mutant: every verifier stages its evidence under the same name.
StagingName_Fixed(v) == CHOOSE n \in Verifiers : TRUE

\* mkstemp: a name no other file has
StagingName(v) == v

CreateStaging(v) ==
  /\ Advance(v, "create", [proc[v] EXCEPT !.pc = "write"])
  /\ staging' = [staging EXCEPT ![StagingName(v)] =
                   [content |-> ContentOf(v), whole |-> FALSE]]
  /\ UNCHANGED <<tree, evidence>>

\* The text is written and synced.
WriteStaging(v) ==
  /\ Advance(v, "write", [proc[v] EXCEPT !.pc = "replace"])
  /\ staging' = [staging EXCEPT ![StagingName(v)] =
                   [content |-> ContentOf(v), whole |-> TRUE]]
  /\ UNCHANGED <<tree, evidence>>

\* os.replace
ReplaceEvidence(v) ==
  /\ Fail(v, "replace")
  /\ staging[StagingName(v)] # None
  /\ evidence' = [evidence EXCEPT ![proc[v].job] = staging[StagingName(v)]]
  /\ staging' = [staging EXCEPT ![StagingName(v)] = None]
  /\ UNCHANGED tree

\* A failed write or replace unlinks the staging file.
DropStaging(v) ==
  /\ Fail(v, "write") \/ Fail(v, "replace")
  /\ staging' = [staging EXCEPT ![StagingName(v)] = None]
  /\ UNCHANGED <<tree, evidence>>

\* The staging file of a verifier that died stays under a name nobody will use
\* again, and is forgotten here.
Die(v) ==
  /\ proc[v].pc # "idle"
  /\ proc' = [proc EXCEPT ![v] = Idle]
  /\ staging' = [staging EXCEPT ![v] = None]
  /\ UNCHANGED <<tree, evidence>>

\* Somebody saves a change to a source file; what runs has been loaded.
Edit(p) ==
  /\ tree[p] < MaxEdits
  /\ tree' = [tree EXCEPT ![p] = @ + 1]
  /\ UNCHANGED <<proc, staging, evidence>>

Step(v) ==
  \/ \E job \in Jobs, now \in Instants : StartLive(v, job, now)
  \/ \E rows \in AllRows : FetchBars(v, rows) \/ LoadFixture(v, rows)
  \/ AssembleTwice(v)
  \/ FixtureJob \in Jobs /\ StartFixture(v)
  \/ (\E offer \in Offers : RecordRun(v, offer)) \/ ReplayRun(v)
  \/ TakeDigest(v) \/ VerifyEvidence(v)
  \/ CreateStaging(v) \/ WriteStaging(v) \/ ReplaceEvidence(v) \/ DropStaging(v)

VerifyNext == (\E v \in Verifiers : Step(v) \/ Die(v)) \/ (\E p \in Parts : Edit(p))

VerifySpec == VerifyInit /\ [][VerifyNext]_verifyVars

-----------------------------------------------------------------------------
(* Properties *)

\* An evidence file is never torn, however verifiers of one file overlap or die,
\* and no staging file outlives a failed write or replace (VerifyTypeOK); what a file
\* reports was complete: the bar of every session, one call per live run, and for the
\* fixture a BUY that was not sold again and no call beside the decisions in the
\* journal (atomic_write_evidence, _require_complete_assemblies, _assemble_evidence).
EvidenceIsSound ==
  /\ VerifyTypeOK
  /\ \A j \in Jobs : evidence[j] # None =>
       LET content == evidence[j].content
       IN  /\ evidence[j].whole
           /\ content.sessions = Sessions
           /\ IF j = FixtureJob
              THEN /\ Lifecycle(content.journal)
                   /\ content.calls = Cardinality(DOMAIN content.journal)
              ELSE content.calls = 1

=============================================================================
