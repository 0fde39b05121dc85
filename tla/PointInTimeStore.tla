-------------------------- MODULE PointInTimeStore --------------------------
(***************************************************************************)
(* The point-in-time store of daily bars (data/store.py) and the plan of   *)
(* an incremental ingestion (data/providers/ingestion.py), as operators on *)
(* the set of stored revisions of one symbol.                              *)
(*                                                                         *)
(* A revision says what a session's bar was (payload), since when that was *)
(* knowable (available), when it was written (ingested) and by which       *)
(* provider (source).  Its record id is a digest of everything but the     *)
(* ingestion time.  Instants are natural numbers.                          *)
(***************************************************************************)
EXTENDS Naturals, FiniteSets

CONSTANTS
  Sessions,   \* trading sessions of the symbol, 1 .. n
  Close,      \* Close[s]: the instant session s closes
  Payloads,   \* open, high, low, close and volume of a bar
  Sources,    \* provider ids
  Instants,   \* readings of the clock
  None        \* no revision

ASSUME StoreAssumption ==
  /\ Sessions \subseteq Nat
  /\ Instants \subseteq Nat
  /\ Close \in [Sessions -> Instants]

Kinds == {"BASELINE", "CORRECTION"}

\* The clocks of a row must agree: nothing is ingested before it is available.
Revision ==
  {r \in [session : Sessions, source : Sources, payload : Payloads, kind : Kinds,
          available : Instants, ingested : Instants] : r.available <= r.ingested}

RecordId(r) == <<r.source, r.session, r.payload, r.kind, r.available>>

Stream(bars, s, source) == {r \in bars : r.session = s /\ r.source = source}

-----------------------------------------------------------------------------
(* Reading *)

\* The greatest of a set of revisions, by availability and then ingestion
Newest(revisions) ==
  CHOOSE r \in revisions : \A q \in revisions :
    \/ q.available < r.available
    \/ q.available = r.available /\ q.ingested <= r.ingested

\* Mutant: what is known now is given for what was known then.
LatestBarRevisionAsOf_Hindsight(bars, s, asOf) ==
  LET visible == {r \in bars : r.session = s}
  IN  IF visible = {} THEN None ELSE Newest(visible)

\* What was known at asOf of session s
LatestBarRevisionAsOf(bars, s, asOf) ==
  LET visible == {r \in bars : r.session = s /\ r.available <= asOf}
  IN  IF visible = {} THEN None ELSE Newest(visible)

\* The revision a provider's stream was last given, whatever its availability
LatestObservedBarRevision(bars, source, s) ==
  LET stream == Stream(bars, s, source)
  IN  IF stream = {} THEN None
      ELSE CHOOSE r \in stream : \A q \in stream : q.ingested <= r.ingested

BarRevisionSources(bars, s) == {r.source : r \in {q \in bars : q.session = s}}

-----------------------------------------------------------------------------
(* Appending a batch, all of it or nothing *)

\* The checks on the batch alone
BatchMalformed(batch, singleProvider) ==
  \/ batch = {}
  \/ \E r, q \in batch : r # q /\ RecordId(r) = RecordId(q)
  \/ \E r, q \in batch : r # q /\ r.session = q.session /\ r.source = q.source
  \/ singleProvider /\ \E r, q \in batch : r.session = q.session /\ r.source # q.source

\* The checks of a row inside the transaction
RowConflicts(bars, r, singleProvider, strictClock) ==
  \/ singleProvider /\ BarRevisionSources(bars, r.session) \ {r.source} # {}
  \/ \E q \in bars : RecordId(q) = RecordId(r) /\ q # r
  \/ /\ strictClock
     /\ r \notin bars
     /\ \E q \in Stream(bars, r.session, r.source) : r.ingested <= q.ingested

AppendBarRevisions(bars, batch, singleProvider, strictClock) ==
  IF \/ BatchMalformed(batch, singleProvider)
     \/ \E r \in batch : RowConflicts(bars, r, singleProvider, strictClock)
  THEN [ok |-> FALSE, bars |-> bars, appended |-> {}, unchanged |-> {}]
  ELSE [ok |-> TRUE, bars |-> bars \cup batch, appended |-> batch \ bars,
        unchanged |-> batch \cap bars]

\* append_bar: one row, no provider check and no stream clock
AppendBar(bars, r) == AppendBarRevisions(bars, {r}, FALSE, FALSE)

-----------------------------------------------------------------------------
(* An incremental ingestion: a fetched function from sessions to payloads *)

\* Every session asked for has closed.
ScheduleAdmits(requested, now) == \A s \in requested : Close[s] <= now

IsUnchanged(bars, source, s, payload) ==
  LET latest == LatestObservedBarRevision(bars, source, s)
  IN  latest # None /\ latest.payload = payload

\* Another provider owns the session, or a correction does not come after the
\* revision it corrects.
PlanRefused(bars, source, fetched, now) ==
  \E s \in DOMAIN fetched :
    \/ BarRevisionSources(bars, s) \ {source} # {}
    \/ /\ Stream(bars, s, source) # {}
       /\ ~IsUnchanged(bars, source, s, fetched[s])
       /\ now <= LatestObservedBarRevision(bars, source, s).ingested

\* Mutant: a correction is backdated to the close of its session.
Candidate_Backdated(bars, source, s, payload, now) ==
  [session |-> s, source |-> source, payload |-> payload, ingested |-> now,
   kind |-> IF Stream(bars, s, source) = {} THEN "BASELINE" ELSE "CORRECTION",
   available |-> Close[s]]

\* Mutant: what the stream already holds is not looked at.
Candidate_AlwaysBaseline(bars, source, s, payload, now) ==
  [session |-> s, source |-> source, payload |-> payload, ingested |-> now,
   kind |-> "BASELINE", available |-> Close[s]]

\* The first revision of a session counts as known at its close, a correction
\* from the moment it is seen.
Candidate(bars, source, s, payload, now) ==
  [session |-> s, source |-> source, payload |-> payload, ingested |-> now,
   kind |-> IF Stream(bars, s, source) = {} THEN "BASELINE" ELSE "CORRECTION",
   available |-> IF Stream(bars, s, source) = {} THEN Close[s] ELSE now]

Candidates(bars, source, fetched, now) ==
  {Candidate(bars, source, s, fetched[s], now) :
     s \in {d \in DOMAIN fetched : ~IsUnchanged(bars, source, d, fetched[d])}}

\* What an ingestion leaves in the store: a refused one leaves it as it was.
Ingest(bars, source, requested, fetched, now) ==
  LET batch == Candidates(bars, source, fetched, now)
  IN  IF \/ ~ScheduleAdmits(requested, now)
         \/ ~(DOMAIN fetched \subseteq requested) \/ DOMAIN fetched = {}
         \/ PlanRefused(bars, source, fetched, now)
         \/ batch = {}
      THEN bars
      ELSE AppendBarRevisions(bars, batch, TRUE, TRUE).bars

=============================================================================
