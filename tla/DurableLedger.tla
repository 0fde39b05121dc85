---------------------------- MODULE DurableLedger ----------------------------
(***************************************************************************)
(* LedgerStore (runtime/ledger_store.py): the ledger_events table of the   *)
(* runtime database, and writers that append batches of events to it.      *)
(*                                                                         *)
(* append_events makes three accesses: it looks the events' identities up, *)
(* it loads and replays the account's stream, and in one transaction it    *)
(* inserts.  Only the last holds the database's write lock.  Its callers   *)
(* may hold the advisory lock of a wake around the whole call, or not:     *)
(* both are explored.                                                      *)
(***************************************************************************)
EXTENDS PortfolioLedger

CONSTANTS
  Writers,    \* connections that append
  Accounts,
  Batches     \* the calls' arguments: nonempty sequences of one account's events

Events == UNION {ToSet(batch) : batch \in Batches}

ASSUME BatchesAssumption ==
  /\ Batches \subseteq Seq(Events) \ {<<>>}
  /\ \A batch \in Batches : \E a \in Accounts : \A i \in DOMAIN batch : batch[i].account = a
  /\ \A e \in Events : ValidEvent(e)

VARIABLES
  locked,   \* do the writers take the process lock around a call?
  rows,     \* table ledger_events: each account's events by event_index
  writer    \* each writer: program counter, the batch, the events found to be new

ledgerVars == <<locked, rows, writer>>

Idle == [pc |-> "idle", batch |-> <<>>, fresh |-> <<>>]

LedgerTypeOK ==
  /\ locked \in BOOLEAN
  /\ rows \in [Accounts -> Seq(Events)]
  /\ \A w \in Writers :
       /\ writer[w].pc \in {"idle", "replay", "insert", "done"}
       /\ writer[w].batch \in Batches \cup {<<>>}
       /\ ToSet(writer[w].fresh) \subseteq ToSet(writer[w].batch)
       /\ writer[w].pc \in {"replay", "insert"} => writer[w].fresh # <<>>

LedgerInit ==
  /\ locked \in BOOLEAN
  /\ rows = [a \in Accounts |-> <<>>]
  /\ writer = [w \in Writers |-> Idle]

Stored == UNION {ToSet(rows[a]) : a \in Accounts}
AccountOf(w) == writer[w].batch[1].account

\* The call raises, and leaves the table alone.
Refuse(w) == writer' = [writer EXCEPT ![w] = Idle] /\ UNCHANGED rows

-----------------------------------------------------------------------------

\* Is the event, or another under its id, in the table?
Known(event) == \E e \in Stored : e.id = event.id

Conflict(event) == \E e \in Stored : e.id = event.id /\ e # event

\* Mutant: a batch without news is replayed and inserted all the same.
AfterLookup_NoEarlyReturn(fresh) == "replay"

\* A batch without news is done.
AfterLookup(fresh) == IF fresh = <<>> THEN "done" ELSE "replay"

\* append_events is called, and selects each event's payload.  These are separate
\* statements, but a row inserted between two of them only makes the replay see an
\* id twice and refuse.  A conflict raises before anything has changed.
Call(w, batch) ==
  /\ writer[w].pc = "idle"
  /\ locked => \A v \in Writers : writer[v].pc = "idle"
  /\ \A i \in DOMAIN batch : ~Conflict(batch[i])
  /\ LET fresh == Those(batch, {e \in ToSet(batch) : ~Known(e)})
     IN writer' = [writer EXCEPT ![w] =
          [pc |-> AfterLookup(fresh), batch |-> batch, fresh |-> fresh]]
  /\ UNCHANGED <<locked, rows>>

\* _decode after _encode: JSON turns the tuples of a valuation into lists, and
\* its marks_are_exact_tuple validator refuses them.
Reloads(event) == event.type \notin ValuationTypes

\* Mutant: what is stored is replayed again, the new events are not.
Candidate_StoredOnly(w) == rows[AccountOf(w)]

\* The stream as loaded, and the new events
Candidate(w) == rows[AccountOf(w)] \o writer[w].fresh

\* load_events and PortfolioLedger.rebuild
ReplayBatch(w) ==
  /\ writer[w].pc = "replay"
  /\ IF (\A e \in ToSet(rows[AccountOf(w)]) : Reloads(e)) /\ Accepts(Candidate(w))
     THEN writer' = [writer EXCEPT ![w].pc = "insert"] /\ UNCHANGED rows
     ELSE Refuse(w)
  /\ UNCHANGED locked

\* Mutant: the insert relies on the lookup made before it.
Duplicate_Unchecked(w) == FALSE

\* Would an INSERT break the primary key event_id?
Duplicate(w) == \E i \in DOMAIN writer[w].fresh : Known(writer[w].fresh[i])

\* BEGIN IMMEDIATE, MAX(event_index), the INSERTs, and COMMIT or ROLLBACK
Insert(w) ==
  /\ writer[w].pc = "insert"
  /\ IF Duplicate(w)
     THEN Refuse(w)
     ELSE /\ rows' = [rows EXCEPT ![AccountOf(w)] = @ \o writer[w].fresh]
          /\ writer' = [writer EXCEPT ![w].pc = "done"]
  /\ UNCHANGED locked

\* The call has returned, or its process dies; what the transaction committed stays.
\* A caller may call again with any batch, the one it has not heard of included.
Leave(w) ==
  /\ writer[w].pc # "idle"
  /\ writer' = [writer EXCEPT ![w] = Idle]
  /\ UNCHANGED <<locked, rows>>

LedgerNext ==
  \E w \in Writers :
    \/ \E batch \in Batches : Call(w, batch)
    \/ ReplayBatch(w)
    \/ Insert(w)
    \/ Leave(w)

LedgerSpec == LedgerInit /\ [][LedgerNext]_ledgerVars

-----------------------------------------------------------------------------

Streams == {rows[a] : a \in {b \in Accounts : rows[b] # <<>>}}

\* Where writers hold the process lock, every stream in the table is one the
\* ledger accepts, so that a restart can rebuild it (append_events: "Semantic
\* cross-validation by deterministic replay before any write").
LockedStreamsReplay == locked => \A events \in Streams : Accepts(events)

\* A stream that replays keeps the books: no money and no share appears or
\* vanishes in the split of a lot, a fee, a reversal or an adjustment
\* (_apply_buy, _apply_sell, _active_events).
BooksBalance == \A events \in Streams : Accepts(events) => Balanced(events)

\* A stream that replays leaves a solvent book: no negative cash, no net value
\* over its high-water mark, and no holding that a sale should have removed.
BooksSolvent == \A events \in Streams : Accepts(events) => Solvent(events)

\* Whatever was appended, repeated, reversed or adjusted, the books of a stream
\* that replays are true: they balance and they are solvent (_replay).
BooksHold == BooksBalance /\ BooksSolvent

\* An event is in the table once, under one account and with one payload, however
\* often and by whomever it was appended (the idempotent reappend).
StoredOnce ==
  \A a, b \in Accounts : \A i \in DOMAIN rows[a], j \in DOMAIN rows[b] :
    rows[a][i].id = rows[b][j].id => a = b /\ i = j

\* A call that returned normally finds its whole batch in the table, the part
\* that it inserted and the part it took for a repetition.
DoneIsStored ==
  \A w \in Writers : writer[w].pc = "done" =>
    ToSet(writer[w].batch) \subseteq ToSet(rows[AccountOf(w)])

\* Through repetitions, overlaps, conflicts, races and crashes, each event is stored
\* once, and all of a batch before its caller is told so (append_events).
BatchesAreStored == StoredOnce /\ DoneIsStored

\* Where writers hold the process lock, the snapshot of an instant that a stream has
\* passed never changes: what is appended, a reversal of an old fill included, is
\* later than all that is stored (snapshot, and the strict clock of rebuild).
PastIsFixed ==
  [][locked => \A a \in Accounts : \A i \in DOMAIN rows[a] :
       SnapshotAsOf(rows'[a], rows[a][i].at) = SnapshotAsOf(rows[a], rows[a][i].at)]_ledgerVars

\* Claim of ledger_store.py and its tests: what is stored can be rebuilt "by exact
\* deterministic replay of persisted events".
StoredEventsReload == \A e \in Stored : Reloads(e)
=============================================================================
