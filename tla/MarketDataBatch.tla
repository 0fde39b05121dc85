--------------------------- MODULE MarketDataBatch ---------------------------
(***************************************************************************)
(* MarketDataBatchOrchestrator.refresh (runtime/market_data.py) over the   *)
(* provider_day_budgets and symbol_fetch_attempts tables of RuntimeStore   *)
(* (runtime/store.py) and the point-in-time store, for one provider, one   *)
(* market and one session.                                                 *)
(*                                                                         *)
(* Every store call is a step of its own.  The advisory lock that a wake   *)
(* takes is no correctness authority, so both deployments are explored:    *)
(* with it one refresh runs at a time, without it several do.              *)
(***************************************************************************)
EXTENDS Naturals, FiniteSets

CONSTANTS
  Workers,        \* processes that refresh
  SymbolCount,    \* symbols are numbered in their sorted order
  Days,           \* natural days of the budget's time zone
  NormalLimit, RecoveryLimit,
  None            \* an absent row, or an unset local

ASSUME BoundsAssumption ==
  /\ IsFiniteSet(Workers)
  /\ SymbolCount \in Nat \ {0}
  /\ NormalLimit \in Nat \ {0}
  /\ RecoveryLimit \in Nat

Symbols == 1 .. SymbolCount
Kinds == {"normal", "recovery"}
Limit(kind) == IF kind = "normal" THEN NormalLimit ELSE RecoveryLimit

\* What an attempt can end with, and what a report can say instead
FetchStatus == {"SUCCESS", "RETRYABLE_FAILURE", "PERMANENT_FAILURE", "THROTTLED"}
SymbolFetchStatus ==
  FetchStatus \cup {"BUDGET_EXHAUSTED", "CIRCUIT_OPEN", "ALREADY_COMPLETED"}

Budget == [normal : 0 .. NormalLimit, recovery : 0 .. RecoveryLimit, open : BOOLEAN]

ASSUME NoneAssumption == None \notin Budget \cup SymbolFetchStatus \cup Symbols \cup Days

VARIABLES
  locked,    \* does a wake take the process lock?
  budgets,   \* table provider_day_budgets, by day
  attempts,  \* table symbol_fetch_attempts: status by symbol and attempt kind
  ingested,  \* PIT store: symbols whose bars of the session are committed
  worker,    \* each refresh: program counter, locals, results
  calls      \* provider requests made on each day's account, by kind

vars == <<locked, budgets, attempts, ingested, worker, calls>>

PCs == {"idle", "circuit", "completed", "claim", "call", "ingest", "open", "record"}

WorkerState ==
  [pc : PCs, day : Days \cup {None}, kind : Kinds, symbol : Symbols \cup {None},
   todo : SUBSET Symbols, retryable : SUBSET Symbols,
   status : FetchStatus \cup {None}, results : [Symbols -> SymbolFetchStatus \cup {None}]]

Idle == [pc |-> "idle", day |-> None, kind |-> "normal", symbol |-> None,
         todo |-> {}, retryable |-> {}, status |-> None,
         results |-> [s \in Symbols |-> None]]

TypeOK ==
  /\ locked \in BOOLEAN
  /\ budgets \in [Days -> Budget \cup {None}]
  /\ attempts \in [Symbols -> [Kinds -> FetchStatus \cup {None}]]
  /\ ingested \subseteq Symbols
  /\ worker \in [Workers -> WorkerState]
  /\ calls \in [Days -> [Kinds -> Nat]]

Init ==
  /\ locked \in BOOLEAN
  /\ budgets = [d \in Days |-> None]
  /\ attempts = [s \in Symbols |-> [k \in Kinds |-> None]]
  /\ ingested = {}
  /\ worker = [w \in Workers |-> Idle]
  /\ calls = [d \in Days |-> [k \in Kinds |-> 0]]

Least(S) == CHOOSE s \in S : \A t \in S : s <= t

\* The local state w has when it turns to its next symbol: the rest of phase 1,
\* then the retryable failures under the recovery budget, then the end.
NextSymbol(me) ==
  IF me.todo # {}
  THEN [me EXCEPT !.pc = "circuit", !.symbol = Least(me.todo),
                  !.todo = @ \ {Least(me.todo)}, !.status = None]
  ELSE IF me.kind = "normal" /\ me.retryable # {}
  THEN [me EXCEPT !.pc = "circuit", !.kind = "recovery", !.symbol = Least(me.retryable),
                  !.todo = me.retryable \ {Least(me.retryable)}, !.retryable = {},
                  !.status = None]
  ELSE [Idle EXCEPT !.results = me.results]

Goto(w, from, to) ==
  /\ worker[w].pc = from
  /\ worker' = [worker EXCEPT ![w].pc = to]

\* The present symbol gets a result without a provider call.
Skip(w, from, status) ==
  /\ worker[w].pc = from
  /\ worker' = [worker EXCEPT ![w] =
       NextSymbol([worker[w] EXCEPT !.results[worker[w].symbol] = status])]

\* Has symbol s a successful attempt on record?
HasCompleted(s) == \E k \in Kinds : attempts[s][k] = "SUCCESS"

-----------------------------------------------------------------------------

\* ensure_provider_budget: INSERT OR IGNORE of an unspent row
EnsureBudget(d) ==
  budgets' = IF budgets[d] = None
             THEN [budgets EXCEPT ![d] = [normal |-> 0, recovery |-> 0, open |-> FALSE]]
             ELSE budgets

\* refresh: the day is fixed, its budget row ensured, and phase 1 begins.
Begin(w, d) ==
  /\ worker[w].pc = "idle"
  /\ locked => \A v \in Workers : worker[v].pc = "idle"
  /\ EnsureBudget(d)
  /\ worker' = [worker EXCEPT ![w] = NextSymbol([Idle EXCEPT !.day = d, !.todo = Symbols])]
  /\ UNCHANGED <<locked, attempts, ingested, calls>>

\* is_circuit_open; only phase 1 goes on to ask for a completed symbol.
CheckCircuit(w) ==
  /\ worker[w].pc = "circuit"
  /\ IF budgets[worker[w].day].open
     THEN Skip(w, "circuit", "CIRCUIT_OPEN")
     ELSE Goto(w, "circuit", IF worker[w].kind = "normal" THEN "completed" ELSE "claim")
  /\ UNCHANGED <<locked, budgets, attempts, ingested, calls>>

\* Mutant: the check sees first attempts only, not recovered ones.
CheckCompleted_FirstOnly(w) ==
  /\ worker[w].pc = "completed"
  /\ IF attempts[worker[w].symbol]["normal"] = "SUCCESS"
     THEN Skip(w, "completed", "ALREADY_COMPLETED")
     ELSE Goto(w, "completed", "claim")
  /\ UNCHANGED <<locked, budgets, attempts, ingested, calls>>

CheckCompleted(w) ==
  /\ worker[w].pc = "completed"
  /\ IF HasCompleted(worker[w].symbol)
     THEN Skip(w, "completed", "ALREADY_COMPLETED")
     ELSE Goto(w, "completed", "claim")
  /\ UNCHANGED <<locked, budgets, attempts, ingested, calls>>

MayClaim(d, kind) == ~budgets[d].open /\ budgets[d][kind] < Limit(kind)

\* Mutant: the recovery budget is charged to the normal one.
ClaimBudget_ChargedToNormal(w) ==
  LET d == worker[w].day
      kind == worker[w].kind
  IN  /\ worker[w].pc = "claim"
      /\ \/ /\ MayClaim(d, kind)
            /\ budgets' = [budgets EXCEPT ![d]["normal"] = @ + 1]
            /\ Goto(w, "claim", "call")
         \/ /\ ~MayClaim(d, kind)
            /\ Skip(w, "claim",
                    IF budgets[d].open THEN "CIRCUIT_OPEN" ELSE "BUDGET_EXHAUSTED")
            /\ UNCHANGED budgets
      /\ UNCHANGED <<locked, attempts, ingested, calls>>

\* Mutant: the budget is checked but spent only when a call succeeds.
ClaimBudget_Unspent(w) ==
  LET d == worker[w].day
      kind == worker[w].kind
  IN  /\ worker[w].pc = "claim"
      /\ IF MayClaim(d, kind)
         THEN Goto(w, "claim", "call")
         ELSE Skip(w, "claim",
                   IF budgets[d].open THEN "CIRCUIT_OPEN" ELSE "BUDGET_EXHAUSTED")
      /\ UNCHANGED <<locked, budgets, attempts, ingested, calls>>

\* claim_provider_budget: one transaction re-reads the circuit and spends.
ClaimBudget(w) ==
  LET d == worker[w].day
      kind == worker[w].kind
  IN  /\ worker[w].pc = "claim"
      /\ \/ /\ MayClaim(d, kind)
            /\ budgets' = [budgets EXCEPT ![d][kind] = @ + 1]
            /\ Goto(w, "claim", "call")
         \/ /\ ~MayClaim(d, kind)
            /\ Skip(w, "claim",
                    IF budgets[d].open THEN "CIRCUIT_OPEN" ELSE "BUDGET_EXHAUSTED")
            /\ UNCHANGED budgets
      /\ UNCHANGED <<locked, attempts, ingested, calls>>

\* The provider is constructed and asked.
CallProvider(w) ==
  /\ Goto(w, "call", "ingest")
  /\ calls' = [calls EXCEPT ![worker[w].day][worker[w].kind] = @ + 1]
  /\ UNCHANGED <<locked, budgets, attempts, ingested>>

\* Mutant: a failed batch leaves its first bars behind as a success.
Ingest_Optimistic(w, status) ==
  /\ worker[w].pc = "ingest"
  /\ ingested' = IF status = "SUCCESS" THEN ingested \cup {worker[w].symbol} ELSE ingested
  /\ worker' = [worker EXCEPT ![w] = [@ EXCEPT
       !.status = IF status = "RETRYABLE_FAILURE" THEN "SUCCESS" ELSE status,
       !.pc = IF status = "THROTTLED" THEN "open" ELSE "record"]]
  /\ UNCHANGED <<locked, budgets, attempts, calls>>

\* The response is committed to the PIT store whole, or the ingestor raises.
Ingest(w, status) ==
  /\ worker[w].pc = "ingest"
  /\ ingested' = IF status = "SUCCESS" THEN ingested \cup {worker[w].symbol} ELSE ingested
  /\ worker' = [worker EXCEPT ![w] =
       [worker[w] EXCEPT !.status = status,
                         !.pc = IF status = "THROTTLED" THEN "open" ELSE "record"]]
  /\ UNCHANGED <<locked, budgets, attempts, calls>>

\* open_provider_circuit, before the throttled attempt is recorded
OpenCircuit(w) ==
  /\ Goto(w, "open", "record")
  /\ budgets' = [budgets EXCEPT ![worker[w].day].open = TRUE]
  /\ UNCHANGED <<locked, attempts, ingested, calls>>

\* record_symbol_attempt: INSERT OR REPLACE of the row of this attempt number
RecordAttempt(w) ==
  LET me == worker[w]
  IN  /\ me.pc = "record"
      /\ attempts' = [attempts EXCEPT ![me.symbol][me.kind] = me.status]
      /\ worker' = [worker EXCEPT ![w] = NextSymbol(
           [me EXCEPT !.results[me.symbol] = me.status,
                      !.retryable = IF me.kind = "normal" /\ me.status = "RETRYABLE_FAILURE"
                                    THEN me.retryable \cup {me.symbol} ELSE me.retryable])]
      /\ UNCHANGED <<locked, budgets, ingested, calls>>

\* The process dies, or an exception other than MarketDataError ends refresh.
Crash(w) ==
  /\ worker[w].pc # "idle"
  /\ worker' = [worker EXCEPT ![w] = Idle]
  /\ UNCHANGED <<locked, budgets, attempts, ingested, calls>>

Next ==
  \E w \in Workers :
    \/ \E d \in Days : Begin(w, d)
    \/ CheckCircuit(w) \/ CheckCompleted(w) \/ ClaimBudget(w) \/ CallProvider(w)
    \/ \E status \in FetchStatus : Ingest(w, status)
    \/ OpenCircuit(w) \/ RecordAttempt(w) \/ Crash(w)

Spec == Init /\ [][Next]_vars

-----------------------------------------------------------------------------
(* Properties *)

Spent(d, kind) == IF budgets[d] = None THEN 0 ELSE budgets[d][kind]

\* Every request was paid for from its own budget before it was made, and no
\* budget is overdrawn, whatever processes race or die.
CallsArePaid ==
  \A d \in Days, kind \in Kinds :
    /\ calls[d][kind] <= Spent(d, kind)
    /\ Spent(d, kind) <= Limit(kind)

\* Once a day's circuit is open it stays open and nothing more of that day's
\* budgets is spent, also by a process that looked at the circuit before.
CircuitStopsSpending ==
  [][\A d \in Days : budgets[d] # None /\ budgets[d].open => budgets'[d] = budgets[d]]_vars

\* A success on record, or reported, is in the point-in-time store: the two
\* databases never disagree in the dangerous direction.
SuccessIsIngested ==
  /\ \A s \in Symbols : HasCompleted(s) => s \in ingested
  /\ \A w \in Workers, s \in Symbols :
       worker[w].results[s] \in {"SUCCESS", "ALREADY_COMPLETED"} => s \in ingested

\* With the process lock, a symbol that has a success on record is never
\* requested again and that record is never overwritten (design :200,
\* "requested at most once per intended session").
SuccessIsFinal ==
  [][locked =>
       \A s \in Symbols : HasCompleted(s) =>
         /\ HasCompleted(s)'
         /\ \A w \in Workers : worker[w].symbol = s /\ worker[w].pc = "call" =>
              calls' = calls]_vars

\* What a refresh has settled, the success of a symbol or an open circuit, stays
\* settled for every other refresh, one that looked before it included
\* (has_completed_symbol, is_circuit_open, claim_provider_budget).
SettledStaysSettled == SuccessIsFinal /\ CircuitStopsSpending
=============================================================================
