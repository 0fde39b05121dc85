--------------------------- MODULE OrderExecution ---------------------------
(***************************************************************************)
(* From risk decisions to finalized paper orders: persist_risk_and_orders  *)
(* (runtime/orders.py), the risk_results, order_sets, pending_orders and   *)
(* execution_obligations tables of RuntimeStore (runtime/store.py) and     *)
(* ExecutionAdapter.execute (runtime/execution.py) behind CapabilityGates  *)
(* (runtime/capability_gates.py).                                          *)
(*                                                                         *)
(* Every store method is one transaction, so one step; only the risk rows  *)
(* of a run are committed one by one.  Between two calls of a process any  *)
(* other process may run, and the process may die.                         *)
(***************************************************************************)
EXTENDS Naturals, FiniteSets

CONSTANTS
  Workers,      \* processes that persist decisions or execute orders
  Runs,
  Symbols,      \* the candidates of a run
  Targets,      \* approved sides and weights
  Rejected,     \* a decision that approves nothing
  DecisionsOf,  \* DecisionsOf[r]: the decision vectors callers may present for r
  Validated,    \* the workers whose authority records validate execution
  MaxCrashes,   \* bound on the number of crashes
  None          \* an absent row, or an unset local

Decisions == [Symbols -> Targets \cup {Rejected}]

\* An order's identity digests its run, symbol (with its ordinal) and target.
OrderId == [run : Runs, symbol : Symbols, target : Targets]

OrderStatus ==
  {"PENDING", "FINALIZED_FILLED", "FINALIZED_REJECTED", "FINALIZED_EXPIRED",
   "FINALIZED_CANCELLED"}

\* PREPARED is declared in runtime/state.py and never written.
Terminal ==
  {"FINALIZED_FILLED", "FINALIZED_REJECTED", "TERMINATED_EXPIRED",
   "TERMINATED_CANCELLED"}

ObligationStatus == {"DISCOVERED", "READY", "BLOCKED_DATA"} \cup Terminal

ExecutionOutcome == {"BLOCKED", "FILLED", "REJECTED"}

ASSUME ConstantsAssumption ==
  /\ DecisionsOf \in [Runs -> SUBSET Decisions]
  /\ Validated \subseteq Workers
  /\ MaxCrashes \in Nat
  /\ Rejected \notin Targets
  /\ None \notin Targets \cup {Rejected}
  /\ None \notin Runs
  /\ None \notin Decisions
  /\ None \notin OrderId
  /\ \A set \in SUBSET OrderId : set # None
  /\ None \notin OrderStatus \cup ObligationStatus \cup ExecutionOutcome

VARIABLES
  riskRows,     \* table risk_results, by run and symbol
  orderSets,    \* table order_sets: the digest of a run, i.e. its exact orders
  orders,       \* table pending_orders: status by order id
  obligations,  \* table execution_obligations: status by order id
  worker,       \* each process: program counter, arguments and result
  crashes

vars == <<riskRows, orderSets, orders, obligations, worker, crashes>>

PCs == {"idle", "risk", "orders", "executor", "fill", "reject"}

WorkerState ==
  [pc : PCs, run : Runs \cup {None}, decision : Decisions \cup {None},
   todo : SUBSET Symbols, order : OrderId \cup {None},
   outcome : ExecutionOutcome \cup {None}]

Idle == [pc |-> "idle", run |-> None, decision |-> None, todo |-> {},
         order |-> None, outcome |-> None]

TypeOK ==
  /\ riskRows \in [Runs -> [Symbols -> Targets \cup {Rejected, None}]]
  /\ orderSets \in [Runs -> {None} \cup SUBSET OrderId]
  /\ orders \in [OrderId -> OrderStatus \cup {None}]
  /\ obligations \in [OrderId -> ObligationStatus \cup {None}]
  /\ worker \in [Workers -> WorkerState]
  /\ crashes \in 0 .. MaxCrashes

Init ==
  /\ riskRows = [r \in Runs |-> [s \in Symbols |-> None]]
  /\ orderSets = [r \in Runs |-> None]
  /\ orders = [o \in OrderId |-> None]
  /\ obligations = [o \in OrderId |-> None]
  /\ worker = [w \in Workers |-> Idle]
  /\ crashes = 0

-----------------------------------------------------------------------------
(* Persisting the risk results and the orders of a run *)

\* build_pending_orders: one order per approved or clamped decision
OrdersOf(r, d) ==
  {[run |-> r, symbol |-> s, target |-> d[s]] : s \in {x \in Symbols : d[x] \in Targets}}

BeginPersist(w, r, d) ==
  /\ worker[w].pc = "idle"
  /\ d \in DecisionsOf[r]
  /\ worker' = [worker EXCEPT ![w] =
       [Idle EXCEPT !.pc = "risk", !.run = r, !.decision = d, !.todo = Symbols]]
  /\ UNCHANGED <<riskRows, orderSets, orders, obligations, crashes>>

\* Mutant: the rows of a rejected decision are not written.
PersistRiskRow_ApprovedOnly(w, s) ==
  /\ worker[w].pc = "risk"
  /\ s \in worker[w].todo
  /\ riskRows' = IF worker[w].decision[s] \in Targets
                 THEN [riskRows EXCEPT ![worker[w].run][s] = worker[w].decision[s]]
                 ELSE riskRows
  /\ worker' = [worker EXCEPT
       ![w].todo = @ \ {s},
       ![w].pc = IF worker[w].todo = {s} THEN "orders" ELSE "risk"]
  /\ UNCHANGED <<orderSets, orders, obligations, crashes>>

\* persist_risk_results: each INSERT OR REPLACE commits on its own.
PersistRiskRow(w, s) ==
  /\ worker[w].pc = "risk"
  /\ s \in worker[w].todo
  /\ riskRows' = [riskRows EXCEPT ![worker[w].run][s] = worker[w].decision[s]]
  /\ worker' = [worker EXCEPT
       ![w].todo = @ \ {s},
       ![w].pc = IF worker[w].todo = {s} THEN "orders" ELSE "risk"]
  /\ UNCHANGED <<orderSets, orders, obligations, crashes>>

\* What persist_orders demands of a first order set: no order of it is already
\* stored with another payload, its status included.
OrdersFit(new) == \A o \in new : orders[o] \in {None, "PENDING"}

\* A run has one order set.
SetFits(r, new) == orderSets[r] \in {None, new}

\* Mutant: the orders are committed row by row, the digest with the last one.
PersistOrders_RowByRow(w) ==
  LET r == worker[w].run
      new == OrdersOf(r, worker[w].decision)
  IN  /\ worker[w].pc = "orders"
      /\ SetFits(r, new) /\ OrdersFit(new)
      /\ \E part \in SUBSET new :
           /\ orders' = [o \in OrderId |-> IF o \in part THEN "PENDING" ELSE orders[o]]
           /\ orderSets' = IF part = new THEN [orderSets EXCEPT ![r] = new] ELSE orderSets
           /\ worker' = [worker EXCEPT ![w].pc = IF part = new THEN "idle" ELSE "orders"]
      /\ UNCHANGED <<riskRows, obligations, crashes>>

\* persist_orders: a first order set is inserted whole, the same set again is
\* accepted, anything else rolls back and raises.
PersistOrders(w) ==
  LET r == worker[w].run
      new == OrdersOf(r, worker[w].decision)
  IN  /\ worker[w].pc = "orders"
      /\ IF orderSets[r] # new /\ SetFits(r, new) /\ OrdersFit(new) /\ new # {}
         THEN /\ orders' = [o \in OrderId |-> IF o \in new THEN "PENDING" ELSE orders[o]]
              /\ orderSets' = [orderSets EXCEPT ![r] = new]
         ELSE UNCHANGED <<orders, orderSets>>
      /\ worker' = [worker EXCEPT ![w] = Idle]
      /\ UNCHANGED <<riskRows, obligations, crashes>>

-----------------------------------------------------------------------------
(* Execution obligations *)

CreateObligation(o) ==
  /\ orders[o] = "PENDING"
  /\ obligations[o] = None
  /\ obligations' = [obligations EXCEPT ![o] = "DISCOVERED"]
  /\ UNCHANGED <<riskRows, orderSets, orders, worker, crashes>>

BlockObligationData(o) ==
  /\ obligations[o] \notin Terminal \cup {None}
  /\ obligations' = [obligations EXCEPT ![o] = "BLOCKED_DATA"]
  /\ UNCHANGED <<riskRows, orderSets, orders, worker, crashes>>

MarkObligationReady(o) ==
  /\ obligations[o] = "BLOCKED_DATA"
  /\ obligations' = [obligations EXCEPT ![o] = "READY"]
  /\ UNCHANGED <<riskRows, orderSets, orders, worker, crashes>>

\* Mutant: the check of the present states is left to the caller, who made it
\* before the executor ran.
MayFinalize_Unchecked(o) == obligations[o] # None

\* _finalize_order refuses an unknown pair and one already terminal.
MayFinalize(o) ==
  /\ orders[o] = "PENDING"
  /\ obligations[o] \notin Terminal \cup {None}

\* Mutant: the two statuses change places.
Finalize_Swapped(o, terminal, final) ==
  /\ obligations' = [obligations EXCEPT ![o] = final]
  /\ orders' = [orders EXCEPT ![o] = terminal]

Finalize(o, terminal, final) ==
  /\ obligations' = [obligations EXCEPT ![o] = terminal]
  /\ orders' = [orders EXCEPT ![o] = final]

TerminateExpired(o) ==
  /\ MayFinalize(o)
  /\ Finalize(o, "TERMINATED_EXPIRED", "FINALIZED_EXPIRED")
  /\ UNCHANGED <<riskRows, orderSets, worker, crashes>>

TerminateCancelled(o) ==
  /\ MayFinalize(o)
  /\ Finalize(o, "TERMINATED_CANCELLED", "FINALIZED_CANCELLED")
  /\ UNCHANGED <<riskRows, orderSets, worker, crashes>>

-----------------------------------------------------------------------------
(* ExecutionAdapter.execute *)

\* execute ends: the caller keeps the order and the outcome, or an exception.
Return(w, o, outcome) ==
  worker' = [worker EXCEPT ![w] = [Idle EXCEPT !.order = o, !.outcome = outcome]]

\* The gate is fail-closed: without a validated authority nothing runs.
Execute(w, o) ==
  /\ worker[w].pc = "idle"
  /\ orders[o] # None
  /\ IF w \in Validated
     THEN worker' = [worker EXCEPT ![w] = [Idle EXCEPT !.pc = "executor", !.order = o]]
     ELSE Return(w, o, "BLOCKED")
  /\ UNCHANGED <<riskRows, orderSets, orders, obligations, crashes>>

\* The injected executor computes a fill or a rejection, outside any transaction.
RunExecutor(w) ==
  /\ worker[w].pc = "executor"
  /\ \E next \in {"fill", "reject"} : worker' = [worker EXCEPT ![w].pc = next]
  /\ UNCHANGED <<riskRows, orderSets, orders, obligations, crashes>>

\* A refused finalization is a StoreError: no result.
FinalizeFill(w) ==
  LET o == worker[w].order
  IN  /\ worker[w].pc = "fill"
      /\ \/ /\ MayFinalize(o)
            /\ Finalize(o, "FINALIZED_FILLED", "FINALIZED_FILLED")
            /\ Return(w, o, "FILLED")
         \/ /\ ~MayFinalize(o)
            /\ Return(w, None, None)
            /\ UNCHANGED <<orders, obligations>>
      /\ UNCHANGED <<riskRows, orderSets, crashes>>

FinalizeRejection(w) ==
  LET o == worker[w].order
  IN  /\ worker[w].pc = "reject"
      /\ \/ /\ MayFinalize(o)
            /\ Finalize(o, "FINALIZED_REJECTED", "FINALIZED_REJECTED")
            /\ Return(w, o, "REJECTED")
         \/ /\ ~MayFinalize(o)
            /\ Return(w, None, None)
            /\ UNCHANGED <<orders, obligations>>
      /\ UNCHANGED <<riskRows, orderSets, crashes>>

Crash(w) ==
  /\ worker[w].pc # "idle"
  /\ crashes < MaxCrashes
  /\ crashes' = crashes + 1
  /\ worker' = [worker EXCEPT ![w] = Idle]
  /\ UNCHANGED <<riskRows, orderSets, orders, obligations>>

WorkerStep(w) ==
  \/ \E r \in Runs : \E d \in DecisionsOf[r] : BeginPersist(w, r, d)
  \/ \E s \in Symbols : PersistRiskRow(w, s)
  \/ PersistOrders(w)
  \/ \E o \in OrderId : Execute(w, o)
  \/ RunExecutor(w) \/ FinalizeFill(w) \/ FinalizeRejection(w)

OrderStep(o) ==
  \/ CreateObligation(o) \/ BlockObligationData(o) \/ MarkObligationReady(o)
  \/ TerminateExpired(o) \/ TerminateCancelled(o)

Next ==
  \/ \E w \in Workers : WorkerStep(w) \/ Crash(w)
  \/ \E o \in OrderId : OrderStep(o)

Spec == Init /\ [][Next]_vars

-----------------------------------------------------------------------------
(* Properties *)

\* A run's orders are its one committed order set, no more and no less, whoever
\* else persisted for the run, with whatever decisions, and wherever it died.
OrderSetWhole ==
  \A r \in Runs :
    {o \in OrderId : o.run = r /\ orders[o] # None} =
      IF orderSets[r] = None THEN {} ELSE orderSets[r]

\* An obligation and its order are unfinished together or form one of the legal
\* terminal pairs (design :341-348).
LegalPairs ==
  {<<"FINALIZED_FILLED", "FINALIZED_FILLED">>,
   <<"FINALIZED_REJECTED", "FINALIZED_REJECTED">>,
   <<"TERMINATED_EXPIRED", "FINALIZED_EXPIRED">>,
   <<"TERMINATED_CANCELLED", "FINALIZED_CANCELLED">>}

TerminalPairs ==
  \A o \in OrderId :
    \/ orders[o] \in {None, "PENDING"} /\ obligations[o] = None
    \/ orders[o] = "PENDING" /\ obligations[o] \in ObligationStatus \ Terminal
    \/ <<obligations[o], orders[o]>> \in LegalPairs

\* Once finalized, an order and its obligation never move again: a fill computed
\* before a cancellation does not overtake it, nor the reverse.
FinalizedForever ==
  [][\A o \in OrderId : orders[o] \notin {None, "PENDING"} =>
       orders'[o] = orders[o] /\ obligations'[o] = obligations[o]]_vars

\* What execute tells its callers is what the store says, and one fill or
\* rejection of an order is reported to one caller only.
ReportedOnce ==
  \A w \in Workers : worker[w].outcome \in {"FILLED", "REJECTED"} =>
    LET o == worker[w].order
    IN  /\ orders[o] = IF worker[w].outcome = "FILLED" THEN "FINALIZED_FILLED"
                                                       ELSE "FINALIZED_REJECTED"
        /\ \A v \in Workers \ {w} :
             worker[v].order = o => worker[v].outcome \notin {"FILLED", "REJECTED"}

\* The order set, the orders, the obligations and what execute has told its
\* callers are one story, through attempts that compete, obligations that end on
\* their own and processes that die (persist_orders, _finalize_order, execute).
OrdersAgree == OrderSetWhole /\ TerminalPairs /\ ReportedOnce

\* Only a process with a validated execution authority fills or rejects, and it
\* does so for an order it was asked to execute.
AuthorityForFills ==
  [][\A o \in OrderId :
       orders'[o] # orders[o] /\ orders'[o] \in {"FINALIZED_FILLED", "FINALIZED_REJECTED"} =>
         \E w \in Validated : worker[w].order = o /\ worker'[w].outcome # None]_vars

\* A fill or rejection needs authority when it is made and nothing undoes it
\* (ExecutionAdapter.execute, _finalize_order).
FillsAreFinal == FinalizedForever /\ AuthorityForFills

\* When callers present one decision vector for a run, its orders are justified
\* by its stored risk rows: every candidate has a row and the orders are exactly
\* those the rows approve.
RiskExplainsOrders ==
  \A r \in Runs : orderSets[r] # None /\ (\A d, e \in DecisionsOf[r] : d = e) =>
    /\ \A s \in Symbols : riskRows[r][s] # None
    /\ orderSets[r] = OrdersOf(r, riskRows[r])

=============================================================================
