------------------------ MODULE OrderExecutionProofs ------------------------
(***************************************************************************)
(* Proofs about OrderExecution, for every number of processes, runs,       *)
(* symbols and crashes.                                                    *)
(*                                                                         *)
(* The inductive invariant joins the types with what a process in the      *)
(* middle of a call remembers (LocalsInv), what the tables and the callers *)
(* have in common (OrdersAgree), and how far the risk rows of a run with   *)
(* one decision vector have been written (RiskInv).                        *)
(***************************************************************************)
EXTENDS OrderExecution, TLAPS

\* What process w remembers in state s: while it persists, a run and one of the
\* run's vectors; while it executes, an order, and it has the authority; once it
\* has reported, it is done.
LocalsAgree(w, s) ==
  /\ s.pc \in {"risk", "orders"} => s.run \in Runs /\ s.decision \in DecisionsOf[s.run]
  /\ s.pc \in {"executor", "fill", "reject"} => w \in Validated /\ s.order \in OrderId
  /\ s.outcome # None => s.pc = "idle" /\ s.order \in OrderId

LocalsInv == \A w \in Workers : LocalsAgree(w, worker[w])

BaseInv == TypeOK /\ LocalsInv

-----------------------------------------------------------------------------
(* Types and locals *)

LEMMA IdleFits == Idle \in WorkerState /\ \A w \in Workers : LocalsAgree(w, Idle)
BY DEF Idle, WorkerState, PCs, LocalsAgree

LEMMA InitBase == Init => BaseInv
BY IdleFits, ConstantsAssumption DEF Init, BaseInv, TypeOK, LocalsInv

\* A step of one process that leaves it in a state that fits
LEMMA Become ==
  ASSUME BaseInv, NEW w \in Workers, NEW next \in WorkerState, LocalsAgree(w, next),
         worker' = [worker EXCEPT ![w] = next]
  PROVE  worker' \in [Workers -> WorkerState] /\ LocalsInv'
<1>1. worker \in [Workers -> WorkerState]
  BY DEF BaseInv, TypeOK
<1>2. worker' \in [Workers -> WorkerState]
  BY <1>1
<1>3. \A v \in Workers : worker'[v] = IF v = w THEN next ELSE worker[v]
  BY <1>1
<1>4. \A v \in Workers : LocalsAgree(v, worker'[v])
  BY <1>3 DEF BaseInv, LocalsInv
<1> QED BY <1>2, <1>4 DEF LocalsInv, LocalsAgree

LEMMA BeginPersistBase ==
  ASSUME BaseInv, NEW w \in Workers, NEW r \in Runs, NEW d \in DecisionsOf[r],
         BeginPersist(w, r, d)
  PROVE  BaseInv'
<1> DEFINE next == [Idle EXCEPT !.pc = "risk", !.run = r, !.decision = d, !.todo = Symbols]
<1>1. d \in Decisions
  BY ConstantsAssumption
<1>2. next \in WorkerState
  BY <1>1 DEF WorkerState, PCs, Idle
<1>3. LocalsAgree(w, next)
  BY DEF LocalsAgree, Idle
<1>4. worker' = [worker EXCEPT ![w] = next]
  BY DEF BeginPersist
<1>5. worker' \in [Workers -> WorkerState] /\ LocalsInv'
  BY <1>2, <1>3, <1>4, Become
<1> QED BY <1>5 DEF BaseInv, TypeOK, BeginPersist

LEMMA PersistRiskRowBase ==
  ASSUME BaseInv, NEW w \in Workers, NEW s \in Symbols, PersistRiskRow(w, s)
  PROVE  BaseInv'
<1> DEFINE r == worker[w].run
           d == worker[w].decision
           next == [worker[w] EXCEPT
                      !.todo = worker[w].todo \ {s},
                      !.pc = IF worker[w].todo = {s} THEN "orders" ELSE "risk"]
<1>1. worker[w] \in WorkerState
  BY DEF BaseInv, TypeOK
<1>2. r \in Runs /\ d \in DecisionsOf[r]
  BY DEF BaseInv, LocalsInv, LocalsAgree, PersistRiskRow
<1>3. d[s] \in Targets \cup {Rejected}
  BY <1>2, ConstantsAssumption DEF Decisions
<1>4. riskRows' \in [Runs -> [Symbols -> Targets \cup {Rejected, None}]]
  BY <1>2, <1>3 DEF BaseInv, TypeOK, PersistRiskRow
<1>5. next \in WorkerState
  BY <1>1 DEF WorkerState, PCs
<1>6. LocalsAgree(w, next)
  <2>1. worker[w].outcome = None
    BY DEF BaseInv, LocalsInv, LocalsAgree, PersistRiskRow
  <2> QED BY <1>1, <1>2, <2>1 DEF LocalsAgree, WorkerState
<1>7. worker' = [worker EXCEPT ![w] = next]
  BY <1>1 DEF PersistRiskRow, WorkerState, BaseInv, TypeOK
<1>8. worker' \in [Workers -> WorkerState] /\ LocalsInv'
  BY <1>5, <1>6, <1>7, Become
<1> QED BY <1>4, <1>8 DEF BaseInv, TypeOK, PersistRiskRow

\* The orders of a run are orders, and its own.
LEMMA OrdersOfType ==
  ASSUME NEW r \in Runs, NEW d
  PROVE  /\ OrdersOf(r, d) \subseteq OrderId
         /\ \A o \in OrdersOf(r, d) : o.run = r
BY DEF OrdersOf, OrderId

LEMMA PersistOrdersBase ==
  ASSUME BaseInv, NEW w \in Workers, PersistOrders(w)
  PROVE  BaseInv'
<1> DEFINE r == worker[w].run
           new == OrdersOf(r, worker[w].decision)
<1>1. r \in Runs
  BY DEF BaseInv, LocalsInv, LocalsAgree, PersistOrders
<1>2. new \subseteq OrderId
  BY <1>1, OrdersOfType
<1>3. orders' \in [OrderId -> OrderStatus \cup {None}]
  BY DEF BaseInv, TypeOK, PersistOrders, OrderStatus
<1>4. orderSets' \in [Runs -> {None} \cup SUBSET OrderId]
  BY <1>1, <1>2 DEF BaseInv, TypeOK, PersistOrders
<1>5. worker' = [worker EXCEPT ![w] = Idle]
  BY DEF PersistOrders
<1>6. worker' \in [Workers -> WorkerState] /\ LocalsInv'
  BY <1>5, IdleFits, Become
<1> QED BY <1>3, <1>4, <1>6 DEF BaseInv, TypeOK, PersistOrders

\* The states in which a call of execute leaves its process fit.
LEMMA ReturnFits ==
  ASSUME NEW w \in Workers, NEW o \in OrderId, NEW outcome \in ExecutionOutcome
  PROVE  LET next == [Idle EXCEPT !.order = o, !.outcome = outcome]
         IN  next \in WorkerState /\ LocalsAgree(w, next)
BY DEF Idle, WorkerState, PCs, LocalsAgree

LEMMA ExecuteBase ==
  ASSUME BaseInv, NEW w \in Workers, NEW o \in OrderId, Execute(w, o)
  PROVE  BaseInv'
<1>1. worker' \in [Workers -> WorkerState] /\ LocalsInv'
  <2>1. CASE w \in Validated
    <3> DEFINE next == [Idle EXCEPT !.pc = "executor", !.order = o]
    <3>1. next \in WorkerState
      BY DEF WorkerState, PCs, Idle
    <3>2. LocalsAgree(w, next)
      BY <2>1 DEF LocalsAgree, Idle
    <3>3. worker' = [worker EXCEPT ![w] = next]
      BY <2>1 DEF Execute
    <3> QED BY <3>1, <3>2, <3>3, Become
  <2>2. CASE w \notin Validated
    <3>1. worker' = [worker EXCEPT ![w] = [Idle EXCEPT !.order = o, !.outcome = "BLOCKED"]]
      BY <2>2 DEF Execute, Return
    <3>2. "BLOCKED" \in ExecutionOutcome
      BY DEF ExecutionOutcome
    <3> QED BY <3>1, <3>2, ReturnFits, Become
  <2> QED BY <2>1, <2>2
<1> QED BY <1>1 DEF BaseInv, TypeOK, Execute

LEMMA RunExecutorBase ==
  ASSUME BaseInv, NEW w \in Workers, RunExecutor(w)
  PROVE  BaseInv'
<1>1. PICK pc \in {"fill", "reject"} : worker' = [worker EXCEPT ![w].pc = pc]
  BY DEF RunExecutor
<1> DEFINE next == [worker[w] EXCEPT !.pc = pc]
<1>2. worker[w] \in WorkerState
  BY DEF BaseInv, TypeOK
<1>3. next \in WorkerState
  BY <1>2 DEF WorkerState, PCs
<1>4. LocalsAgree(w, next)
  BY <1>2 DEF BaseInv, LocalsInv, LocalsAgree, RunExecutor, WorkerState
<1>5. worker' = [worker EXCEPT ![w] = next]
  BY <1>1
<1>6. worker' \in [Workers -> WorkerState] /\ LocalsInv'
  BY <1>3, <1>4, <1>5, Become
<1> QED BY <1>6 DEF BaseInv, TypeOK, RunExecutor

\* What FinalizeFill and FinalizeRejection share
Finalized(w, terminal, final, outcome) ==
  LET o == worker[w].order
  IN  /\ worker[w].pc \in {"fill", "reject"}
      /\ \/ /\ MayFinalize(o)
            /\ Finalize(o, terminal, final)
            /\ Return(w, o, outcome)
         \/ /\ ~MayFinalize(o)
            /\ Return(w, None, None)
            /\ UNCHANGED <<orders, obligations>>
      /\ UNCHANGED <<riskRows, orderSets, crashes>>

LEMMA FinalizeIsFinalized ==
  ASSUME NEW w \in Workers
  PROVE  /\ FinalizeFill(w) => Finalized(w, "FINALIZED_FILLED", "FINALIZED_FILLED", "FILLED")
         /\ FinalizeRejection(w) =>
              Finalized(w, "FINALIZED_REJECTED", "FINALIZED_REJECTED", "REJECTED")
BY DEF FinalizeFill, FinalizeRejection, Finalized

LEMMA FinalizedBase ==
  ASSUME BaseInv, NEW w \in Workers,
         NEW terminal \in Terminal, NEW final \in OrderStatus, NEW outcome \in ExecutionOutcome,
         Finalized(w, terminal, final, outcome)
  PROVE  BaseInv'
<1> DEFINE o == worker[w].order
<1>1. o \in OrderId
  BY DEF BaseInv, LocalsInv, LocalsAgree, Finalized
<1>2. worker' \in [Workers -> WorkerState] /\ LocalsInv'
  <2>1. CASE MayFinalize(o)
    <3>1. worker' = [worker EXCEPT ![w] = [Idle EXCEPT !.order = o, !.outcome = outcome]]
      BY <2>1 DEF Finalized, Return
    <3> QED BY <1>1, <3>1, ReturnFits, Become
  <2>2. CASE ~MayFinalize(o)
    <3> DEFINE next == [Idle EXCEPT !.order = None, !.outcome = None]
    <3>1. next \in WorkerState /\ LocalsAgree(w, next)
      BY DEF Idle, WorkerState, PCs, LocalsAgree
    <3>2. worker' = [worker EXCEPT ![w] = next]
      BY <2>2 DEF Finalized, Return
    <3> QED BY <3>1, <3>2, Become
  <2> QED BY <2>1, <2>2
<1>3. orders' \in [OrderId -> OrderStatus \cup {None}]
  BY <1>1 DEF BaseInv, TypeOK, Finalized, Finalize
<1>4. obligations' \in [OrderId -> ObligationStatus \cup {None}]
  BY <1>1 DEF BaseInv, TypeOK, Finalized, Finalize, ObligationStatus
<1> QED BY <1>2, <1>3, <1>4 DEF BaseInv, TypeOK, Finalized

LEMMA CrashBase ==
  ASSUME BaseInv, NEW w \in Workers, Crash(w)
  PROVE  BaseInv'
<1>1. worker' = [worker EXCEPT ![w] = Idle]
  BY DEF Crash
<1>2. worker' \in [Workers -> WorkerState] /\ LocalsInv'
  BY <1>1, IdleFits, Become
<1>3. crashes' \in 0 .. MaxCrashes
  BY ConstantsAssumption DEF BaseInv, TypeOK, Crash
<1> QED BY <1>2, <1>3 DEF BaseInv, TypeOK, Crash

LEMMA OrderStepBase ==
  ASSUME BaseInv, NEW o \in OrderId, OrderStep(o)
  PROVE  BaseInv'
<1>1. LocalsInv'
  BY DEF BaseInv, LocalsInv, LocalsAgree, OrderStep, CreateObligation, BlockObligationData,
         MarkObligationReady, TerminateExpired, TerminateCancelled
<1>2. TypeOK'
  BY DEF BaseInv, TypeOK, OrderStep, CreateObligation, BlockObligationData,
         MarkObligationReady, TerminateExpired, TerminateCancelled, Finalize,
         ObligationStatus, OrderStatus, Terminal
<1> QED BY <1>1, <1>2 DEF BaseInv

LEMMA NextBase == BaseInv /\ [Next]_vars => BaseInv'
<1> SUFFICES ASSUME BaseInv, [Next]_vars PROVE BaseInv'
  OBVIOUS
<1>1. CASE UNCHANGED vars
  BY <1>1 DEF vars, BaseInv, TypeOK, LocalsInv, LocalsAgree
<1>2. ASSUME NEW w \in Workers, WorkerStep(w) PROVE BaseInv'
  <2>1. ASSUME NEW r \in Runs, NEW d \in DecisionsOf[r], BeginPersist(w, r, d) PROVE BaseInv'
    BY <2>1, BeginPersistBase
  <2>2. ASSUME NEW s \in Symbols, PersistRiskRow(w, s) PROVE BaseInv'
    BY <2>2, PersistRiskRowBase
  <2>3. CASE PersistOrders(w)
    BY <2>3, PersistOrdersBase
  <2>4. ASSUME NEW o \in OrderId, Execute(w, o) PROVE BaseInv'
    BY <2>4, ExecuteBase
  <2>5. CASE RunExecutor(w)
    BY <2>5, RunExecutorBase
  <2>6. CASE FinalizeFill(w)
    <3>1. Finalized(w, "FINALIZED_FILLED", "FINALIZED_FILLED", "FILLED")
      BY <2>6, FinalizeIsFinalized
    <3> QED BY <3>1, FinalizedBase DEF Terminal, OrderStatus, ExecutionOutcome
  <2>7. CASE FinalizeRejection(w)
    <3>1. Finalized(w, "FINALIZED_REJECTED", "FINALIZED_REJECTED", "REJECTED")
      BY <2>7, FinalizeIsFinalized
    <3> QED BY <3>1, FinalizedBase DEF Terminal, OrderStatus, ExecutionOutcome
  <2> QED BY <1>2, <2>1, <2>2, <2>3, <2>4, <2>5, <2>6, <2>7 DEF WorkerStep
<1>3. ASSUME NEW w \in Workers, Crash(w) PROVE BaseInv'
  BY <1>3, CrashBase
<1>4. ASSUME NEW o \in OrderId, OrderStep(o) PROVE BaseInv'
  BY <1>4, OrderStepBase
<1> QED BY <1>1, <1>2, <1>3, <1>4 DEF Next

THEOREM BaseCorrect == Spec => []BaseInv
<1>1. BaseInv /\ [Next]_vars => BaseInv'
  BY NextBase
<1> QED BY <1>1, InitBase, PTL DEF Spec

\* Every table and every process keeps its type: statuses are of the tables' own
\* sets and no process forgets where it stands.
THEOREM TypeCorrect == Spec => []TypeOK
<1>1. BaseInv => TypeOK
  BY DEF BaseInv
<1> QED BY <1>1, BaseCorrect, PTL

-----------------------------------------------------------------------------
(* The tables and the callers agree, and what is final stays *)

StoreInv == BaseInv /\ OrdersAgree

Reports == {"FILLED", "REJECTED"}
FinalStatus == OrderStatus \ {"PENDING"}

LEMMA InitOrdersAgree == Init => OrdersAgree
BY ConstantsAssumption DEF Init, OrdersAgree, OrderSetWhole, TerminalPairs, ReportedOnce, Idle,
     ExecutionOutcome

\* A step that leaves the tables of orders alone and reports no result
LEMMA QuietStep ==
  ASSUME OrdersAgree, UNCHANGED <<orderSets, orders, obligations>>,
         \A v \in Workers : worker'[v] = worker[v] \/ worker'[v].outcome \notin Reports
  PROVE  OrdersAgree'
<1>1. OrderSetWhole' /\ TerminalPairs'
  BY DEF OrdersAgree, OrderSetWhole, TerminalPairs
<1>2. ReportedOnce'
  BY DEF OrdersAgree, ReportedOnce, Reports
<1> QED BY <1>1, <1>2 DEF OrdersAgree

\* persist_orders inserts a whole order set, of orders that were not stored.
LEMMA PersistOrdersAgrees ==
  ASSUME StoreInv, NEW w \in Workers, PersistOrders(w)
  PROVE  /\ OrdersAgree'
         /\ \A o \in OrderId : orders[o] # None => orders'[o] = orders[o]
         /\ \A o \in OrderId : orders'[o] # orders[o] => orders'[o] = "PENDING"
         /\ obligations' = obligations
<1> DEFINE r == worker[w].run
           new == OrdersOf(r, worker[w].decision)
<1>1. r \in Runs
  BY DEF StoreInv, BaseInv, LocalsInv, LocalsAgree, PersistOrders
<1>2. new \subseteq OrderId /\ \A o \in new : o.run = r
  BY <1>1, OrdersOfType
<1>3. worker' = [worker EXCEPT ![w] = Idle] /\ obligations' = obligations
  BY DEF PersistOrders
<1>4. \A v \in Workers : worker'[v] = worker[v] \/ worker'[v].outcome \notin Reports
  BY <1>3, ConstantsAssumption DEF StoreInv, BaseInv, TypeOK, Idle, Reports, ExecutionOutcome
<1>5. CASE UNCHANGED <<orders, orderSets>>
  BY <1>3, <1>4, <1>5, QuietStep DEF StoreInv
<1>6. CASE /\ orderSets[r] # new /\ SetFits(r, new)
           /\ orders' = [o \in OrderId |-> IF o \in new THEN "PENDING" ELSE orders[o]]
           /\ orderSets' = [orderSets EXCEPT ![r] = new]
  <2>1. orderSets[r] = None
    BY <1>6 DEF SetFits
  <2>2. \A o \in OrderId : o.run = r => orders[o] = None
    BY <1>1, <2>1 DEF StoreInv, OrdersAgree, OrderSetWhole
  <2>3. \A o \in OrderId : orders'[o] = IF o \in new THEN "PENDING" ELSE orders[o]
    BY <1>6
  <2>4. new # None
    BY <1>2, ConstantsAssumption
  <2>5. OrderSetWhole'
    <3> SUFFICES ASSUME NEW q \in Runs
                 PROVE  {o \in OrderId : o.run = q /\ orders'[o] # None} =
                          IF orderSets'[q] = None THEN {} ELSE orderSets'[q]
      BY DEF OrderSetWhole
    <3>1. CASE q = r
      <4>1. orderSets'[q] = new
        BY <1>1, <1>6, <3>1 DEF StoreInv, BaseInv, TypeOK
      <4>2. {o \in OrderId : o.run = q /\ orders'[o] # None} = new
        BY <1>2, <2>2, <2>3, <3>1, ConstantsAssumption DEF OrderStatus
      <4> QED BY <2>4, <4>1, <4>2
    <3>2. CASE q # r
      <4>1. orderSets'[q] = orderSets[q]
        BY <1>6, <3>2 DEF StoreInv, BaseInv, TypeOK
      <4>2. \A o \in OrderId : o.run = q => orders'[o] = orders[o]
        BY <1>2, <2>3, <3>2
      <4> QED BY <4>1, <4>2 DEF StoreInv, OrdersAgree, OrderSetWhole
    <3> QED BY <3>1, <3>2
  <2>6. TerminalPairs'
    <3> SUFFICES ASSUME NEW o \in OrderId
                 PROVE  \/ orders'[o] \in {None, "PENDING"} /\ obligations'[o] = None
                        \/ /\ orders'[o] = "PENDING"
                           /\ obligations'[o] \in ObligationStatus \ Terminal
                        \/ <<obligations'[o], orders'[o]>> \in LegalPairs
      BY DEF TerminalPairs
    <3>1. CASE o \in new
      <4>1. orders[o] = None
        BY <1>2, <2>2, <3>1
      <4>2. obligations[o] = None
        BY <4>1, ConstantsAssumption
           DEF StoreInv, OrdersAgree, TerminalPairs, LegalPairs, OrderStatus
      <4> QED BY <1>3, <2>3, <3>1, <4>2
    <3>2. CASE o \notin new
      BY <1>3, <2>3, <3>2 DEF StoreInv, OrdersAgree, TerminalPairs
    <3> QED BY <3>1, <3>2
  <2>7. \A o \in OrderId : orders[o] # None => orders'[o] = orders[o]
    BY <1>2, <2>2, <2>3
  <2>8. ReportedOnce'
    <3> SUFFICES ASSUME NEW v \in Workers, worker'[v].outcome \in Reports
                 PROVE  LET o == worker'[v].order
                        IN  /\ orders'[o] = IF worker'[v].outcome = "FILLED"
                                            THEN "FINALIZED_FILLED" ELSE "FINALIZED_REJECTED"
                            /\ \A u \in Workers \ {v} :
                                 worker'[u].order = o => worker'[u].outcome \notin Reports
      BY DEF ReportedOnce, Reports
    <3> DEFINE o == worker[v].order
    <3>1. worker'[v] = worker[v]
      BY <1>4
    <3>2. o \in OrderId
      BY <3>1, ConstantsAssumption
         DEF StoreInv, BaseInv, LocalsInv, LocalsAgree, Reports, ExecutionOutcome
    <3>3. /\ orders[o] = IF worker[v].outcome = "FILLED" THEN "FINALIZED_FILLED"
                                                         ELSE "FINALIZED_REJECTED"
          /\ \A u \in Workers \ {v} :
               worker[u].order = o => worker[u].outcome \notin Reports
      BY <3>1 DEF StoreInv, OrdersAgree, ReportedOnce, Reports
    <3>4. orders'[o] = orders[o]
      BY <2>7, <3>2, <3>3, ConstantsAssumption DEF OrderStatus
    <3>5. \A u \in Workers \ {v} :
             worker'[u].order = o => worker'[u].outcome \notin Reports
      BY <1>4, <3>3
    <3> QED BY <3>1, <3>3, <3>4, <3>5
  <2> QED BY <1>3, <2>3, <2>5, <2>6, <2>7, <2>8 DEF OrdersAgree
<1> QED BY <1>5, <1>6 DEF PersistOrders

\* An order that is not finalized has been reported to nobody.
LEMMA UnreportedOrder ==
  ASSUME StoreInv, NEW o, orders[o] = "PENDING"
  PROVE  \A v \in Workers : worker[v].order = o => worker[v].outcome \notin Reports
BY DEF StoreInv, OrdersAgree, ReportedOnce, Reports

\* A step that finalizes one pending order in a legal way
FinalizeOne(o, terminal, final) ==
  /\ MayFinalize(o)
  /\ Finalize(o, terminal, final)
  /\ orderSets' = orderSets

LEMMA FinalizeOneAgrees ==
  ASSUME StoreInv, NEW o \in OrderId, NEW terminal, NEW final,
         <<terminal, final>> \in LegalPairs, FinalizeOne(o, terminal, final)
  PROVE  /\ OrderSetWhole' /\ TerminalPairs'
         /\ orders'[o] = final
         /\ \A q \in OrderId \ {o} : orders'[q] = orders[q] /\ obligations'[q] = obligations[q]
<1>1. /\ orders[o] = "PENDING"
      /\ orders' = [orders EXCEPT ![o] = final]
      /\ obligations' = [obligations EXCEPT ![o] = terminal]
      /\ orderSets' = orderSets
  BY DEF FinalizeOne, MayFinalize, Finalize
<1>2. /\ orders'[o] = final /\ obligations'[o] = terminal
      /\ \A q \in OrderId \ {o} : orders'[q] = orders[q] /\ obligations'[q] = obligations[q]
  BY <1>1 DEF StoreInv, BaseInv, TypeOK
<1>3. final # None
  BY ConstantsAssumption DEF LegalPairs, OrderStatus
<1>4. "PENDING" # None
  BY ConstantsAssumption DEF OrderStatus
<1>5. \A q \in OrderId : (orders'[q] # None) = (orders[q] # None)
  BY <1>1, <1>2, <1>3, <1>4
<1>6. OrderSetWhole'
  BY <1>1, <1>5 DEF StoreInv, OrdersAgree, OrderSetWhole
<1>7. TerminalPairs'
  BY <1>2 DEF StoreInv, OrdersAgree, TerminalPairs
<1> QED BY <1>2, <1>6, <1>7

\* execute reports the order it has finalized itself, or nothing.
LEMMA FinalizedAgrees ==
  ASSUME StoreInv, NEW w \in Workers, NEW terminal, NEW final, NEW outcome,
         <<terminal, final, outcome>> \in
           {<<"FINALIZED_FILLED", "FINALIZED_FILLED", "FILLED">>,
            <<"FINALIZED_REJECTED", "FINALIZED_REJECTED", "REJECTED">>},
         Finalized(w, terminal, final, outcome)
  PROVE  OrdersAgree'
<1> DEFINE o == worker[w].order
<1>1. o \in OrderId
  BY DEF StoreInv, BaseInv, LocalsInv, LocalsAgree, Finalized
<1>2. worker \in [Workers -> WorkerState]
  BY DEF StoreInv, BaseInv, TypeOK
<1>3. CASE MayFinalize(o)
  <2>1. FinalizeOne(o, terminal, final)
    BY <1>3 DEF Finalized, FinalizeOne
  <2>2. <<terminal, final>> \in LegalPairs
    BY DEF LegalPairs
  <2>3. /\ OrderSetWhole' /\ TerminalPairs'
        /\ orders'[o] = final
        /\ \A q \in OrderId \ {o} : orders'[q] = orders[q]
    BY <1>1, <2>1, <2>2, FinalizeOneAgrees
  <2>4. worker' = [worker EXCEPT ![w] = [Idle EXCEPT !.order = o, !.outcome = outcome]]
    BY <1>3 DEF Finalized, Return
  <2>5. worker'[w].order = o /\ worker'[w].outcome = outcome
    BY <1>2, <2>4 DEF Idle
  <2>6. \A v \in Workers \ {w} : worker'[v] = worker[v]
    BY <1>2, <2>4
  <2>7. \A v \in Workers \ {w} : worker[v].order = o => worker[v].outcome \notin Reports
    <3>1. orders[o] = "PENDING"
      BY <1>3 DEF MayFinalize
    <3> QED BY <3>1, UnreportedOrder
  <2>8. ReportedOnce'
    <3> SUFFICES ASSUME NEW v \in Workers, worker'[v].outcome \in Reports
                 PROVE  LET q == worker'[v].order
                        IN  /\ orders'[q] = IF worker'[v].outcome = "FILLED"
                                            THEN "FINALIZED_FILLED" ELSE "FINALIZED_REJECTED"
                            /\ \A u \in Workers \ {v} :
                                 worker'[u].order = q => worker'[u].outcome \notin Reports
      BY DEF ReportedOnce, Reports
    <3>1. CASE v = w
      <4>1. orders'[o] = IF outcome = "FILLED" THEN "FINALIZED_FILLED" ELSE "FINALIZED_REJECTED"
        BY <2>3
      <4> QED BY <2>5, <2>6, <2>7, <3>1, <4>1
    <3>2. CASE v # w
      <4> DEFINE q == worker[v].order
      <4>1. worker'[v] = worker[v]
        BY <2>6, <3>2
      <4>2. q \in OrderId
        BY <4>1, ConstantsAssumption
           DEF StoreInv, BaseInv, LocalsInv, LocalsAgree, Reports, ExecutionOutcome
      <4>3. q # o
        BY <2>7, <3>2, <4>1
      <4>4. /\ orders[q] = IF worker[v].outcome = "FILLED" THEN "FINALIZED_FILLED"
                                                           ELSE "FINALIZED_REJECTED"
            /\ \A u \in Workers \ {v} :
                 worker[u].order = q => worker[u].outcome \notin Reports
        BY <4>1 DEF StoreInv, OrdersAgree, ReportedOnce, Reports
      <4>5. orders'[q] = orders[q]
        BY <2>3, <4>2, <4>3
      <4>6. \A u \in Workers \ {v} :
               worker'[u].order = q => worker'[u].outcome \notin Reports
        BY <2>5, <2>6, <4>3, <4>4
      <4> QED BY <4>1, <4>4, <4>5, <4>6
    <3> QED BY <3>1, <3>2
  <2> QED BY <2>3, <2>8 DEF OrdersAgree
<1>4. CASE ~MayFinalize(o)
  <2>1. /\ UNCHANGED <<orderSets, orders, obligations>>
        /\ worker' = [worker EXCEPT ![w] = [Idle EXCEPT !.order = None, !.outcome = None]]
    BY <1>4 DEF Finalized, Return
  <2>2. \A v \in Workers : worker'[v] = worker[v] \/ worker'[v].outcome = None
    BY <1>2, <2>1 DEF Idle
  <2>3. \A v \in Workers : worker'[v] = worker[v] \/ worker'[v].outcome \notin Reports
    BY <2>2, ConstantsAssumption DEF Reports, ExecutionOutcome
  <2> QED BY <2>1, <2>3, QuietStep DEF StoreInv
<1> QED BY <1>3, <1>4

\* Only its own finalization changes the order of an obligation.
LEMMA OrderStepAgrees ==
  ASSUME StoreInv, NEW o \in OrderId, OrderStep(o)
  PROVE  OrdersAgree'
<1>1. worker' = worker /\ orderSets' = orderSets
  BY DEF OrderStep, CreateObligation, BlockObligationData, MarkObligationReady,
         TerminateExpired, TerminateCancelled
<1>2. CASE UNCHANGED orders
  <2>1. OrderSetWhole' /\ ReportedOnce'
    BY <1>1, <1>2 DEF StoreInv, OrdersAgree, OrderSetWhole, ReportedOnce
  <2>2. \A q \in OrderId \ {o} : obligations'[q] = obligations[q]
    BY DEF StoreInv, BaseInv, TypeOK, OrderStep, CreateObligation, BlockObligationData,
           MarkObligationReady, TerminateExpired, TerminateCancelled, Finalize
  <2>3. orders[o] = "PENDING" /\ obligations'[o] \in ObligationStatus \ Terminal
    <3>1. CASE CreateObligation(o)
      BY <3>1 DEF StoreInv, BaseInv, TypeOK, CreateObligation, ObligationStatus, Terminal
    <3>2. CASE BlockObligationData(o)
      BY <3>2, ConstantsAssumption
         DEF StoreInv, BaseInv, TypeOK, OrdersAgree, TerminalPairs, LegalPairs,
             BlockObligationData, ObligationStatus, Terminal
    <3>3. CASE MarkObligationReady(o)
      BY <3>3, ConstantsAssumption
         DEF StoreInv, BaseInv, TypeOK, OrdersAgree, TerminalPairs, LegalPairs,
             MarkObligationReady, ObligationStatus, Terminal
    <3>4. CASE TerminateExpired(o) \/ TerminateCancelled(o)
      BY <1>2, <3>4 DEF StoreInv, BaseInv, TypeOK, TerminateExpired, TerminateCancelled,
         MayFinalize, Finalize
    <3> QED BY <3>1, <3>2, <3>3, <3>4 DEF OrderStep
  <2>4. TerminalPairs'
    BY <1>2, <2>2, <2>3 DEF StoreInv, OrdersAgree, TerminalPairs
  <2> QED BY <2>1, <2>4 DEF OrdersAgree
<1>3. CASE TerminateExpired(o) \/ TerminateCancelled(o)
  <2>1. PICK terminal, final :
          /\ <<terminal, final>> \in LegalPairs
          /\ FinalizeOne(o, terminal, final)
    BY <1>1, <1>3 DEF TerminateExpired, TerminateCancelled, FinalizeOne, LegalPairs
  <2>2. /\ OrderSetWhole' /\ TerminalPairs'
        /\ \A q \in OrderId \ {o} : orders'[q] = orders[q]
    BY <2>1, FinalizeOneAgrees
  <2>3. \A v \in Workers : worker[v].order = o => worker[v].outcome \notin Reports
    BY <2>1, UnreportedOrder DEF FinalizeOne, MayFinalize
  <2>4. ReportedOnce'
    <3> SUFFICES ASSUME NEW v \in Workers, worker[v].outcome \in Reports
                 PROVE  orders'[worker[v].order] = orders[worker[v].order]
      BY <1>1 DEF StoreInv, OrdersAgree, ReportedOnce, Reports
    <3>1. worker[v].order \in OrderId
      BY ConstantsAssumption
         DEF StoreInv, BaseInv, LocalsInv, LocalsAgree, Reports, ExecutionOutcome
    <3> QED BY <2>2, <2>3, <3>1
  <2> QED BY <2>2, <2>4 DEF OrdersAgree
<1> QED BY <1>2, <1>3 DEF OrderStep, CreateObligation, BlockObligationData, MarkObligationReady

LEMMA NextAgrees == StoreInv /\ [Next]_vars => OrdersAgree'
<1> SUFFICES ASSUME StoreInv, [Next]_vars PROVE OrdersAgree'
  OBVIOUS
<1> USE DEF StoreInv
<1>0. worker \in [Workers -> WorkerState]
  BY DEF BaseInv, TypeOK
<1>1. CASE UNCHANGED vars
  BY <1>1, QuietStep DEF vars
<1>2. ASSUME NEW w \in Workers, WorkerStep(w) PROVE OrdersAgree'
  <2>1. ASSUME NEW r \in Runs, NEW d \in DecisionsOf[r], BeginPersist(w, r, d) PROVE OrdersAgree'
    <3>1. \A v \in Workers : worker'[v] = worker[v] \/ worker'[v].outcome = None
      BY <1>0, <2>1 DEF BeginPersist, Idle
    <3> QED BY <2>1, <3>1, QuietStep, ConstantsAssumption
            DEF BeginPersist, Reports, ExecutionOutcome
  <2>2. ASSUME NEW s \in Symbols, PersistRiskRow(w, s) PROVE OrdersAgree'
    <3>1. \A v \in Workers : worker'[v].outcome = worker[v].outcome
      BY <1>0, <2>2 DEF PersistRiskRow, WorkerState
    <3>2. worker[w].outcome = None
      BY <2>2 DEF BaseInv, LocalsInv, LocalsAgree, PersistRiskRow
    <3>3. \A v \in Workers : worker'[v] = worker[v] \/ worker'[v].outcome = None
      BY <1>0, <2>2, <3>1, <3>2 DEF PersistRiskRow
    <3> QED BY <2>2, <3>3, QuietStep, ConstantsAssumption
            DEF PersistRiskRow, Reports, ExecutionOutcome
  <2>3. CASE PersistOrders(w)
    BY <2>3, PersistOrdersAgrees
  <2>4. ASSUME NEW o \in OrderId, Execute(w, o) PROVE OrdersAgree'
    <3>1. \A v \in Workers :
            worker'[v] = worker[v] \/ worker'[v].outcome \in {None, "BLOCKED"}
      BY <1>0, <2>4 DEF Execute, Return, Idle
    <3> QED BY <2>4, <3>1, QuietStep, ConstantsAssumption DEF Execute, Reports, ExecutionOutcome
  <2>5. CASE RunExecutor(w)
    <3>1. worker[w].outcome = None
      BY <2>5 DEF BaseInv, LocalsInv, LocalsAgree, RunExecutor
    <3>2. \A v \in Workers : worker'[v] = worker[v] \/ worker'[v].outcome = None
      BY <1>0, <2>5, <3>1 DEF RunExecutor, WorkerState
    <3> QED BY <2>5, <3>2, QuietStep, ConstantsAssumption
            DEF RunExecutor, Reports, ExecutionOutcome
  <2>6. CASE FinalizeFill(w) \/ FinalizeRejection(w)
    BY <2>6, FinalizeIsFinalized, FinalizedAgrees
  <2> QED BY <1>2, <2>1, <2>2, <2>3, <2>4, <2>5, <2>6 DEF WorkerStep
<1>3. ASSUME NEW w \in Workers, Crash(w) PROVE OrdersAgree'
  <2>1. \A v \in Workers : worker'[v] = worker[v] \/ worker'[v].outcome = None
    BY <1>0, <1>3 DEF Crash, Idle
  <2> QED BY <1>3, <2>1, QuietStep, ConstantsAssumption DEF Crash, Reports, ExecutionOutcome
<1>4. ASSUME NEW o \in OrderId, OrderStep(o) PROVE OrdersAgree'
  BY <1>4, OrderStepAgrees
<1> QED BY <1>1, <1>2, <1>3, <1>4 DEF Next

\* Order sets are whole, pairs of statuses legal and reports true and made once, for
\* any number of processes, runs, symbols and crashes.
THEOREM TablesAgree == Spec => []OrdersAgree
<1>1. Init => StoreInv
  BY InitBase, InitOrdersAgree DEF StoreInv
<1>2. StoreInv /\ [Next]_vars => StoreInv'
  BY NextBase, NextAgrees DEF StoreInv
<1>3. StoreInv => OrdersAgree
  BY DEF StoreInv
<1> QED BY <1>1, <1>2, <1>3, PTL DEF Spec

-----------------------------------------------------------------------------
(* What is final stays, and needs authority *)

FinalStays ==
  \A o \in OrderId : orders[o] \notin {None, "PENDING"} =>
    orders'[o] = orders[o] /\ obligations'[o] = obligations[o]

FillsAuthorized ==
  \A o \in OrderId :
    orders'[o] # orders[o] /\ orders'[o] \in {"FINALIZED_FILLED", "FINALIZED_REJECTED"} =>
      \E w \in Validated : worker[w].order = o /\ worker'[w].outcome # None

\* A finalization by a process with authority
LEMMA FinalizedIsFinal ==
  ASSUME StoreInv, NEW w \in Workers, NEW terminal, NEW final, NEW outcome \in ExecutionOutcome,
         <<terminal, final>> \in LegalPairs, Finalized(w, terminal, final, outcome)
  PROVE  FinalStays /\ FillsAuthorized
<1> DEFINE o == worker[w].order
<1>1. o \in OrderId /\ w \in Validated
  BY DEF StoreInv, BaseInv, LocalsInv, LocalsAgree, Finalized
<1>2. CASE MayFinalize(o)
  <2>1. FinalizeOne(o, terminal, final)
    BY <1>2 DEF Finalized, FinalizeOne
  <2>2. \A q \in OrderId \ {o} : orders'[q] = orders[q] /\ obligations'[q] = obligations[q]
    BY <1>1, <2>1, FinalizeOneAgrees
  <2>3. orders[o] = "PENDING"
    BY <1>2 DEF MayFinalize
  <2>4. worker' = [worker EXCEPT ![w] = [Idle EXCEPT !.order = o, !.outcome = outcome]]
    BY <1>2 DEF Finalized, Return
  <2>5. worker'[w].outcome = outcome /\ outcome # None
    BY <2>4, ConstantsAssumption DEF StoreInv, BaseInv, TypeOK, Idle
  <2> QED BY <1>1, <2>2, <2>3, <2>5 DEF FinalStays, FillsAuthorized
<1>3. CASE ~MayFinalize(o)
  BY <1>3 DEF Finalized, FinalStays, FillsAuthorized
<1> QED BY <1>2, <1>3

LEMMA NextIsFinal == StoreInv /\ [Next]_vars => FinalStays /\ FillsAuthorized
<1> SUFFICES ASSUME StoreInv, [Next]_vars PROVE FinalStays /\ FillsAuthorized
  OBVIOUS
<1>1. CASE UNCHANGED <<orders, obligations>>
  BY <1>1 DEF FinalStays, FillsAuthorized
<1>2. ASSUME NEW w \in Workers, WorkerStep(w), ~UNCHANGED <<orders, obligations>>
      PROVE  FinalStays /\ FillsAuthorized
  <2>1. CASE PersistOrders(w)
    <3>1. /\ \A o \in OrderId : orders[o] # None => orders'[o] = orders[o]
          /\ \A o \in OrderId : orders'[o] # orders[o] => orders'[o] = "PENDING"
          /\ obligations' = obligations
      BY <2>1, PersistOrdersAgrees
    <3> QED BY <3>1 DEF FinalStays, FillsAuthorized
  <2>2. CASE FinalizeFill(w) \/ FinalizeRejection(w)
    BY <2>2, FinalizeIsFinalized, FinalizedIsFinal DEF LegalPairs, ExecutionOutcome
  <2> QED BY <1>2, <2>1, <2>2
          DEF WorkerStep, BeginPersist, PersistRiskRow, Execute, RunExecutor
<1>3. ASSUME NEW o \in OrderId, OrderStep(o) PROVE FinalStays /\ FillsAuthorized
  <2>1. CASE TerminateExpired(o) \/ TerminateCancelled(o)
    BY <2>1 DEF StoreInv, BaseInv, TypeOK, TerminateExpired, TerminateCancelled, MayFinalize,
       Finalize, FinalStays, FillsAuthorized
  <2>2. CASE CreateObligation(o) \/ BlockObligationData(o) \/ MarkObligationReady(o)
    <3>1. orders' = orders
      BY <2>2 DEF CreateObligation, BlockObligationData, MarkObligationReady
    <3>2. \A q \in OrderId \ {o} : obligations'[q] = obligations[q]
      BY <2>2 DEF StoreInv, BaseInv, TypeOK, CreateObligation, BlockObligationData,
         MarkObligationReady
    <3>3. orders[o] \in {None, "PENDING"}
      BY <2>2, ConstantsAssumption
         DEF StoreInv, OrdersAgree, TerminalPairs, LegalPairs, CreateObligation,
             BlockObligationData, MarkObligationReady, Terminal
    <3> QED BY <3>1, <3>2, <3>3 DEF FinalStays, FillsAuthorized
  <2> QED BY <1>3, <2>1, <2>2 DEF OrderStep
<1>4. ASSUME NEW w \in Workers, Crash(w) PROVE UNCHANGED <<orders, obligations>>
  BY <1>4 DEF Crash
<1> QED BY <1>1, <1>2, <1>3, <1>4 DEF Next, vars

\* No step after a finalization changes an order or its obligation, and only a process
\* with a validated authority fills or rejects, for any number of each.
THEOREM FinalFills == Spec => FillsAreFinal
<1>1. Init => StoreInv
  BY InitBase, InitOrdersAgree DEF StoreInv
<1>2. StoreInv /\ [Next]_vars => StoreInv'
  BY NextBase, NextAgrees DEF StoreInv
<1>3. StoreInv /\ [Next]_vars => [FinalStays]_vars /\ [FillsAuthorized]_vars
  BY NextIsFinal
<1>4. Spec => [][FinalStays]_vars /\ [][FillsAuthorized]_vars
  BY <1>1, <1>2, <1>3, PTL DEF Spec
<1> QED BY <1>4 DEF FillsAreFinal, FinalizedForever, AuthorityForFills, FinalStays, FillsAuthorized

-----------------------------------------------------------------------------
(* The risk rows explain the orders *)

OneVector(r) == \A d, e \in DecisionsOf[r] : d = e

\* Where a run has one decision vector d: its rows are d's, those a process has
\* been through are written, and an order set is that of a complete d.
RiskInv ==
  \A r \in Runs : OneVector(r) =>
    /\ orderSets[r] # None => DecisionsOf[r] # {}
    /\ \A d \in DecisionsOf[r] :
         /\ \A w \in Workers : worker[w].pc \in {"risk", "orders"} /\ worker[w].run = r =>
              /\ worker[w].pc = "orders" => worker[w].todo = {}
              /\ \A s \in Symbols \ worker[w].todo : riskRows[r][s] = d[s]
         /\ orderSets[r] # None =>
              /\ orderSets[r] = OrdersOf(r, d)
              /\ \A s \in Symbols : riskRows[r][s] = d[s]

\* A step that leaves the rows and the order sets alone and begins at most one call
LEMMA RiskQuiet ==
  ASSUME BaseInv, RiskInv, UNCHANGED <<riskRows, orderSets>>,
         \A v \in Workers : \/ worker'[v] = worker[v]
                            \/ worker'[v].pc \notin {"risk", "orders"}
                            \/ worker'[v].pc = "risk" /\ worker'[v].todo = Symbols
  PROVE  RiskInv'
BY DEF RiskInv, OneVector, BaseInv, TypeOK

LEMMA PersistRiskRowExplains ==
  ASSUME BaseInv, RiskInv, NEW w \in Workers, NEW s \in Symbols, PersistRiskRow(w, s)
  PROVE  RiskInv'
<1> DEFINE q == worker[w].run
           c == worker[w].decision
<1>1. q \in Runs /\ c \in DecisionsOf[q]
  BY DEF BaseInv, LocalsInv, LocalsAgree, PersistRiskRow
<1>2. /\ worker \in [Workers -> WorkerState]
      /\ riskRows \in [Runs -> [Symbols -> Targets \cup {Rejected, None}]]
  BY DEF BaseInv, TypeOK
<1>3. \A r \in Runs, x \in Symbols :
        riskRows'[r][x] = IF r = q /\ x = s THEN c[s] ELSE riskRows[r][x]
  BY <1>1, <1>2 DEF PersistRiskRow
<1>4. \A v \in Workers \ {w} : worker'[v] = worker[v]
  BY <1>2 DEF PersistRiskRow
<1>5. /\ worker'[w].run = q
      /\ worker'[w].todo = worker[w].todo \ {s}
      /\ worker'[w].pc = "orders" => worker'[w].todo = {}
  BY <1>2 DEF PersistRiskRow, WorkerState
<1>6. orderSets' = orderSets
  BY DEF PersistRiskRow
<1> SUFFICES ASSUME NEW r \in Runs, OneVector(r), NEW d \in DecisionsOf[r]
             PROVE  /\ \A v \in Workers :
                         worker'[v].pc \in {"risk", "orders"} /\ worker'[v].run = r =>
                           /\ worker'[v].pc = "orders" => worker'[v].todo = {}
                           /\ \A x \in Symbols \ worker'[v].todo : riskRows'[r][x] = d[x]
                    /\ orderSets[r] # None => \A x \in Symbols : riskRows'[r][x] = d[x]
  BY <1>6 DEF RiskInv, OneVector
<1>7. \A x \in Symbols : riskRows[r][x] = d[x] => riskRows'[r][x] = d[x]
  BY <1>1, <1>3 DEF OneVector
<1>8. r = q => riskRows'[r][s] = d[s]
  BY <1>1, <1>3 DEF OneVector
<1>9. ASSUME NEW v \in Workers, worker'[v].pc \in {"risk", "orders"}, worker'[v].run = r
      PROVE  /\ worker'[v].pc = "orders" => worker'[v].todo = {}
             /\ \A x \in Symbols \ worker'[v].todo : riskRows'[r][x] = d[x]
  <2>1. CASE v = w
    <3>1. \A x \in Symbols \ worker[w].todo : riskRows[r][x] = d[x]
      BY <1>5, <1>9, <2>1 DEF RiskInv, PersistRiskRow
    <3> QED BY <1>5, <1>7, <1>8, <1>9, <2>1, <3>1
  <2>2. CASE v # w
    BY <1>4, <1>7, <1>9, <2>2 DEF RiskInv
  <2> QED BY <2>1, <2>2
<1>10. orderSets[r] # None => \A x \in Symbols : riskRows'[r][x] = d[x]
  BY <1>7 DEF RiskInv
<1> QED BY <1>9, <1>10

LEMMA PersistOrdersExplains ==
  ASSUME BaseInv, RiskInv, NEW w \in Workers, PersistOrders(w)
  PROVE  RiskInv'
<1> DEFINE q == worker[w].run
           c == worker[w].decision
<1>1. q \in Runs /\ c \in DecisionsOf[q]
  BY DEF BaseInv, LocalsInv, LocalsAgree, PersistOrders
<1>2. /\ worker \in [Workers -> WorkerState]
      /\ orderSets \in [Runs -> {None} \cup SUBSET OrderId]
  BY DEF BaseInv, TypeOK
<1>3. \A v \in Workers : worker'[v] = worker[v] \/ worker'[v].pc = "idle"
  BY <1>2 DEF PersistOrders, Idle
<1>4. riskRows' = riskRows
  BY DEF PersistOrders
<1>5. CASE orderSets' = orderSets
  BY <1>3, <1>4, <1>5, RiskQuiet
<1>6. CASE orderSets' = [orderSets EXCEPT ![q] = OrdersOf(q, c)]
  <2>1. \A r \in Runs : orderSets'[r] = IF r = q THEN OrdersOf(q, c) ELSE orderSets[r]
    BY <1>2, <1>6
  <2>2. OneVector(q) => \A s \in Symbols : riskRows[q][s] = c[s]
    BY <1>1 DEF RiskInv, PersistOrders
  <2>3. ASSUME NEW r \in Runs, OneVector(r), NEW d \in DecisionsOf[r], orderSets'[r] # None
        PROVE  orderSets'[r] = OrdersOf(r, d) /\ \A s \in Symbols : riskRows[r][s] = d[s]
    <3>1. CASE r = q
      <4>1. c = d
        BY <1>1, <2>3, <3>1 DEF OneVector
      <4> QED BY <2>1, <2>2, <2>3, <3>1, <4>1
    <3>2. CASE r # q
      BY <2>1, <2>3, <3>2 DEF RiskInv
    <3> QED BY <3>1, <3>2
  <2>4. \A r \in Runs : OneVector(r) /\ orderSets'[r] # None => DecisionsOf[r] # {}
    BY <1>1, <2>1 DEF RiskInv
  <2>5. \A r \in Runs : OneVector(r) => \A d \in DecisionsOf[r], v \in Workers :
          worker'[v].pc \in {"risk", "orders"} /\ worker'[v].run = r =>
            /\ worker'[v].pc = "orders" => worker'[v].todo = {}
            /\ \A s \in Symbols \ worker'[v].todo : riskRows[r][s] = d[s]
    BY <1>3 DEF RiskInv
  <2> QED BY <1>4, <2>3, <2>4, <2>5 DEF RiskInv, OneVector
<1> QED BY <1>5, <1>6 DEF PersistOrders

LEMMA NextExplains == BaseInv /\ RiskInv /\ [Next]_vars => RiskInv'
<1> SUFFICES ASSUME BaseInv, RiskInv, [Next]_vars PROVE RiskInv'
  OBVIOUS
<1>0. worker \in [Workers -> WorkerState]
  BY DEF BaseInv, TypeOK
<1>1. CASE UNCHANGED vars
  BY <1>1, RiskQuiet DEF vars
<1>2. ASSUME NEW w \in Workers, WorkerStep(w) PROVE RiskInv'
  <2>1. ASSUME NEW r \in Runs, NEW d \in DecisionsOf[r], BeginPersist(w, r, d) PROVE RiskInv'
    <3>1. \A v \in Workers :
            \/ worker'[v] = worker[v]
            \/ (worker'[v].pc = "risk" /\ worker'[v].todo = Symbols)
      BY <1>0, <2>1 DEF BeginPersist, Idle
    <3> QED BY <2>1, <3>1, RiskQuiet DEF BeginPersist
  <2>2. ASSUME NEW s \in Symbols, PersistRiskRow(w, s) PROVE RiskInv'
    BY <2>2, PersistRiskRowExplains
  <2>3. CASE PersistOrders(w)
    BY <2>3, PersistOrdersExplains
  <2>4. ASSUME NEW o \in OrderId, Execute(w, o) PROVE RiskInv'
    <3>1. \A v \in Workers : worker'[v] = worker[v] \/ worker'[v].pc \in {"executor", "idle"}
      BY <1>0, <2>4 DEF Execute, Return, Idle
    <3> QED BY <2>4, <3>1, RiskQuiet DEF Execute
  <2>5. CASE RunExecutor(w)
    <3>1. \A v \in Workers : worker'[v] = worker[v] \/ worker'[v].pc \in {"fill", "reject"}
      BY <1>0, <2>5 DEF RunExecutor, WorkerState
    <3> QED BY <2>5, <3>1, RiskQuiet DEF RunExecutor
  <2>6. CASE FinalizeFill(w) \/ FinalizeRejection(w)
    <3>1. \A v \in Workers : worker'[v] = worker[v] \/ worker'[v].pc = "idle"
      BY <1>0, <2>6 DEF FinalizeFill, FinalizeRejection, Return, Idle
    <3> QED BY <2>6, <3>1, RiskQuiet DEF FinalizeFill, FinalizeRejection
  <2> QED BY <1>2, <2>1, <2>2, <2>3, <2>4, <2>5, <2>6 DEF WorkerStep
<1>3. ASSUME NEW w \in Workers, Crash(w) PROVE RiskInv'
  <2>1. \A v \in Workers : worker'[v] = worker[v] \/ worker'[v].pc = "idle"
    BY <1>0, <1>3 DEF Crash, Idle
  <2> QED BY <1>3, <2>1, RiskQuiet DEF Crash
<1>4. ASSUME NEW o \in OrderId, OrderStep(o) PROVE RiskInv'
  BY <1>4, RiskQuiet DEF OrderStep, CreateObligation, BlockObligationData, MarkObligationReady,
     TerminateExpired, TerminateCancelled
<1> QED BY <1>1, <1>2, <1>3, <1>4 DEF Next

\* Where every attempt of a run presents the same decisions, its stored rows justify its
\* orders, whatever attempts interleave or die in between.
THEOREM RowsExplainOrders == Spec => []RiskExplainsOrders
<1>1. Init => BaseInv /\ RiskInv
  BY InitBase DEF Init, RiskInv, Idle
<1>2. BaseInv /\ RiskInv /\ [Next]_vars => (BaseInv /\ RiskInv)'
  BY NextBase, NextExplains
<1>3. BaseInv /\ RiskInv => RiskExplainsOrders
  <2> SUFFICES ASSUME RiskInv, NEW r \in Runs, orderSets[r] # None, OneVector(r)
               PROVE  /\ \A s \in Symbols : riskRows[r][s] # None
                      /\ orderSets[r] = OrdersOf(r, riskRows[r])
    BY DEF RiskExplainsOrders, OneVector
  <2>1. PICK d \in DecisionsOf[r] : TRUE
    BY DEF RiskInv
  <2>2. orderSets[r] = OrdersOf(r, d) /\ \A s \in Symbols : riskRows[r][s] = d[s]
    BY DEF RiskInv
  <2>3. \A s \in Symbols : d[s] \in Targets \cup {Rejected}
    BY ConstantsAssumption DEF Decisions
  <2>4. OrdersOf(r, d) = OrdersOf(r, riskRows[r])
    BY <2>2 DEF OrdersOf
  <2> QED BY <2>2, <2>3, <2>4, ConstantsAssumption
<1> QED BY <1>1, <1>2, <1>3, PTL DEF Spec
=============================================================================
