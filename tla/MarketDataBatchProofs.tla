----------------------- MODULE MarketDataBatchProofs -----------------------
(***************************************************************************)
(* Proofs about MarketDataBatch, for any finite number of processes, any   *)
(* number of symbols, days and any budgets.                                *)
(*                                                                         *)
(* LocalsInv says what a refresh in the middle of a symbol knows; PaidInv  *)
(* counts the processes that have paid and not yet called; FreshInv is     *)
(* about the process lock: what a refresh is about to request has no       *)
(* success on record.                                                      *)
(***************************************************************************)
EXTENDS MarketDataBatch, WellFoundedInduction, FiniteSetTheorems, TLAPS

Done == {"SUCCESS", "ALREADY_COMPLETED"}

\* What a refresh in state s knows: its day has one of the budget rows, its symbol
\* is in none of its lists, and what it holds for a success is stored.
LocalsAgree(s, rows, stored) ==
  /\ s.pc # "idle" => s.day \in Days /\ s.symbol \in Symbols /\ rows[s.day] # None
  /\ s.pc \in {"open", "record"} => s.status # None
  /\ s.pc \in {"open", "record"} /\ s.status = "SUCCESS" => s.symbol \in stored
  /\ s.symbol \notin s.todo \cup s.retryable
  /\ s.todo \cap s.retryable = {}
  /\ \A x \in Symbols : s.results[x] \in Done => x \in stored

LocalsInv == \A w \in Workers : LocalsAgree(worker[w], budgets, ingested)

CompletedInv == \A s \in Symbols : HasCompleted(s) => s \in ingested

IInv == TypeOK /\ LocalsInv /\ CompletedInv

-----------------------------------------------------------------------------
(* Types and locals *)

LEMMA LeastIsIn ==
  ASSUME NEW S \in SUBSET Symbols, S # {}
  PROVE  Least(S) \in S
<1>1. S \in SUBSET Nat
  BY BoundsAssumption DEF Symbols
<1> DEFINE less == {ss \in Nat \X Nat : ss[1] < ss[2]}
<1>2. IsWellFoundedOn(less, Nat)
  BY NatLessThanWellFounded DEF OpToRel
<1>3. \E n \in S : \A m \in S : <<m, n>> \notin less
  <2> HIDE DEF less
  <2> QED BY <1>1, <1>2, WFMin
<1>4. PICK n \in S : \A m \in S : <<m, n>> \notin less
  BY <1>3
<1>5. \A m \in S : ~(m < n)
  <2> SUFFICES ASSUME NEW m \in S, m < n PROVE FALSE
    OBVIOUS
  <2>1. <<m, n>> \in less
    BY <1>1
  <2> QED BY <1>4, <2>1
<1>6. \A m \in S : n <= m
  BY <1>1, <1>5
<1> QED BY <1>6 DEF Least

LEMMA IdleFits ==
  Idle \in WorkerState /\ \A rows, stored : LocalsAgree(Idle, rows, stored)
BY NoneAssumption DEF Idle, WorkerState, PCs, Kinds, LocalsAgree, Done, SymbolFetchStatus,
   FetchStatus

\* A refresh that turns to its next symbol is at its circuit, or it is done.
LEMMA NextSymbolShape ==
  ASSUME NEW me \in WorkerState, me.todo \cap me.retryable = {}
  PROVE  LET next == NextSymbol(me)
         IN  /\ next \in WorkerState
             /\ next.results = me.results
             /\ next.symbol \notin next.todo \cup next.retryable
             /\ next.todo \cap next.retryable = {}
             /\ \/ next.pc = "idle"
                \/ /\ next.pc = "circuit"
                   /\ next.day = me.day
                   /\ next.symbol \in Symbols
                   /\ \/ /\ next.kind = me.kind
                         /\ next.retryable = me.retryable
                         /\ {next.symbol} \cup next.todo = me.todo
                      \/ /\ me.kind = "normal"
                         /\ next.kind = "recovery"
                         /\ next.retryable = {}
                         /\ {next.symbol} \cup next.todo = me.retryable
<1> DEFINE next == NextSymbol(me)
<1>1. CASE me.todo # {}
  <2>1. Least(me.todo) \in me.todo /\ Least(me.todo) \in Symbols
    BY <1>1, LeastIsIn DEF WorkerState
  <2>2. next = [me EXCEPT !.pc = "circuit", !.symbol = Least(me.todo),
                          !.todo = me.todo \ {Least(me.todo)}, !.status = None]
    BY <1>1 DEF NextSymbol
  <2>3. /\ next.pc = "circuit" /\ next.symbol = Least(me.todo) /\ next.kind = me.kind
        /\ next.todo = me.todo \ {Least(me.todo)} /\ next.retryable = me.retryable
        /\ next.day = me.day /\ next.results = me.results
    BY <2>2 DEF WorkerState
  <2>4. next \in WorkerState
    BY <2>1, <2>2 DEF WorkerState, PCs, Kinds
  <2> HIDE DEF next
  <2> QED BY <2>1, <2>3, <2>4 DEF next
<1>2. CASE me.todo = {} /\ me.kind = "normal" /\ me.retryable # {}
  <2>1. Least(me.retryable) \in me.retryable /\ Least(me.retryable) \in Symbols
    BY <1>2, LeastIsIn DEF WorkerState
  <2>2. next = [me EXCEPT !.pc = "circuit", !.kind = "recovery", !.symbol = Least(me.retryable),
                          !.todo = me.retryable \ {Least(me.retryable)}, !.retryable = {},
                          !.status = None]
    BY <1>2 DEF NextSymbol
  <2>3. /\ next.pc = "circuit" /\ next.symbol = Least(me.retryable) /\ next.kind = "recovery"
        /\ next.todo = me.retryable \ {Least(me.retryable)} /\ next.retryable = {}
        /\ next.day = me.day /\ next.results = me.results
    BY <2>2 DEF WorkerState
  <2>4. next \in WorkerState
    <3> DEFINE rest == me.retryable \ {Least(me.retryable)}
               first == Least(me.retryable)
    <3>1. rest \in SUBSET Symbols /\ first \in Symbols
      BY <2>1 DEF WorkerState
    <3>2. next = [me EXCEPT !.pc = "circuit", !.kind = "recovery", !.symbol = first,
                            !.todo = rest, !.retryable = {}, !.status = None]
      BY <2>2
    <3> HIDE DEF rest, first, next
    <3> QED BY <3>1, <3>2 DEF WorkerState, PCs, Kinds
  <2> HIDE DEF next
  <2> QED BY <1>2, <2>1, <2>3, <2>4 DEF next
<1>3. CASE me.todo = {} /\ ~(me.kind = "normal" /\ me.retryable # {})
  <2>1. next = [Idle EXCEPT !.results = me.results]
    BY <1>3 DEF NextSymbol
  <2> QED BY <2>1, IdleFits, NoneAssumption DEF WorkerState, Idle
<1> QED BY <1>1, <1>2, <1>3

LEMMA NextSymbolFits ==
  ASSUME NEW me \in WorkerState, NEW rows, NEW stored, me.todo \cap me.retryable = {},
         me.day \in Days, rows[me.day] # None,
         \A x \in Symbols : me.results[x] \in Done => x \in stored
  PROVE  NextSymbol(me) \in WorkerState /\ LocalsAgree(NextSymbol(me), rows, stored)
BY NextSymbolShape DEF LocalsAgree

LEMMA InitBase == Init => IInv
BY IdleFits, NoneAssumption DEF Init, IInv, TypeOK, LocalsInv, CompletedInv, HasCompleted, Kinds,
   SymbolFetchStatus, FetchStatus

\* A step of one process that leaves it in a state that fits
LEMMA Become ==
  ASSUME TypeOK, LocalsInv, NEW w \in Workers, NEW next \in WorkerState,
         worker' = [worker EXCEPT ![w] = next], LocalsAgree(next, budgets', ingested'),
         \A d \in Days : budgets[d] # None => budgets'[d] # None,
         ingested \subseteq ingested'
  PROVE  worker' \in [Workers -> WorkerState] /\ LocalsInv'
<1>1. worker \in [Workers -> WorkerState]
  BY DEF TypeOK
<1>2. \A v \in Workers : worker'[v] = IF v = w THEN next ELSE worker[v]
  BY <1>1
<1>3. \A v \in Workers : LocalsAgree(worker[v], budgets', ingested')
  BY DEF LocalsInv, LocalsAgree
<1>4. LocalsInv'
  BY <1>2, <1>3 DEF LocalsInv
<1> QED BY <1>1, <1>4

\* A symbol gets a result without a call.
LEMMA SkipFits ==
  ASSUME TypeOK, LocalsInv, NEW w \in Workers, NEW from, NEW status \in SymbolFetchStatus,
         Skip(w, from, status), from # "idle", UNCHANGED <<budgets, ingested>>,
         status \in Done => worker[w].symbol \in ingested
  PROVE  worker' \in [Workers -> WorkerState] /\ LocalsInv'
<1> DEFINE me == [worker[w] EXCEPT !.results[worker[w].symbol] = status]
<1>1. worker[w] \in WorkerState /\ LocalsAgree(worker[w], budgets, ingested)
      /\ worker[w].pc # "idle"
  BY DEF TypeOK, LocalsInv, Skip
<1>2. worker[w].day \in Days /\ worker[w].symbol \in Symbols /\ budgets[worker[w].day] # None
  BY <1>1 DEF LocalsAgree
<1>3. /\ me \in WorkerState
      /\ me.day = worker[w].day /\ me.todo = worker[w].todo
      /\ me.retryable = worker[w].retryable
      /\ \A x \in Symbols : me.results[x] = IF x = worker[w].symbol THEN status
                                             ELSE worker[w].results[x]
  BY <1>1, <1>2 DEF WorkerState
<1>4. \A x \in Symbols : me.results[x] \in Done => x \in ingested
  BY <1>1, <1>3 DEF LocalsAgree
<1>5. NextSymbol(me) \in WorkerState /\ LocalsAgree(NextSymbol(me), budgets, ingested)
  <2>1. me.todo \cap me.retryable = {}
    BY <1>1, <1>3 DEF LocalsAgree
  <2>2. me.day \in Days /\ budgets[me.day] # None
    BY <1>2, <1>3
  <2>3. me \in WorkerState
    BY <1>3
  <2> HIDE DEF me
  <2> QED BY <1>4, <2>1, <2>2, <2>3, NextSymbolFits
<1>6. worker' = [worker EXCEPT ![w] = NextSymbol(me)]
  BY DEF Skip
<1> HIDE DEF me
<1> QED BY <1>5, <1>6, Become

\* A process goes on, and its budget row and the store with it.
LEMMA GotoFits ==
  ASSUME TypeOK, LocalsInv, NEW w \in Workers, NEW from, NEW to \in PCs \ {"open", "record"},
         Goto(w, from, to), from # "idle",
         \A d \in Days : budgets[d] # None => budgets'[d] # None, ingested' = ingested
  PROVE  worker' \in [Workers -> WorkerState] /\ LocalsInv'
<1> DEFINE next == [worker[w] EXCEPT !.pc = to]
<1>1. worker[w] \in WorkerState /\ LocalsAgree(worker[w], budgets, ingested)
      /\ worker[w].pc # "idle"
  BY DEF TypeOK, LocalsInv, Goto
<1>2. next \in WorkerState /\ LocalsAgree(next, budgets', ingested')
  BY <1>1 DEF WorkerState, LocalsAgree
<1>3. worker' = [worker EXCEPT ![w] = next]
  BY DEF Goto, TypeOK
<1> QED BY <1>2, <1>3, Become

LEMMA BeginBase ==
  ASSUME IInv, NEW w \in Workers, NEW d \in Days, Begin(w, d)
  PROVE  IInv'
<1> DEFINE me == [Idle EXCEPT !.day = d, !.todo = Symbols]
<1>1. budgets' \in [Days -> Budget \cup {None}] /\ budgets'[d] # None
      /\ \A e \in Days : budgets[e] # None => budgets'[e] # None
  <2> DEFINE unspent == [normal |-> 0, recovery |-> 0, open |-> FALSE]
  <2>1. unspent \in Budget /\ unspent # None
    <3>1. unspent \in Budget
      BY BoundsAssumption DEF Budget
    <3> HIDE DEF unspent
    <3> QED BY <3>1, NoneAssumption
  <2>2. budgets' = IF budgets[d] = None THEN [budgets EXCEPT ![d] = unspent] ELSE budgets
    BY DEF Begin, EnsureBudget
  <2>3. budgets \in [Days -> Budget \cup {None}]
    BY DEF IInv, TypeOK
  <2> HIDE DEF unspent
  <2>4. \A e \in Days : budgets'[e] = IF e = d /\ budgets[d] = None THEN unspent ELSE budgets[e]
    BY <2>2, <2>3
  <2>5. budgets' \in [Days -> Budget \cup {None}]
    BY <2>1, <2>2, <2>3
  <2> QED BY <2>1, <2>4, <2>5
<1>2. me \in WorkerState /\ me.day = d /\ me.todo = Symbols /\ me.retryable = {}
      /\ \A x \in Symbols : me.results[x] = None
  BY IdleFits DEF WorkerState, Idle
<1>3. NextSymbol(me) \in WorkerState /\ LocalsAgree(NextSymbol(me), budgets', ingested')
  <2>1. \A x \in Symbols : me.results[x] \notin Done
    BY <1>2, NoneAssumption DEF Done, SymbolFetchStatus, FetchStatus
  <2> HIDE DEF me
  <2> QED BY <1>1, <1>2, <2>1, NextSymbolFits
<1>4. worker' = [worker EXCEPT ![w] = NextSymbol(me)]
  BY DEF Begin
<1>5. worker' \in [Workers -> WorkerState] /\ LocalsInv'
  <2> HIDE DEF me
  <2> QED BY <1>1, <1>3, <1>4, Become DEF IInv, Begin
<1> QED BY <1>1, <1>5 DEF IInv, TypeOK, CompletedInv, HasCompleted, Begin

LEMMA CheckCircuitBase ==
  ASSUME IInv, NEW w \in Workers, CheckCircuit(w)
  PROVE  IInv'
<1>1. worker' \in [Workers -> WorkerState] /\ LocalsInv'
  <2>1. CASE Skip(w, "circuit", "CIRCUIT_OPEN")
    BY <2>1, SkipFits DEF IInv, CheckCircuit, SymbolFetchStatus, Done
  <2>2. CASE Goto(w, "circuit", "completed") \/ Goto(w, "circuit", "claim")
    BY <2>2, GotoFits DEF IInv, CheckCircuit, PCs
  <2> QED BY <2>1, <2>2 DEF CheckCircuit
<1> QED BY <1>1 DEF IInv, TypeOK, CompletedInv, HasCompleted, CheckCircuit

LEMMA CheckCompletedBase ==
  ASSUME IInv, NEW w \in Workers, CheckCompleted(w)
  PROVE  IInv'
<1>1. worker' \in [Workers -> WorkerState] /\ LocalsInv'
  <2>1. CASE HasCompleted(worker[w].symbol) /\ Skip(w, "completed", "ALREADY_COMPLETED")
    <3>1. worker[w].symbol \in Symbols
      BY DEF IInv, LocalsInv, LocalsAgree, CheckCompleted
    <3>2. worker[w].symbol \in ingested
      BY <2>1, <3>1 DEF IInv, CompletedInv
    <3> QED BY <2>1, <3>2, SkipFits DEF IInv, CheckCompleted, SymbolFetchStatus
  <2>2. CASE Goto(w, "completed", "claim")
    BY <2>2, GotoFits DEF IInv, CheckCompleted, PCs
  <2> QED BY <2>1, <2>2 DEF CheckCompleted
<1> QED BY <1>1 DEF IInv, TypeOK, CompletedInv, HasCompleted, CheckCompleted

\* A claim that is granted spends one call of the kind's budget and nothing else.
LEMMA ClaimShape ==
  ASSUME IInv, NEW w \in Workers, ClaimBudget(w),
         MayClaim(worker[w].day, worker[w].kind)
  PROVE  LET d == worker[w].day
             kind == worker[w].kind
         IN  /\ d \in Days /\ kind \in Kinds /\ budgets[d] # None
             /\ budgets' \in [Days -> Budget \cup {None}]
             /\ \A e \in Days : e # d => budgets'[e] = budgets[e]
             /\ budgets'[d] # None
             /\ budgets'[d].open = budgets[d].open
             /\ \A k \in Kinds : budgets'[d][k] = budgets[d][k] + (IF k = kind THEN 1 ELSE 0)
<1> DEFINE d == worker[w].day
           kind == worker[w].kind
           row == budgets[d]
           new == [row EXCEPT ![kind] = row[kind] + 1]
<1>1. d \in Days /\ kind \in Kinds /\ row # None
  BY DEF IInv, TypeOK, LocalsInv, LocalsAgree, ClaimBudget, WorkerState
<1>2. row \in Budget /\ budgets \in [Days -> Budget \cup {None}]
  BY <1>1 DEF IInv, TypeOK
<1>3. budgets' = [budgets EXCEPT ![d] = new]
  BY DEF ClaimBudget
<1>4. /\ new \in Budget /\ new.open = row.open
      /\ \A k \in Kinds : new[k] = row[k] + (IF k = kind THEN 1 ELSE 0)
  <2>1. CASE kind = "normal"
    BY <1>2, <2>1, BoundsAssumption DEF Budget, Kinds, MayClaim, Limit
  <2>2. CASE kind = "recovery"
    BY <1>2, <2>2, BoundsAssumption DEF Budget, Kinds, MayClaim, Limit
  <2> QED BY <1>1, <2>1, <2>2 DEF Kinds
<1>5. new # None
  BY <1>4, NoneAssumption
<1> HIDE DEF new
<1> QED BY <1>1, <1>2, <1>3, <1>4, <1>5

LEMMA ClaimBudgetBase ==
  ASSUME IInv, NEW w \in Workers, ClaimBudget(w)
  PROVE  IInv'
<1>1. CASE MayClaim(worker[w].day, worker[w].kind)
  <2>1. Goto(w, "claim", "call") /\ UNCHANGED <<attempts, ingested, locked, calls>>
    BY <1>1 DEF ClaimBudget
  <2>2. budgets' \in [Days -> Budget \cup {None}]
        /\ \A d \in Days : budgets[d] # None => budgets'[d] # None
    BY <1>1, ClaimShape
  <2>3. worker' \in [Workers -> WorkerState] /\ LocalsInv'
    BY <2>1, <2>2, GotoFits DEF IInv, PCs
  <2> QED BY <2>1, <2>2, <2>3 DEF IInv, TypeOK, CompletedInv, HasCompleted
<1>2. CASE ~MayClaim(worker[w].day, worker[w].kind)
  <2>1. Skip(w, "claim", "CIRCUIT_OPEN") \/ Skip(w, "claim", "BUDGET_EXHAUSTED")
    BY <1>2 DEF ClaimBudget
  <2>2. UNCHANGED <<locked, budgets, attempts, ingested, calls>>
    BY <1>2 DEF ClaimBudget
  <2>3. worker' \in [Workers -> WorkerState] /\ LocalsInv'
    BY <2>1, <2>2, SkipFits DEF IInv, SymbolFetchStatus, Done
  <2> QED BY <2>2, <2>3 DEF IInv, TypeOK, CompletedInv, HasCompleted
<1> QED BY <1>1, <1>2

\* A call is counted on the account of its day and kind.
LEMMA CallShape ==
  ASSUME IInv, NEW w \in Workers, CallProvider(w)
  PROVE  /\ worker[w].day \in Days /\ worker[w].kind \in Kinds
         /\ calls' \in [Days -> [Kinds -> Nat]]
         /\ \A d \in Days, k \in Kinds :
              calls'[d][k] = calls[d][k] +
                (IF d = worker[w].day /\ k = worker[w].kind THEN 1 ELSE 0)
<1>1. worker[w].day \in Days /\ worker[w].kind \in Kinds
  BY DEF IInv, TypeOK, LocalsInv, LocalsAgree, CallProvider, Goto, WorkerState
<1>2. calls \in [Days -> [Kinds -> Nat]]
  BY DEF IInv, TypeOK
<1> QED BY <1>1, <1>2 DEF CallProvider

LEMMA CallProviderBase ==
  ASSUME IInv, NEW w \in Workers, CallProvider(w)
  PROVE  IInv'
<1>1. worker' \in [Workers -> WorkerState] /\ LocalsInv'
  BY GotoFits DEF IInv, CallProvider, PCs
<1> QED BY <1>1, CallShape DEF IInv, TypeOK, CompletedInv, HasCompleted, CallProvider

LEMMA IngestBase ==
  ASSUME IInv, NEW w \in Workers, NEW status \in FetchStatus, Ingest(w, status)
  PROVE  IInv'
<1> DEFINE next == [worker[w] EXCEPT
                      !.status = status,
                      !.pc = IF status = "THROTTLED" THEN "open" ELSE "record"]
<1>1. worker[w] \in WorkerState /\ LocalsAgree(worker[w], budgets, ingested)
      /\ worker[w].pc = "ingest"
  BY DEF IInv, TypeOK, LocalsInv, Ingest
<1>2. /\ worker[w].symbol \in Symbols
      /\ ingested' \subseteq Symbols /\ ingested \subseteq ingested'
      /\ status = "SUCCESS" => worker[w].symbol \in ingested'
  BY <1>1 DEF IInv, TypeOK, LocalsAgree, Ingest
<1>3. status # None
  BY NoneAssumption DEF SymbolFetchStatus
<1>4. next \in WorkerState /\ LocalsAgree(next, budgets', ingested')
  BY <1>1, <1>2, <1>3 DEF WorkerState, PCs, LocalsAgree, Ingest
<1>5. worker' = [worker EXCEPT ![w] = next]
  BY DEF Ingest
<1>6. worker' \in [Workers -> WorkerState] /\ LocalsInv'
  <2> HIDE DEF next
  <2> QED BY <1>2, <1>4, <1>5, Become DEF IInv, Ingest
<1> QED BY <1>2, <1>6 DEF IInv, TypeOK, CompletedInv, HasCompleted, Ingest

\* An opened circuit is all that changes of a day's row.
LEMMA OpenShape ==
  ASSUME IInv, NEW w \in Workers, OpenCircuit(w)
  PROVE  /\ budgets' \in [Days -> Budget \cup {None}]
         /\ \A d \in Days :
              /\ (budgets'[d] = None) = (budgets[d] = None)
              /\ budgets[d] # None /\ budgets[d].open => budgets'[d] = budgets[d]
              /\ budgets[d] # None => \A k \in Kinds : budgets'[d][k] = budgets[d][k]
<1> DEFINE d == worker[w].day
           new == [budgets[d] EXCEPT !.open = TRUE]
<1>1. d \in Days /\ budgets[d] # None
  BY DEF IInv, LocalsInv, LocalsAgree, OpenCircuit, Goto
<1>2. budgets[d] \in Budget /\ budgets \in [Days -> Budget \cup {None}]
  BY <1>1 DEF IInv, TypeOK
<1>3. budgets' = [budgets EXCEPT ![d] = new]
  BY DEF OpenCircuit
<1>4. /\ new \in Budget
      /\ \A k \in Kinds : new[k] = budgets[d][k]
      /\ budgets[d].open => new = budgets[d]
  BY <1>2 DEF Budget, Kinds
<1>5. new # None
  BY <1>4, NoneAssumption
<1> HIDE DEF new
<1> QED BY <1>1, <1>2, <1>3, <1>4, <1>5

LEMMA OpenCircuitBase ==
  ASSUME IInv, NEW w \in Workers, OpenCircuit(w)
  PROVE  IInv'
<1> DEFINE next == [worker[w] EXCEPT !.pc = "record"]
<1>0. ingested' = ingested /\ \A d \in Days : budgets[d] # None => budgets'[d] # None
  BY OpenShape DEF OpenCircuit
<1>1. worker[w] \in WorkerState /\ LocalsAgree(worker[w], budgets, ingested)
      /\ worker[w].pc = "open"
  BY DEF IInv, TypeOK, LocalsInv, OpenCircuit, Goto
<1>2. next \in WorkerState /\ LocalsAgree(next, budgets', ingested')
  <2>1. next \in WorkerState /\ LocalsAgree(next, budgets, ingested)
    BY <1>1 DEF WorkerState, PCs, LocalsAgree
  <2> HIDE DEF next
  <2> QED BY <1>0, <2>1 DEF LocalsAgree
<1>3. worker' = [worker EXCEPT ![w] = next]
  BY DEF OpenCircuit, Goto
<1>4. worker' \in [Workers -> WorkerState] /\ LocalsInv'
  <2> HIDE DEF next
  <2> QED BY <1>0, <1>2, <1>3, Become DEF IInv
<1> QED BY <1>4, OpenShape DEF IInv, TypeOK, CompletedInv, HasCompleted, OpenCircuit

\* What a refresh takes with it from a symbol it has recorded
Recorded(s) ==
  [s EXCEPT !.results[s.symbol] = s.status,
            !.retryable = IF s.kind = "normal" /\ s.status = "RETRYABLE_FAILURE"
                          THEN s.retryable \cup {s.symbol} ELSE s.retryable]

LEMMA RecordShape ==
  ASSUME IInv, NEW w \in Workers, RecordAttempt(w)
  PROVE  LET me == worker[w]
         IN  /\ me \in WorkerState /\ LocalsAgree(me, budgets, ingested) /\ me.pc = "record"
             /\ me.symbol \in Symbols /\ me.kind \in Kinds /\ me.status \in FetchStatus
             /\ worker' = [worker EXCEPT ![w] = NextSymbol(Recorded(me))]
             /\ Recorded(me) \in WorkerState
             /\ Recorded(me).day = me.day /\ Recorded(me).todo = me.todo
             /\ Recorded(me).kind = me.kind
             /\ Recorded(me).retryable = IF me.kind = "normal" /\ me.status = "RETRYABLE_FAILURE"
                                         THEN me.retryable \cup {me.symbol} ELSE me.retryable
             /\ \A x \in Symbols : Recorded(me).results[x] = IF x = me.symbol THEN me.status
                                                           ELSE me.results[x]
             /\ attempts' \in [Symbols -> [Kinds -> FetchStatus \cup {None}]]
             /\ \A x \in Symbols, k \in Kinds :
                  attempts'[x][k] = IF x = me.symbol /\ k = me.kind THEN me.status
                                    ELSE attempts[x][k]
<1> DEFINE me == worker[w]
<1>1. me \in WorkerState /\ LocalsAgree(me, budgets, ingested) /\ me.pc = "record"
  BY DEF IInv, TypeOK, LocalsInv, RecordAttempt
<1>2. me.symbol \in Symbols /\ me.kind \in Kinds /\ me.status \in FetchStatus
  BY <1>1 DEF LocalsAgree, WorkerState
<1>3. worker' = [worker EXCEPT ![w] = NextSymbol(Recorded(me))]
  BY DEF RecordAttempt, Recorded
<1>4. /\ Recorded(me) \in WorkerState
      /\ Recorded(me).day = me.day /\ Recorded(me).todo = me.todo
      /\ Recorded(me).kind = me.kind
      /\ Recorded(me).retryable = IF me.kind = "normal" /\ me.status = "RETRYABLE_FAILURE"
                                  THEN me.retryable \cup {me.symbol} ELSE me.retryable
      /\ \A x \in Symbols : Recorded(me).results[x] = IF x = me.symbol THEN me.status
                                                    ELSE me.results[x]
  BY <1>1, <1>2 DEF WorkerState, Recorded, SymbolFetchStatus
<1>5. /\ attempts' \in [Symbols -> [Kinds -> FetchStatus \cup {None}]]
      /\ \A x \in Symbols, k \in Kinds :
           attempts'[x][k] = IF x = me.symbol /\ k = me.kind THEN me.status ELSE attempts[x][k]
  BY <1>2 DEF IInv, TypeOK, RecordAttempt
<1> QED BY <1>1, <1>2, <1>3, <1>4, <1>5

LEMMA RecordAttemptBase ==
  ASSUME IInv, NEW w \in Workers, RecordAttempt(w)
  PROVE  IInv'
<1> DEFINE me == worker[w]
           after == Recorded(me)
<1>1. UNCHANGED <<locked, budgets, ingested, calls>>
  BY DEF RecordAttempt
<1>2. me.status = "SUCCESS" => me.symbol \in ingested
  BY RecordShape DEF LocalsAgree
<1>3. NextSymbol(after) \in WorkerState /\ LocalsAgree(NextSymbol(after), budgets, ingested)
  <2>1. after \in WorkerState /\ after.day \in Days /\ budgets[after.day] # None
    BY RecordShape DEF LocalsAgree
  <2>2. after.todo \cap after.retryable = {}
    <3>1. me.todo \cap me.retryable = {} /\ me.symbol \notin me.todo
      BY RecordShape DEF LocalsAgree
    <3>2. after.todo = me.todo /\ after.retryable \subseteq me.retryable \cup {me.symbol}
      BY RecordShape
    <3> QED BY <3>1, <3>2
  <2>3. \A x \in Symbols : after.results[x] \in Done => x \in ingested
    BY <1>2, RecordShape DEF LocalsAgree, Done, FetchStatus
  <2> HIDE DEF after
  <2> QED BY <2>1, <2>2, <2>3, NextSymbolFits
<1>4. worker' \in [Workers -> WorkerState] /\ LocalsInv'
  <2>1. worker' = [worker EXCEPT ![w] = NextSymbol(after)]
    BY RecordShape
  <2> HIDE DEF after
  <2> QED BY <1>1, <1>3, <2>1, Become DEF IInv
<1>5. CompletedInv'
  <2>1. ASSUME NEW x \in Symbols, NEW k \in Kinds, attempts'[x][k] = "SUCCESS"
        PROVE  x \in ingested
    <3>1. attempts[x][k] = "SUCCESS" \/ (x = me.symbol /\ me.status = "SUCCESS")
      BY <2>1, RecordShape
    <3> QED BY <1>2, <3>1 DEF IInv, CompletedInv, HasCompleted
  <2> QED BY <1>1, <2>1 DEF CompletedInv, HasCompleted
<1> QED BY <1>1, <1>4, <1>5, RecordShape DEF IInv, TypeOK

LEMMA CrashBase ==
  ASSUME IInv, NEW w \in Workers, Crash(w)
  PROVE  IInv'
<1>1. worker' = [worker EXCEPT ![w] = Idle] /\ UNCHANGED <<locked, budgets, attempts, ingested, calls>>
  BY DEF Crash
<1>2. worker' \in [Workers -> WorkerState] /\ LocalsInv'
  BY <1>1, IdleFits, Become DEF IInv
<1> QED BY <1>1, <1>2 DEF IInv, TypeOK, CompletedInv, HasCompleted

LEMMA NextBase == IInv /\ [Next]_vars => IInv'
<1> SUFFICES ASSUME IInv, [Next]_vars PROVE IInv'
  OBVIOUS
<1>1. CASE UNCHANGED vars
  BY <1>1 DEF IInv, TypeOK, LocalsInv, CompletedInv, HasCompleted, vars
<1>2. CASE Next
  BY <1>2, BeginBase, CheckCircuitBase, CheckCompletedBase, ClaimBudgetBase, CallProviderBase,
     IngestBase, OpenCircuitBase, RecordAttemptBase, CrashBase DEF Next
<1> QED BY <1>1, <1>2

THEOREM BaseCorrect == Spec => []IInv
BY InitBase, NextBase, PTL DEF Spec

\* Every table and every refresh keeps its type: no budget is overdrawn and no
\* refresh turns to a symbol that is none.
THEOREM TypeCorrect == Spec => []TypeOK
<1>1. IInv => TypeOK
  BY DEF IInv
<1> QED BY <1>1, BaseCorrect, PTL

\* A success that is on record or was reported is in the point-in-time store,
\* whatever processes race, die or are throttled.
THEOREM SuccessesAreStored == Spec => []SuccessIsIngested
<1>1. IInv => SuccessIsIngested
  BY DEF IInv, LocalsInv, LocalsAgree, CompletedInv, SuccessIsIngested, Done
<1> QED BY <1>1, BaseCorrect, PTL

-----------------------------------------------------------------------------
(* Calls are paid for *)

\* The processes that have paid for a call and not made it
Callers(d, kind) ==
  {w \in Workers : worker[w].pc = "call" /\ worker[w].day = d /\ worker[w].kind = kind}

PaidInv ==
  \A d \in Days, kind \in Kinds :
    calls[d][kind] + Cardinality(Callers(d, kind)) <= Spent(d, kind)

\* The steps that neither claim nor call
QuietStep(w) ==
  \/ \E d \in Days : Begin(w, d)
  \/ CheckCircuit(w) \/ CheckCompleted(w)
  \/ ClaimBudget(w) /\ ~MayClaim(worker[w].day, worker[w].kind)
  \/ \E status \in FetchStatus : Ingest(w, status)
  \/ OpenCircuit(w) \/ RecordAttempt(w) \/ Crash(w)

\* After a skip the process is at a circuit or idle, and the rest of it is as it was.
LEMMA SkipShape ==
  ASSUME IInv, NEW w \in Workers, NEW from, from # "idle", NEW status \in SymbolFetchStatus,
         Skip(w, from, status)
  PROVE  \E me \in WorkerState :
           /\ worker' = [worker EXCEPT ![w] = NextSymbol(me)]
           /\ me.kind = worker[w].kind /\ me.todo = worker[w].todo
           /\ me.retryable = worker[w].retryable /\ me.todo \cap me.retryable = {}
<1> DEFINE me == [worker[w] EXCEPT !.results[worker[w].symbol] = status]
<1>1. worker[w] \in WorkerState /\ LocalsAgree(worker[w], budgets, ingested)
  BY DEF IInv, TypeOK, LocalsInv
<1>2. worker[w].todo \cap worker[w].retryable = {} /\ worker[w].symbol \in Symbols
  BY <1>1 DEF LocalsAgree, Skip
<1>3. /\ me \in WorkerState /\ me.kind = worker[w].kind
      /\ me.todo = worker[w].todo /\ me.retryable = worker[w].retryable
  BY <1>1, <1>2 DEF WorkerState
<1>4. worker' = [worker EXCEPT ![w] = NextSymbol(me)]
  BY DEF Skip
<1> HIDE DEF me
<1> QED BY <1>2, <1>3, <1>4

LEMMA QuietMoves ==
  ASSUME IInv, NEW w \in Workers, QuietStep(w)
  PROVE  \A v \in Workers : worker'[v] = worker[v] \/ worker'[v].pc # "call"
<1>0. worker \in [Workers -> WorkerState]
  BY DEF IInv, TypeOK
<1>1. ASSUME NEW d \in Days, Begin(w, d) PROVE worker'[w].pc # "call"
  <2> DEFINE me == [Idle EXCEPT !.day = d, !.todo = Symbols]
  <2>1. me \in WorkerState /\ me.retryable = {}
    BY IdleFits DEF WorkerState, Idle
  <2>2. worker'[w] = NextSymbol(me)
    BY <1>0, <1>1 DEF Begin
  <2> HIDE DEF me
  <2> QED BY <2>1, <2>2, NextSymbolShape
<1>2. ASSUME NEW from, from # "idle", NEW status \in SymbolFetchStatus, Skip(w, from, status)
      PROVE  worker'[w].pc # "call"
  <2>1. PICK me \in WorkerState : /\ worker' = [worker EXCEPT ![w] = NextSymbol(me)]
                                  /\ me.todo \cap me.retryable = {}
    BY <1>2, SkipShape
  <2>2. NextSymbol(me).pc # "call"
    BY <2>1, NextSymbolShape
  <2> QED BY <1>0, <2>1, <2>2
<1>3. ASSUME NEW from, NEW to, Goto(w, from, to), to # "call" PROVE worker'[w].pc # "call"
  BY <1>0, <1>3 DEF Goto, WorkerState
<1>4. CASE CheckCircuit(w)
  <2>1. CASE Skip(w, "circuit", "CIRCUIT_OPEN")
    <3>1. worker'[w].pc # "call"
      BY <1>2, <2>1 DEF SymbolFetchStatus
    <3> QED BY <1>0, <2>1, <3>1 DEF Skip
  <2>2. CASE Goto(w, "circuit", "completed") \/ Goto(w, "circuit", "claim")
    BY <1>0, <1>3, <2>2 DEF Goto
  <2> QED BY <1>4, <2>1, <2>2 DEF CheckCircuit
<1>5. CASE CheckCompleted(w)
  <2>1. CASE Skip(w, "completed", "ALREADY_COMPLETED")
    <3>1. worker'[w].pc # "call"
      BY <1>2, <2>1 DEF SymbolFetchStatus
    <3> QED BY <1>0, <2>1, <3>1 DEF Skip
  <2>2. CASE Goto(w, "completed", "claim")
    BY <1>0, <1>3, <2>2 DEF Goto
  <2> QED BY <1>5, <2>1, <2>2 DEF CheckCompleted
<1>6. CASE ClaimBudget(w) /\ ~MayClaim(worker[w].day, worker[w].kind)
  <2>1. Skip(w, "claim", "CIRCUIT_OPEN") \/ Skip(w, "claim", "BUDGET_EXHAUSTED")
    BY <1>6 DEF ClaimBudget
  <2>2. worker'[w].pc # "call"
    BY <1>2, <2>1 DEF SymbolFetchStatus
  <2> QED BY <1>0, <2>1, <2>2 DEF Skip
<1>7. ASSUME NEW status \in FetchStatus, Ingest(w, status)
      PROVE  \A v \in Workers : worker'[v] = worker[v] \/ worker'[v].pc # "call"
  <2> DEFINE next == [worker[w] EXCEPT
                        !.status = status,
                        !.pc = IF status = "THROTTLED" THEN "open" ELSE "record"]
  <2>1. next.pc # "call"
    BY <1>0 DEF WorkerState
  <2>2. worker' = [worker EXCEPT ![w] = next]
    BY <1>7 DEF Ingest
  <2> HIDE DEF next
  <2> QED BY <1>0, <2>1, <2>2
<1>8. CASE OpenCircuit(w)
  BY <1>0, <1>3, <1>8 DEF OpenCircuit, Goto
<1>9. CASE RecordAttempt(w)
  <2> DEFINE after == Recorded(worker[w])
  <2>1. after \in WorkerState /\ worker' = [worker EXCEPT ![w] = NextSymbol(after)]
    BY <1>9, RecordShape
  <2>2. after.todo \cap after.retryable = {}
    <3>1. worker[w].todo \cap worker[w].retryable = {} /\ worker[w].symbol \notin worker[w].todo
      BY <1>9, RecordShape DEF LocalsAgree
    <3>2. /\ after.todo = worker[w].todo
          /\ after.retryable \subseteq worker[w].retryable \cup {worker[w].symbol}
      BY <1>9, RecordShape
    <3> QED BY <3>1, <3>2
  <2> HIDE DEF after
  <2>3. NextSymbol(after).pc # "call"
    BY <2>1, <2>2, NextSymbolShape
  <2> QED BY <1>0, <2>1, <2>3
<1>10. CASE Crash(w)
  BY <1>0, <1>10 DEF Crash, Idle
<1>11. ASSUME NEW d \in Days, Begin(w, d)
       PROVE  \A v \in Workers : worker'[v] = worker[v] \/ worker'[v].pc # "call"
  BY <1>0, <1>1, <1>11 DEF Begin
<1> QED BY <1>4, <1>5, <1>6, <1>7, <1>8, <1>9, <1>10, <1>11 DEF QuietStep

\* ... and they leave what was called and what was spent.
LEMMA QuietAccounts ==
  ASSUME IInv, NEW w \in Workers, QuietStep(w)
  PROVE  calls' = calls /\ \A d \in Days, kind \in Kinds : Spent(d, kind)' = Spent(d, kind)
<1>1. CASE \E d \in Days : Begin(w, d)
  <2> DEFINE unspent == [normal |-> 0, recovery |-> 0, open |-> FALSE]
  <2>1. unspent # None /\ \A k \in Kinds : unspent[k] = 0
    <3>1. unspent \in Budget
      BY BoundsAssumption DEF Budget
    <3>2. \A k \in Kinds : unspent[k] = 0
      BY DEF Kinds
    <3> HIDE DEF unspent
    <3> QED BY <3>1, <3>2, NoneAssumption
  <2>2. budgets \in [Days -> Budget \cup {None}]
    BY DEF IInv, TypeOK
  <2>3. PICK d \in Days : Begin(w, d)
    BY <1>1
  <2>4. budgets' = IF budgets[d] = None THEN [budgets EXCEPT ![d] = unspent] ELSE budgets
    BY <2>3 DEF Begin, EnsureBudget
  <2>5. calls' = calls
    BY <2>3 DEF Begin
  <2> HIDE DEF unspent
  <2>6. \A e \in Days : budgets'[e] = IF e = d /\ budgets[d] = None THEN unspent ELSE budgets[e]
    BY <2>2, <2>4
  <2> QED BY <2>1, <2>5, <2>6 DEF Spent
<1>2. CASE OpenCircuit(w)
  <2>1. calls' = calls
    BY <1>2 DEF OpenCircuit
  <2> QED BY <1>2, <2>1, OpenShape DEF Spent
<1>3. CASE UNCHANGED <<budgets, calls>>
  BY <1>3 DEF Spent
<1> QED BY <1>1, <1>2, <1>3 DEF QuietStep, CheckCircuit, CheckCompleted, ClaimBudget, Ingest,
     RecordAttempt, Crash

LEMMA CallersFinite ==
  ASSUME NEW d, NEW kind
  PROVE  /\ IsFiniteSet(Callers(d, kind)) /\ Cardinality(Callers(d, kind)) \in Nat
BY BoundsAssumption, FS_Subset, FS_CardinalityType DEF Callers

LEMMA SpentType ==
  ASSUME TypeOK, NEW d \in Days, NEW kind \in Kinds
  PROVE  Spent(d, kind) \in 0 .. Limit(kind) /\ calls[d][kind] \in Nat
<1>1. calls[d][kind] \in Nat
  BY DEF TypeOK
<1>2. Spent(d, kind) \in 0 .. Limit(kind)
  BY BoundsAssumption DEF TypeOK, Spent, Budget, Kinds, Limit
<1> QED BY <1>1, <1>2

LEMMA QuietPaid ==
  ASSUME IInv, PaidInv, NEW w \in Workers, QuietStep(w)
  PROVE  PaidInv'
<1> SUFFICES ASSUME NEW d \in Days, NEW kind \in Kinds
             PROVE  calls'[d][kind] + Cardinality(Callers(d, kind)') <= Spent(d, kind)'
  BY DEF PaidInv
<1>1. Callers(d, kind)' \subseteq Callers(d, kind)
  BY QuietMoves DEF Callers
<1>2. Cardinality(Callers(d, kind)') <= Cardinality(Callers(d, kind))
      /\ Cardinality(Callers(d, kind)') \in Nat
  BY <1>1, CallersFinite, FS_Subset, FS_CardinalityType
<1>3. calls'[d][kind] = calls[d][kind] /\ Spent(d, kind)' = Spent(d, kind)
  BY QuietAccounts
<1>4. calls[d][kind] \in Nat /\ Spent(d, kind) \in Int
  BY SpentType DEF IInv
<1>5. calls[d][kind] + Cardinality(Callers(d, kind)) <= Spent(d, kind)
  BY DEF PaidInv
<1> QED BY <1>2, <1>3, <1>4, <1>5, CallersFinite

\* One more caller, and one more call spent
LEMMA ClaimPaid ==
  ASSUME IInv, PaidInv, NEW w \in Workers, ClaimBudget(w),
         MayClaim(worker[w].day, worker[w].kind)
  PROVE  PaidInv'
<1> SUFFICES ASSUME NEW d \in Days, NEW kind \in Kinds
             PROVE  calls'[d][kind] + Cardinality(Callers(d, kind)') <= Spent(d, kind)'
  BY DEF PaidInv
<1>1. /\ worker[w].pc = "claim" /\ calls' = calls
      /\ worker' = [worker EXCEPT ![w].pc = "call"]
  BY DEF ClaimBudget, Goto
<1>2. worker \in [Workers -> WorkerState]
  BY DEF IInv, TypeOK
<1>3. /\ worker'[w].pc = "call" /\ worker'[w].day = worker[w].day
      /\ worker'[w].kind = worker[w].kind
      /\ \A v \in Workers \ {w} : worker'[v] = worker[v]
  BY <1>1, <1>2 DEF WorkerState
<1>4. calls[d][kind] \in Nat /\ Spent(d, kind) \in Int
  BY SpentType DEF IInv
<1>5. calls[d][kind] + Cardinality(Callers(d, kind)) <= Spent(d, kind)
  BY DEF PaidInv
<1>6. CASE d = worker[w].day /\ kind = worker[w].kind
  <2>1. Callers(d, kind)' = Callers(d, kind) \cup {w} /\ w \notin Callers(d, kind)
    BY <1>1, <1>3, <1>6 DEF Callers
  <2>2. Cardinality(Callers(d, kind)') = Cardinality(Callers(d, kind)) + 1
    BY <2>1, CallersFinite, FS_AddElement
  <2>3. Spent(d, kind)' = Spent(d, kind) + 1
    BY <1>6, ClaimShape DEF Spent
  <2> QED BY <1>1, <1>4, <1>5, <2>2, <2>3, CallersFinite
<1>7. CASE ~(d = worker[w].day /\ kind = worker[w].kind)
  <2>1. Callers(d, kind)' = Callers(d, kind)
    BY <1>1, <1>3, <1>7 DEF Callers
  <2>2. Spent(d, kind)' = Spent(d, kind)
    <3>1. CASE d # worker[w].day
      BY <3>1, ClaimShape DEF Spent
    <3>2. CASE d = worker[w].day
      <4>1. budgets[d] # None /\ budgets'[d] # None /\ budgets'[d][kind] = budgets[d][kind] + 0
        BY <1>7, <3>2, ClaimShape
      <4>2. budgets[d][kind] \in Int
        BY <1>4, <4>1 DEF Spent
      <4> QED BY <4>1, <4>2 DEF Spent
    <3> QED BY <3>1, <3>2
  <2> QED BY <1>1, <1>5, <2>1, <2>2
<1> QED BY <1>6, <1>7

\* One caller less, and one call more
LEMMA CallPaid ==
  ASSUME IInv, PaidInv, NEW w \in Workers, CallProvider(w)
  PROVE  PaidInv'
<1> SUFFICES ASSUME NEW d \in Days, NEW kind \in Kinds
             PROVE  calls'[d][kind] + Cardinality(Callers(d, kind)') <= Spent(d, kind)'
  BY DEF PaidInv
<1>1. /\ worker[w].pc = "call" /\ budgets' = budgets
      /\ worker' = [worker EXCEPT ![w].pc = "ingest"]
  BY DEF CallProvider, Goto
<1>2. worker \in [Workers -> WorkerState]
  BY DEF IInv, TypeOK
<1>3. /\ worker'[w].pc = "ingest"
      /\ \A v \in Workers \ {w} : worker'[v] = worker[v]
  BY <1>1, <1>2 DEF WorkerState
<1>4. calls[d][kind] \in Nat /\ Spent(d, kind) \in Int
  BY SpentType DEF IInv
<1>5. calls[d][kind] + Cardinality(Callers(d, kind)) <= Spent(d, kind)
  BY DEF PaidInv
<1>6. Spent(d, kind)' = Spent(d, kind)
  BY <1>1 DEF Spent
<1>7. Callers(d, kind)' = Callers(d, kind) \ {w}
  BY <1>3 DEF Callers
<1>8. CASE d = worker[w].day /\ kind = worker[w].kind
  <2>1. w \in Callers(d, kind)
    BY <1>1, <1>8 DEF Callers
  <2>2. Cardinality(Callers(d, kind)') = Cardinality(Callers(d, kind)) - 1
    BY <1>7, <2>1, CallersFinite, FS_RemoveElement
  <2>3. calls'[d][kind] = calls[d][kind] + 1
    BY <1>8, CallShape
  <2> QED BY <1>4, <1>5, <1>6, <2>2, <2>3, CallersFinite
<1>9. CASE ~(d = worker[w].day /\ kind = worker[w].kind)
  <2>1. Callers(d, kind)' = Callers(d, kind)
    BY <1>7, <1>9 DEF Callers
  <2>2. calls'[d][kind] = calls[d][kind] + 0
    BY <1>9, CallShape
  <2> QED BY <1>4, <1>5, <1>6, <2>1, <2>2, CallersFinite
<1> QED BY <1>8, <1>9

LEMMA NextCases ==
  ASSUME IInv, Next
  PROVE  \E w \in Workers :
           \/ QuietStep(w) \/ CallProvider(w)
           \/ ClaimBudget(w) /\ MayClaim(worker[w].day, worker[w].kind)
BY DEF Next, QuietStep

LEMMA InitPaid == Init => PaidInv
<1> SUFFICES ASSUME Init, NEW d \in Days, NEW kind \in Kinds
             PROVE  calls[d][kind] + Cardinality(Callers(d, kind)) <= Spent(d, kind)
  BY DEF PaidInv
<1>1. Callers(d, kind) = {}
  BY DEF Init, Callers, Idle
<1>2. calls[d][kind] = 0 /\ Spent(d, kind) = 0
  BY DEF Init, Spent
<1> QED BY <1>1, <1>2, FS_EmptySet

\* Every request was paid for before it was made and no budget is overdrawn, for
\* any number of processes that race and die between claim and call.
THEOREM PaidCalls == Spec => []CallsArePaid
<1>1. IInv /\ PaidInv /\ [Next]_vars => PaidInv'
  <2> SUFFICES ASSUME IInv, PaidInv, [Next]_vars PROVE PaidInv'
    OBVIOUS
  <2>1. CASE UNCHANGED vars
    BY <2>1 DEF PaidInv, Callers, Spent, vars
  <2>2. CASE Next
    BY <2>2, NextCases, QuietPaid, ClaimPaid, CallPaid
  <2> QED BY <2>1, <2>2
<1>2. IInv /\ PaidInv => CallsArePaid
  <2> SUFFICES ASSUME IInv, PaidInv, NEW d \in Days, NEW kind \in Kinds
               PROVE  calls[d][kind] <= Spent(d, kind) /\ Spent(d, kind) <= Limit(kind)
    BY DEF CallsArePaid
  <2>1. calls[d][kind] + Cardinality(Callers(d, kind)) <= Spent(d, kind)
    BY DEF PaidInv
  <2>2. Spent(d, kind) \in 0 .. Limit(kind) /\ calls[d][kind] \in Nat
    BY SpentType DEF IInv
  <2>3. Limit(kind) \in Int
    BY BoundsAssumption DEF Limit
  <2> QED BY <2>1, <2>2, <2>3, CallersFinite
<1>3. Spec => []PaidInv
  BY <1>1, InitPaid, BaseCorrect, PTL DEF Spec
<1> QED BY <1>2, <1>3, BaseCorrect, PTL

-----------------------------------------------------------------------------
(* What is settled stays settled *)

Completed == {s \in Symbols : HasCompleted(s)}

\* A refresh in state s that asks only for the completed symbols it has not seen:
\* what it is about to request, or to retry, is not among them.
Fresh(s, completed) ==
  /\ s.kind = "recovery" \/ s.pc \in {"claim", "call", "ingest", "open", "record"} =>
       s.symbol \notin completed
  /\ s.retryable \cap completed = {}
  /\ s.kind = "recovery" => s.todo \cap completed = {}

FreshInv ==
  locked =>
    /\ \A v, w \in Workers : v # w => worker[v].pc = "idle" \/ worker[w].pc = "idle"
    /\ \A w \in Workers : worker[w].pc # "idle" => Fresh(worker[w], Completed)

LEMMA NextSymbolFresh ==
  ASSUME NEW me \in WorkerState, NEW completed, me.todo \cap me.retryable = {},
         me.retryable \cap completed = {},
         me.kind = "recovery" => me.todo \cap completed = {},
         NextSymbol(me).pc # "idle"
  PROVE  Fresh(NextSymbol(me), completed)
<1> DEFINE next == NextSymbol(me)
<1>1. /\ next.pc = "circuit"
      /\ \/ /\ next.kind = me.kind /\ next.retryable = me.retryable
            /\ {next.symbol} \cup next.todo = me.todo
         \/ /\ me.kind = "normal" /\ next.kind = "recovery" /\ next.retryable = {}
            /\ {next.symbol} \cup next.todo = me.retryable
  BY NextSymbolShape
<1> HIDE DEF next
<1>2. Fresh(next, completed)
  BY <1>1 DEF Fresh
<1> QED BY <1>2 DEF next

\* Under the lock one process moves, and what it has completed is all that is new.
LEMMA Alone ==
  ASSUME IInv, FreshInv, NEW w \in Workers, NEW next \in WorkerState,
         worker' = [worker EXCEPT ![w] = next], locked' = locked,
         locked => \A v \in Workers \ {w} : worker[v].pc = "idle",
         locked /\ next.pc # "idle" => Fresh(next, Completed')
  PROVE  FreshInv'
<1>1. \A v \in Workers : worker'[v] = IF v = w THEN next ELSE worker[v]
  BY DEF IInv, TypeOK
<1> QED BY <1>1 DEF FreshInv

LEMMA BusyAlone ==
  ASSUME FreshInv, NEW w \in Workers, worker[w].pc # "idle", locked
  PROVE  Fresh(worker[w], Completed) /\ \A v \in Workers \ {w} : worker[v].pc = "idle"
BY DEF FreshInv

LEMMA SkipFresh ==
  ASSUME IInv, FreshInv, NEW w \in Workers, NEW from, from # "idle",
         NEW status \in SymbolFetchStatus, Skip(w, from, status), UNCHANGED <<locked, attempts>>
  PROVE  FreshInv'
<1>1. PICK me \in WorkerState :
        /\ worker' = [worker EXCEPT ![w] = NextSymbol(me)]
        /\ me.kind = worker[w].kind /\ me.todo = worker[w].todo
        /\ me.retryable = worker[w].retryable /\ me.todo \cap me.retryable = {}
  BY SkipShape
<1>2. worker[w].pc # "idle" /\ Completed' = Completed
  BY DEF Skip, Completed, HasCompleted
<1>3. NextSymbol(me) \in WorkerState
  BY <1>1, NextSymbolShape
<1>4. ASSUME locked, NextSymbol(me).pc # "idle" PROVE Fresh(NextSymbol(me), Completed)
  <2>1. Fresh(worker[w], Completed)
    BY <1>2, <1>4, BusyAlone
  <2>2. /\ me.retryable \cap Completed = {}
        /\ me.kind = "recovery" => me.todo \cap Completed = {}
    BY <1>1, <2>1 DEF Fresh
  <2> QED BY <1>1, <1>4, <2>2, NextSymbolFresh
<1> QED BY <1>1, <1>2, <1>3, <1>4, Alone, BusyAlone

LEMMA GotoFresh ==
  ASSUME IInv, FreshInv, NEW w \in Workers, NEW from, NEW to \in PCs, from # "idle",
         Goto(w, from, to), UNCHANGED <<locked, attempts>>,
         from \in {"circuit", "completed"} /\ worker[w].kind = "normal" /\ to # "completed" =>
           ~HasCompleted(worker[w].symbol)
  PROVE  FreshInv'
<1> DEFINE next == [worker[w] EXCEPT !.pc = to]
<1>1. worker[w] \in WorkerState /\ worker[w].pc = from
  BY DEF IInv, TypeOK, Goto
<1>2. Completed' = Completed
  BY DEF Completed, HasCompleted
<1>3. /\ next \in WorkerState /\ next.pc = to /\ next.kind = worker[w].kind
      /\ next.symbol = worker[w].symbol /\ next.todo = worker[w].todo
      /\ next.retryable = worker[w].retryable
  BY <1>1 DEF WorkerState
<1>4. worker' = [worker EXCEPT ![w] = next]
  BY DEF Goto
<1> HIDE DEF next
<1>5. ASSUME locked PROVE Fresh(next, Completed)
  <2>1. Fresh(worker[w], Completed)
    BY <1>1, <1>5, BusyAlone
  <2>2. worker[w].kind \in Kinds /\ from \in PCs
    BY <1>1 DEF WorkerState
  <2> QED BY <1>1, <1>3, <2>1, <2>2 DEF Fresh, Completed, Kinds, PCs
<1> QED BY <1>1, <1>2, <1>3, <1>4, <1>5, Alone, BusyAlone

LEMMA BeginFresh ==
  ASSUME IInv, FreshInv, NEW w \in Workers, NEW d \in Days, Begin(w, d)
  PROVE  FreshInv'
<1> DEFINE me == [Idle EXCEPT !.day = d, !.todo = Symbols]
<1>1. /\ me \in WorkerState /\ me.retryable = {} /\ me.kind = "normal"
  BY IdleFits DEF WorkerState, Idle
<1>2. worker' = [worker EXCEPT ![w] = NextSymbol(me)] /\ UNCHANGED <<locked, attempts>>
  BY DEF Begin
<1>3. locked => \A v \in Workers : worker[v].pc = "idle"
  BY DEF Begin
<1>4. Completed' = Completed
  BY <1>2 DEF Completed, HasCompleted
<1> HIDE DEF me
<1>5. NextSymbol(me) \in WorkerState
  BY <1>1, NextSymbolShape
<1>6. NextSymbol(me).pc # "idle" => Fresh(NextSymbol(me), Completed)
  BY <1>1, NextSymbolFresh
<1> QED BY <1>2, <1>3, <1>4, <1>5, <1>6, Alone

LEMMA IngestFresh ==
  ASSUME IInv, FreshInv, NEW w \in Workers, NEW status \in FetchStatus, Ingest(w, status)
  PROVE  FreshInv'
<1> DEFINE next == [worker[w] EXCEPT
                      !.status = status,
                      !.pc = IF status = "THROTTLED" THEN "open" ELSE "record"]
<1>1. worker[w] \in WorkerState /\ worker[w].pc = "ingest"
  BY DEF IInv, TypeOK, Ingest
<1>2. /\ next \in WorkerState /\ next.kind = worker[w].kind
      /\ next.symbol = worker[w].symbol /\ next.todo = worker[w].todo
      /\ next.retryable = worker[w].retryable
  BY <1>1 DEF WorkerState, PCs
<1>3. worker' = [worker EXCEPT ![w] = next] /\ UNCHANGED <<locked, attempts>>
  BY DEF Ingest
<1>4. Completed' = Completed
  BY <1>3 DEF Completed, HasCompleted
<1> HIDE DEF next
<1>5. ASSUME locked PROVE Fresh(next, Completed)
  <2>1. Fresh(worker[w], Completed)
    BY <1>1, <1>5, BusyAlone
  <2> QED BY <1>1, <1>2, <2>1 DEF Fresh
<1> QED BY <1>1, <1>2, <1>3, <1>4, <1>5, Alone, BusyAlone

LEMMA RecordFresh ==
  ASSUME IInv, FreshInv, NEW w \in Workers, RecordAttempt(w)
  PROVE  FreshInv'
<1> DEFINE me == worker[w]
           after == Recorded(me)
<1>1. /\ me \in WorkerState /\ me.pc = "record" /\ me.symbol \notin me.todo \cup me.retryable
      /\ me.todo \cap me.retryable = {}
  BY RecordShape DEF LocalsAgree
<1>2. /\ after \in WorkerState /\ after.todo = me.todo /\ after.kind = me.kind
      /\ after.retryable = IF me.kind = "normal" /\ me.status = "RETRYABLE_FAILURE"
                           THEN me.retryable \cup {me.symbol} ELSE me.retryable
  BY RecordShape
<1>3. worker' = [worker EXCEPT ![w] = NextSymbol(after)] /\ locked' = locked
  BY RecordShape DEF RecordAttempt
<1>4. Completed' \subseteq Completed \cup {me.symbol}
  <2> SUFFICES ASSUME NEW s \in Symbols, s # me.symbol, HasCompleted(s)'
               PROVE  HasCompleted(s)
    BY DEF Completed
  <2>1. PICK k \in Kinds : attempts'[s][k] = "SUCCESS"
    BY DEF HasCompleted
  <2>2. attempts'[s] = attempts[s]
    BY DEF RecordAttempt, IInv, TypeOK
  <2> QED BY <2>1, <2>2 DEF HasCompleted
<1> HIDE DEF after
<1>5. after.todo \cap after.retryable = {}
  BY <1>1, <1>2
<1>6. NextSymbol(after) \in WorkerState
  BY <1>2, <1>5, NextSymbolShape
<1>7. ASSUME locked, NextSymbol(after).pc # "idle" PROVE Fresh(NextSymbol(after), Completed')
  <2>1. Fresh(me, Completed)
    BY <1>1, <1>7, BusyAlone
  <2>2. me.symbol \notin Completed /\ me.retryable \cap Completed = {}
        /\ (me.kind = "recovery" => me.todo \cap Completed = {})
    BY <1>1, <2>1 DEF Fresh
  <2>3. me.status = "RETRYABLE_FAILURE" => me.symbol \notin Completed'
    BY <2>2, RecordShape DEF Completed, HasCompleted
  <2>4. after.retryable \cap Completed' = {}
    BY <1>1, <1>2, <1>4, <2>2, <2>3
  <2>5. after.kind = "recovery" => after.todo \cap Completed' = {}
    BY <1>1, <1>2, <1>4, <2>2
  <2> QED BY <1>2, <1>5, <1>7, <2>4, <2>5, NextSymbolFresh
<1> QED BY <1>1, <1>3, <1>6, <1>7, Alone, BusyAlone

LEMMA NextFresh == IInv /\ FreshInv /\ [Next]_vars => FreshInv'
<1> SUFFICES ASSUME IInv, FreshInv, [Next]_vars PROVE FreshInv'
  OBVIOUS
<1>1. CASE UNCHANGED vars
  BY <1>1 DEF FreshInv, Completed, HasCompleted, vars
<1>2. ASSUME NEW w \in Workers, CheckCircuit(w) PROVE FreshInv'
  <2>1. CASE Skip(w, "circuit", "CIRCUIT_OPEN")
    BY <1>2, <2>1, SkipFresh DEF CheckCircuit, SymbolFetchStatus
  <2>2. CASE worker[w].kind = "normal" /\ Goto(w, "circuit", "completed")
    BY <1>2, <2>2, GotoFresh DEF CheckCircuit, PCs
  <2>3. CASE worker[w].kind # "normal" /\ Goto(w, "circuit", "claim")
    BY <1>2, <2>3, GotoFresh DEF CheckCircuit, PCs
  <2> QED BY <1>2, <2>1, <2>2, <2>3 DEF CheckCircuit
<1>3. ASSUME NEW w \in Workers, CheckCompleted(w) PROVE FreshInv'
  <2>1. CASE Skip(w, "completed", "ALREADY_COMPLETED")
    BY <1>3, <2>1, SkipFresh DEF CheckCompleted, SymbolFetchStatus
  <2>2. CASE ~HasCompleted(worker[w].symbol) /\ Goto(w, "completed", "claim")
    BY <1>3, <2>2, GotoFresh DEF CheckCompleted, PCs
  <2> QED BY <1>3, <2>1, <2>2 DEF CheckCompleted
<1>4. ASSUME NEW w \in Workers, ClaimBudget(w) PROVE FreshInv'
  <2>1. CASE Skip(w, "claim", "CIRCUIT_OPEN") \/ Skip(w, "claim", "BUDGET_EXHAUSTED")
    BY <1>4, <2>1, SkipFresh DEF ClaimBudget, SymbolFetchStatus
  <2>2. CASE Goto(w, "claim", "call")
    BY <1>4, <2>2, GotoFresh DEF ClaimBudget, PCs
  <2> QED BY <1>4, <2>1, <2>2 DEF ClaimBudget
<1>5. ASSUME NEW w \in Workers, CallProvider(w) PROVE FreshInv'
  BY <1>5, GotoFresh DEF CallProvider, PCs
<1>6. ASSUME NEW w \in Workers, OpenCircuit(w) PROVE FreshInv'
  BY <1>6, GotoFresh DEF OpenCircuit, PCs
<1>7. ASSUME NEW w \in Workers, Crash(w) PROVE FreshInv'
  <2>1. worker' = [worker EXCEPT ![w] = Idle] /\ UNCHANGED <<locked, attempts>>
        /\ worker[w].pc # "idle" /\ Idle.pc = "idle"
    BY <1>7 DEF Crash, Idle
  <2> QED BY <2>1, IdleFits, Alone, BusyAlone
<1> QED BY <1>1, <1>2, <1>3, <1>4, <1>5, <1>6, <1>7, BeginFresh, IngestFresh, RecordFresh DEF Next

\* The two halves of SettledStaysSettled as actions
SuccessStays ==
  locked =>
    \A s \in Symbols : HasCompleted(s) =>
      /\ HasCompleted(s)'
      /\ \A w \in Workers : worker[w].symbol = s /\ worker[w].pc = "call" => calls' = calls

CircuitStops == \A d \in Days : budgets[d] # None /\ budgets[d].open => budgets'[d] = budgets[d]

LEMMA NextSuccessStays == IInv /\ FreshInv /\ [Next]_vars => SuccessStays
<1> SUFFICES ASSUME IInv, FreshInv, [Next]_vars, locked, NEW s \in Symbols, s \in Completed
             PROVE  /\ HasCompleted(s)'
                    /\ \A w \in Workers : ~(worker[w].symbol = s /\ worker[w].pc = "call")
  BY DEF SuccessStays, Completed
<1>1. \A w \in Workers : ~(worker[w].symbol = s /\ worker[w].pc = "call")
  BY BusyAlone DEF Fresh
<1>2. ASSUME UNCHANGED attempts PROVE HasCompleted(s)'
  BY <1>2 DEF HasCompleted, Completed
<1>3. ASSUME NEW w \in Workers, RecordAttempt(w) PROVE HasCompleted(s)'
  <2>1. worker[w].pc = "record"
    BY <1>3 DEF RecordAttempt
  <2>2. worker[w].symbol # s
    BY <2>1, BusyAlone DEF Fresh
  <2> QED BY <1>3, <2>2, RecordShape DEF HasCompleted, Completed
<1>4. HasCompleted(s)'
  BY <1>2, <1>3 DEF Next, vars, Begin, CheckCircuit, CheckCompleted, ClaimBudget, CallProvider,
     Ingest, OpenCircuit, Crash
<1> QED BY <1>1, <1>4

LEMMA NextCircuitStops == IInv /\ [Next]_vars => CircuitStops
<1> SUFFICES ASSUME IInv, [Next]_vars, NEW d \in Days, budgets[d] # None, budgets[d].open
             PROVE  budgets'[d] = budgets[d]
  BY DEF CircuitStops
<1>1. budgets \in [Days -> Budget \cup {None}]
  BY DEF IInv, TypeOK
<1>2. ASSUME NEW w \in Workers, NEW e \in Days, Begin(w, e) PROVE budgets'[d] = budgets[d]
  BY <1>1, <1>2 DEF Begin, EnsureBudget
<1>3. ASSUME NEW w \in Workers, ClaimBudget(w) PROVE budgets'[d] = budgets[d]
  <2>1. CASE MayClaim(worker[w].day, worker[w].kind)
    BY <1>3, <2>1, ClaimShape DEF MayClaim
  <2>2. CASE ~MayClaim(worker[w].day, worker[w].kind)
    BY <1>3, <2>2 DEF ClaimBudget
  <2> QED BY <2>1, <2>2
<1>4. ASSUME NEW w \in Workers, OpenCircuit(w) PROVE budgets'[d] = budgets[d]
  BY <1>4, OpenShape
<1> QED BY <1>2, <1>3, <1>4 DEF Next, vars, CheckCircuit, CheckCompleted, CallProvider, Ingest,
     RecordAttempt, Crash

\* What a refresh has settled stays settled: an open circuit ends the spending of
\* its day, and under the process lock a symbol with a success on record is not
\* requested again and keeps it.
THEOREM SettledForGood == Spec => SettledStaysSettled
<1>1. Init => FreshInv
  BY DEF Init, FreshInv, Idle
<1>2. IInv /\ FreshInv /\ [Next]_vars => [SuccessStays]_vars /\ [CircuitStops]_vars
  BY NextSuccessStays, NextCircuitStops
<1>3. Spec => [][SuccessStays]_vars /\ [][CircuitStops]_vars
  BY <1>1, <1>2, NextFresh, BaseCorrect, PTL DEF Spec
<1> QED BY <1>3 DEF SettledStaysSettled, SuccessIsFinal, CircuitStopsSpending, SuccessStays,
     CircuitStops

=============================================================================
