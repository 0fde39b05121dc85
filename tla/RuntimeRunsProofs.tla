------------------------- MODULE RuntimeRunsProofs -------------------------
(***************************************************************************)
(* Proofs about RuntimeRuns for every number of workers, run keys and      *)
(* configurations, every lease length and every delay of a claim.          *)
(***************************************************************************)
EXTENDS RuntimeRuns, FiniteSetTheorems, TLAPS

\* The inductive invariant: types, the agreement of the lease table with the
\* runs and with the memories of the workers, and exclusion itself.
IInv == TypeOK /\ LeaseInv /\ LiveLeaseExclusive

\* What a granted attempt leaves in the tables and in the memory of its worker.
LEMMA GrantTypes ==
  ASSUME TypeOK, NEW w \in Workers, NEW k \in RunKeys,
         NEW kind \in {"PRIMARY", "RECOVERY"}, NEW phase \in RunPhases,
         GrantAttempt(w, k, kind, phase)
  PROVE  \E n \in 1 .. MaxAttempts :
           LET expires == worker[w].now + LeaseTicks
           IN  /\ expires \in Instants
               /\ IsNextAttemptNumber(k, n)
               /\ \A a \in attempts[k] : a.number < n
               /\ attempts' = [attempts EXCEPT ![k] = @ \cup {[number |-> n, kind |-> kind]}]
               /\ attempts' \in [RunKeys -> SUBSET Attempt]
               /\ leases' = [leases EXCEPT ![k] = [attempt |-> n, expires |-> expires]]
               /\ leases' \in [RunKeys -> Lease \cup {NoRow}]
               /\ worker' \in [Workers -> WorkerState]
               /\ \A v \in Workers : v # w => worker'[v] = worker[v]
               /\ worker'[w].pc = "working"
               /\ worker'[w].key = worker[w].key
               /\ worker'[w].attempt = n
               /\ worker'[w].expires = expires
<1>1. PICK n \in 1 .. MaxAttempts :
        LET expires == LeaseExpiry(worker[w].now)
        IN  /\ IsNextAttemptNumber(k, n)
            /\ attempts' = [attempts EXCEPT ![k] = @ \cup {[number |-> n, kind |-> kind]}]
            /\ leases' = [leases EXCEPT ![k] = [attempt |-> n, expires |-> expires]]
            /\ worker' = [worker EXCEPT ![w] =
                 [@ EXCEPT !.pc = "working", !.now = 0, !.attempt = n,
                           !.expires = expires, !.view = phase]]
  BY DEF GrantAttempt
<1>2. worker[w] \in WorkerState /\ worker[w].now \in (-MaxDelay) .. 0
  BY DEF TypeOK, WorkerState
<1>3. worker[w].now + LeaseTicks \in Instants
  BY <1>2, BoundsAssumption DEF Instants
<1>4. attempts' \in [RunKeys -> SUBSET Attempt]
  BY <1>1 DEF TypeOK, Attempt
<1>5. leases' \in [RunKeys -> Lease \cup {NoRow}]
  BY <1>1, <1>3 DEF TypeOK, Lease, LeaseExpiry
<1>6. worker' \in [Workers -> WorkerState]
  <2>1. 0 \in (-MaxDelay) .. 0 /\ n \in 0 .. MaxAttempts
    BY BoundsAssumption
  <2>2. [worker[w] EXCEPT !.pc = "working", !.now = 0, !.attempt = n,
            !.expires = LeaseExpiry(worker[w].now), !.view = phase] \in WorkerState
    BY <2>1, <1>2, <1>3, Zenon DEF WorkerState, LeaseExpiry
  <2> QED BY <1>1, <2>2 DEF TypeOK
<1>7. /\ worker'[w].pc = "working"
      /\ worker'[w].key = worker[w].key
      /\ worker'[w].attempt = n
      /\ worker'[w].expires = worker[w].now + LeaseTicks
  BY <1>1, <1>2 DEF TypeOK, WorkerState, LeaseExpiry
<1>8. \A v \in Workers : v # w => worker'[v] = worker[v]
  BY <1>1 DEF TypeOK
<1> QED BY <1>1, <1>3, <1>4, <1>5, <1>6, <1>7, <1>8 DEF IsNextAttemptNumber, LeaseExpiry

\* The present moves on: instants stay in range and never grow.
LEMMA OlderInstants ==
  ASSUME NEW i \in Instants
  PROVE  Older(i) \in Instants /\ Older(i) <= i
BY BoundsAssumption DEF Older, Instants

-----------------------------------------------------------------------------

LEMMA InitIInv == Init => IInv
<1> SUFFICES ASSUME Init PROVE IInv
  OBVIOUS
<1>1. Idle \in WorkerState
  BY BoundsAssumption DEF Idle, WorkerState, Instants
<1>2. TypeOK
  BY <1>1, BoundsAssumption DEF Init, TypeOK
<1>3. LeaseInv
  BY DEF Init, LeaseInv, HoldsLiveLease, Idle
<1>4. LiveLeaseExclusive
  BY DEF Init, LiveLeaseExclusive, HoldsLiveLease, Idle
<1> QED BY <1>2, <1>3, <1>4 DEF IInv

\* A process that becomes idle takes nothing from anybody.
LEMMA GoIdle ==
  ASSUME IInv, NEW w \in Workers,
         worker' = [worker EXCEPT ![w] = Idle],
         runs' = runs, attempts' = attempts, leases' = leases,
         crashes' \in 0 .. MaxCrashes
  PROVE  IInv'
<1>1. Idle \in WorkerState
  BY BoundsAssumption DEF Idle, WorkerState, Instants
<1>2. TypeOK'
  BY <1>1 DEF IInv, TypeOK
<1>3. \A v \in Workers : worker'[v] = worker[v] \/ worker'[v].pc = "idle"
  BY DEF IInv, TypeOK, Idle
<1>4. LeaseInv'
  BY <1>3 DEF IInv, LeaseInv, HoldsLiveLease, IsTerminal
<1>5. LiveLeaseExclusive'
  BY <1>3 DEF IInv, LiveLeaseExclusive, HoldsLiveLease
<1> QED BY <1>2, <1>4, <1>5 DEF IInv

LEMMA BeginClaimIInv ==
  ASSUME IInv, NEW w \in Workers, NEW k \in RunKeys, NEW c \in Configs,
         BeginClaim(w, k, c)
  PROVE  IInv'
<1>1. worker' = [worker EXCEPT ![w] =
        [Idle EXCEPT !.pc = "claiming", !.key = k, !.config = c]]
  BY DEF BeginClaim
<1>2. [Idle EXCEPT !.pc = "claiming", !.key = k, !.config = c] \in WorkerState
  <2>1. Idle \in WorkerState
    BY BoundsAssumption DEF Idle, WorkerState, Instants
  <2> QED BY <2>1 DEF WorkerState
<1>3. TypeOK'
  BY <1>1, <1>2 DEF IInv, TypeOK, BeginClaim
<1>4. /\ worker'[w].pc = "claiming" /\ worker'[w].key = k /\ worker'[w].config = c
      /\ \A v \in Workers : v # w => worker'[v] = worker[v]
  BY <1>1 DEF IInv, TypeOK, Idle
<1>5. LeaseInv'
  BY <1>4 DEF IInv, LeaseInv, HoldsLiveLease, IsTerminal, BeginClaim
<1>6. LiveLeaseExclusive'
  BY <1>4 DEF IInv, LiveLeaseExclusive, HoldsLiveLease
<1> QED BY <1>3, <1>5, <1>6 DEF IInv

\* A grant is safe when the run has not ended and nobody holds a live lease.
LEMMA GrantIInv ==
  ASSUME IInv, NEW w \in Workers, NEW k \in RunKeys, worker[w].key = k,
         NEW kind \in {"PRIMARY", "RECOVERY"}, NEW phase \in RunPhases,
         GrantAttempt(w, k, kind, phase),
         \A v \in Workers : ~HoldsLiveLease(v, k),
         runs' \in [RunKeys -> Run \cup {NoRow}],
         runs'[k] # NoRow, runs'[k].phase \notin TerminalRunPhases,
         \A j \in RunKeys : j # k => runs'[j] = runs[j],
         crashes' = crashes
  PROVE  IInv'
<1> DEFINE expires == worker[w].now + LeaseTicks
<1>1. PICK n \in 1 .. MaxAttempts :
        /\ expires \in Instants
        /\ attempts' \in [RunKeys -> SUBSET Attempt]
        /\ leases' = [leases EXCEPT ![k] = [attempt |-> n, expires |-> expires]]
        /\ leases' \in [RunKeys -> Lease \cup {NoRow}]
        /\ worker' \in [Workers -> WorkerState]
        /\ \A v \in Workers : v # w => worker'[v] = worker[v]
        /\ worker'[w].pc = "working"
        /\ worker'[w].key = worker[w].key
        /\ worker'[w].attempt = n
        /\ worker'[w].expires = expires
  BY GrantTypes DEF IInv
<1> HIDE DEF expires
<1>2. TypeOK'
  BY <1>1 DEF IInv, TypeOK
<1>3. /\ leases'[k] = [attempt |-> n, expires |-> expires]
      /\ leases'[k] # NoRow
      /\ \A j \in RunKeys : j # k => leases'[j] = leases[j]
  BY <1>1, NoRowAssumption DEF IInv, TypeOK, Lease
<1>4. \A v \in Workers, j \in RunKeys :
        HoldsLiveLease(v, j)' => \/ v = w /\ j = k
                                 \/ v # w /\ j # k /\ HoldsLiveLease(v, j)
  BY <1>1 DEF HoldsLiveLease
<1>5. LeaseInv'
  <2>1. \A j \in RunKeys : (leases[j] # NoRow <=> runs[j] # NoRow /\ ~IsTerminal(j))'
    BY <1>3 DEF IInv, LeaseInv, IsTerminal
  <2>2. \A v \in Workers :
          /\ worker'[v].pc = "claiming" =>
               worker'[v].key \in RunKeys /\ worker'[v].config \in Configs
          /\ worker'[v].pc = "working" =>
               /\ worker'[v].key \in RunKeys
               /\ runs'[worker'[v].key] # NoRow
               /\ worker'[v].attempt \in 1 .. MaxAttempts
    BY <1>1 DEF IInv, LeaseInv
  <2>3. \A v \in Workers, j \in RunKeys :
          (HoldsLiveLease(v, j) /\ ~IsTerminal(j) =>
            leases[j] = [attempt |-> worker[v].attempt, expires |-> worker[v].expires])'
    BY <1>1, <1>3, <1>4 DEF IInv, LeaseInv, IsTerminal
  <2> QED BY <2>1, <2>2, <2>3 DEF LeaseInv
<1>6. LiveLeaseExclusive'
  BY <1>4 DEF IInv, LiveLeaseExclusive
<1> QED BY <1>2, <1>5, <1>6 DEF IInv

LEMMA ClaimCreatedIInv ==
  ASSUME IInv, NEW w \in Workers, ClaimCreated(w)
  PROVE  IInv'
<1> DEFINE k == worker[w].key
<1>1. k \in RunKeys /\ worker[w].config \in Configs
  BY DEF IInv, LeaseInv, ClaimCreated
<1>2. /\ runs[k] = NoRow
      /\ runs' = [runs EXCEPT ![k] = [config |-> worker[w].config, phase |-> "CLAIMED"]]
      /\ GrantAttempt(w, k, "PRIMARY", "CLAIMED")
      /\ crashes' = crashes
  BY DEF ClaimCreated
<1> HIDE DEF k
<1>3. "CLAIMED" \in RunPhases /\ "CLAIMED" \notin TerminalRunPhases
  BY DEF RunPhases, TerminalRunPhases
<1>4. [config |-> worker[w].config, phase |-> "CLAIMED"] \in Run
  BY <1>1, <1>3 DEF Run
<1>5. \A v \in Workers : ~HoldsLiveLease(v, k)
  BY <1>2 DEF IInv, LeaseInv, HoldsLiveLease
<1>6. /\ runs' \in [RunKeys -> Run \cup {NoRow}]
      /\ runs'[k] # NoRow /\ runs'[k].phase \notin TerminalRunPhases
      /\ \A j \in RunKeys : j # k => runs'[j] = runs[j]
  BY <1>1, <1>2, <1>3, <1>4, NoRowAssumption DEF IInv, TypeOK
<1> QED BY <1>1, <1>2, <1>3, <1>5, <1>6, GrantIInv DEF k

\* A recovery starts only when nobody holds a live lease: the reading of the
\* clock it judges by is never ahead of the present.
LEMMA RecoveryFindsNobody ==
  ASSUME IInv, NEW w \in Workers, ClaimRecovered(w)
  PROVE  /\ worker[w].key \in RunKeys
         /\ ~LeaseIsLive(worker[w].key, 0)
         /\ \A v \in Workers : ~HoldsLiveLease(v, worker[w].key)
<1> DEFINE k == worker[w].key
<1>1. k \in RunKeys /\ runs[k] # NoRow /\ ~IsTerminal(k) /\ ~LeaseIsLive(k, worker[w].now)
  BY DEF IInv, LeaseInv, ClaimRecovered
<1> HIDE DEF k
<1>2. leases[k] \in Lease
  BY <1>1 DEF IInv, LeaseInv, TypeOK
<1>3. leases[k].expires \in Int /\ worker[w].now \in Int /\ worker[w].now <= 0
  BY <1>2, BoundsAssumption DEF IInv, TypeOK, Lease, Instants, WorkerState
<1>4. leases[k].expires <= 0
  BY <1>1, <1>2, <1>3, NoRowAssumption DEF LeaseIsLive
<1>5. ~LeaseIsLive(k, 0)
  BY <1>3, <1>4 DEF LeaseIsLive
<1>6. ASSUME NEW v \in Workers, HoldsLiveLease(v, k) PROVE FALSE
  <2>1. leases[k] = [attempt |-> worker[v].attempt, expires |-> worker[v].expires]
    BY <1>1, <1>6 DEF IInv, LeaseInv
  <2> QED BY <2>1, <1>3, <1>4, <1>6 DEF HoldsLiveLease
<1> QED BY <1>1, <1>5, <1>6 DEF k

LEMMA ClaimRecoveredIInv ==
  ASSUME IInv, NEW w \in Workers, ClaimRecovered(w)
  PROVE  IInv'
<1> DEFINE k == worker[w].key
<1>1. /\ runs[k] # NoRow /\ ~IsTerminal(k)
      /\ GrantAttempt(w, k, "RECOVERY", runs[k].phase)
      /\ runs' = runs /\ crashes' = crashes
  BY DEF ClaimRecovered
<1>2. k \in RunKeys /\ \A v \in Workers : ~HoldsLiveLease(v, k)
  BY RecoveryFindsNobody
<1> HIDE DEF k
<1>3. runs[k].phase \in RunPhases
  BY <1>1, <1>2 DEF IInv, TypeOK, Run
<1>4. /\ runs' \in [RunKeys -> Run \cup {NoRow}]
      /\ runs'[k] # NoRow /\ runs'[k].phase \notin TerminalRunPhases
      /\ \A j \in RunKeys : j # k => runs'[j] = runs[j]
  BY <1>1 DEF IInv, TypeOK, IsTerminal
<1> QED BY <1>1, <1>2, <1>3, <1>4, GrantIInv DEF k

LEMMA TransitionRunIInv ==
  ASSUME IInv, NEW w \in Workers, NEW to \in RunPhases, TransitionRun(w, to)
  PROVE  IInv'
<1> DEFINE k == worker[w].key
<1>1. /\ worker[w].pc = "working"
      /\ ~IsTerminal(k)
      /\ runs' = [runs EXCEPT ![k].phase = to]
      /\ attempts' = attempts /\ crashes' = crashes
      /\ \/ /\ to \in TerminalRunPhases
            /\ leases' = [leases EXCEPT ![k] = NoRow]
            /\ worker' = [worker EXCEPT ![w] = Idle]
         \/ /\ to \notin TerminalRunPhases
            /\ worker' = [worker EXCEPT ![w].view = to]
            /\ leases' = leases
  BY DEF TransitionRun
<1>2. k \in RunKeys /\ runs[k] # NoRow
  BY <1>1 DEF IInv, LeaseInv
<1> HIDE DEF k
<1>3. runs[k] \in Run
  BY <1>2 DEF IInv, TypeOK
<1>4. /\ runs' \in [RunKeys -> Run \cup {NoRow}]
      /\ runs'[k] # NoRow /\ runs'[k].phase = to
      /\ \A j \in RunKeys : j # k => runs'[j] = runs[j]
  BY <1>1, <1>2, <1>3, NoRowAssumption DEF IInv, TypeOK, Run
<1>5. /\ worker' \in [Workers -> WorkerState]
      /\ \A v \in Workers :
           \/ worker'[v].pc = "idle"
           \/ /\ worker'[v].pc = worker[v].pc /\ worker'[v].key = worker[v].key
              /\ worker'[v].config = worker[v].config
              /\ worker'[v].attempt = worker[v].attempt
              /\ worker'[v].expires = worker[v].expires
  <2>1. Idle \in WorkerState /\ Idle.pc = "idle"
    BY BoundsAssumption DEF Idle, WorkerState, Instants
  <2>2. [worker[w] EXCEPT !.view = to] \in WorkerState
    BY DEF IInv, TypeOK, WorkerState
  <2>3. CASE worker' = [worker EXCEPT ![w] = Idle]
    BY <2>1, <2>3 DEF IInv, TypeOK
  <2>4. CASE worker' = [worker EXCEPT ![w].view = to]
    BY <2>2, <2>4 DEF IInv, TypeOK, WorkerState
  <2> QED BY <1>1, <2>3, <2>4
<1>6. /\ leases' \in [RunKeys -> Lease \cup {NoRow}]
      /\ leases'[k] = IF to \in TerminalRunPhases THEN NoRow ELSE leases[k]
      /\ \A j \in RunKeys : j # k => leases'[j] = leases[j]
  BY <1>1, <1>2 DEF IInv, TypeOK
<1>7. TypeOK'
  BY <1>1, <1>4, <1>5, <1>6 DEF IInv, TypeOK
<1>8. LeaseInv'
  <2>1. \A j \in RunKeys : (leases[j] # NoRow <=> runs[j] # NoRow /\ ~IsTerminal(j))'
    BY <1>1, <1>2, <1>4, <1>6 DEF IInv, LeaseInv, IsTerminal
  <2>2. \A v \in Workers :
          /\ worker'[v].pc = "claiming" =>
               worker'[v].key \in RunKeys /\ worker'[v].config \in Configs
          /\ worker'[v].pc = "working" =>
               /\ worker'[v].key \in RunKeys
               /\ runs'[worker'[v].key] # NoRow
               /\ worker'[v].attempt \in 1 .. MaxAttempts
    BY <1>4, <1>5 DEF IInv, LeaseInv
  <2>3. ASSUME NEW v \in Workers, NEW j \in RunKeys, HoldsLiveLease(v, j)', ~IsTerminal(j)'
        PROVE  leases'[j] = [attempt |-> worker'[v].attempt, expires |-> worker'[v].expires]
    <3>1. /\ HoldsLiveLease(v, j) /\ worker'[v].attempt = worker[v].attempt
          /\ worker'[v].expires = worker[v].expires
      BY <1>5, <2>3 DEF HoldsLiveLease
    <3>2. ~IsTerminal(j) /\ leases'[j] = leases[j]
      BY <1>1, <1>4, <1>6, <2>3 DEF IsTerminal
    <3> QED BY <3>1, <3>2 DEF IInv, LeaseInv
  <2> QED BY <2>1, <2>2, <2>3 DEF LeaseInv
<1>9. LiveLeaseExclusive'
  BY <1>5 DEF IInv, LiveLeaseExclusive, HoldsLiveLease
<1> QED BY <1>7, <1>8, <1>9 DEF IInv

LEMMA TickIInv ==
  ASSUME IInv, Tick
  PROVE  IInv'
<1>1. /\ leases' \in [RunKeys -> Lease \cup {NoRow}]
      /\ \A k \in RunKeys :
           /\ leases'[k] = NoRow <=> leases[k] = NoRow
           /\ leases[k] # NoRow =>
                leases'[k] = [attempt |-> leases[k].attempt,
                              expires |-> Older(leases[k].expires)]
  <2>1. ASSUME NEW k \in RunKeys, leases[k] # NoRow
        PROVE  /\ [leases[k] EXCEPT !.expires = Older(@)] \in Lease
               /\ [leases[k] EXCEPT !.expires = Older(@)]
                    = [attempt |-> leases[k].attempt, expires |-> Older(leases[k].expires)]
    <3>1. leases[k] \in Lease
      BY <2>1 DEF IInv, TypeOK
    <3>2. Older(leases[k].expires) \in Instants
      BY <3>1, OlderInstants DEF Lease
    <3> QED BY <3>1, <3>2 DEF Lease
  <2> QED BY <2>1, NoRowAssumption DEF Tick
<1>2. \A w \in Workers :
        /\ worker'[w] \in WorkerState
        /\ worker'[w].pc = worker[w].pc /\ worker'[w].key = worker[w].key
        /\ worker'[w].config = worker[w].config
        /\ worker'[w].attempt = worker[w].attempt
        /\ worker[w].pc = "working" =>
             /\ worker'[w].expires = Older(worker[w].expires)
             /\ worker'[w].expires \in Int /\ worker[w].expires \in Int
             /\ worker'[w].expires <= worker[w].expires
  <2> SUFFICES ASSUME NEW w \in Workers
               PROVE  /\ worker'[w] \in WorkerState
                      /\ worker'[w].pc = worker[w].pc /\ worker'[w].key = worker[w].key
                      /\ worker'[w].config = worker[w].config
                      /\ worker'[w].attempt = worker[w].attempt
                      /\ worker[w].pc = "working" =>
                           /\ worker'[w].expires = Older(worker[w].expires)
                           /\ worker'[w].expires \in Int /\ worker[w].expires \in Int
                           /\ worker'[w].expires <= worker[w].expires
    OBVIOUS
  <2>1. /\ worker[w] \in WorkerState /\ worker[w].expires \in Instants
        /\ worker[w].now \in (-MaxDelay) .. 0
    BY DEF IInv, TypeOK, WorkerState
  <2>2. Older(worker[w].expires) \in Instants /\ Older(worker[w].expires) <= worker[w].expires
    BY <2>1, OlderInstants
  <2>3. CASE worker[w].pc = "claiming"
    <3>1. worker'[w] = [worker[w] EXCEPT !.now = @ - 1]
      BY <2>3 DEF Tick
    <3>2. worker[w].now - 1 \in (-MaxDelay) .. 0
      BY <2>1, <2>3, BoundsAssumption DEF Tick
    <3> QED BY <2>1, <2>3, <3>1, <3>2 DEF WorkerState
  <2>4. CASE worker[w].pc = "working"
    <3>1. worker'[w] = [worker[w] EXCEPT !.expires = Older(@)]
      BY <2>4 DEF Tick
    <3>2. worker'[w] \in WorkerState /\ worker'[w].expires = Older(worker[w].expires)
      BY <2>1, <2>2, <3>1 DEF WorkerState
    <3>3. worker'[w].expires \in Int /\ worker[w].expires \in Int
      BY <2>1, <2>2, <3>2, BoundsAssumption DEF Instants
    <3> QED BY <2>1, <2>2, <3>1, <3>2, <3>3 DEF WorkerState
  <2>5. CASE worker[w].pc = "idle"
    BY <2>1, <2>5 DEF Tick
  <2> QED BY <2>1, <2>3, <2>4, <2>5 DEF WorkerState
<1>3. runs' = runs /\ attempts' = attempts /\ crashes' = crashes
  BY DEF Tick
<1>4. TypeOK'
  <2>1. worker' \in [Workers -> WorkerState]
    BY <1>2 DEF Tick
  <2> QED BY <1>1, <1>3, <2>1 DEF IInv, TypeOK
<1>5. \A w \in Workers, k \in RunKeys : HoldsLiveLease(w, k)' => HoldsLiveLease(w, k)
  BY <1>2 DEF HoldsLiveLease
<1>6. LeaseInv'
  <2>1. \A w \in Workers, k \in RunKeys :
          (HoldsLiveLease(w, k) /\ ~IsTerminal(k) =>
            leases[k] = [attempt |-> worker[w].attempt, expires |-> worker[w].expires])'
    <3> SUFFICES ASSUME NEW w \in Workers, NEW k \in RunKeys,
                        HoldsLiveLease(w, k)', ~IsTerminal(k)'
                 PROVE  leases'[k] = [attempt |-> worker'[w].attempt,
                                      expires |-> worker'[w].expires]
      OBVIOUS
    <3>1. HoldsLiveLease(w, k) /\ ~IsTerminal(k)
      BY <1>3, <1>5 DEF IsTerminal
    <3>2. leases[k] = [attempt |-> worker[w].attempt, expires |-> worker[w].expires]
      BY <3>1 DEF IInv, LeaseInv
    <3>3. leases[k] # NoRow
      BY <3>1, <1>3 DEF IInv, LeaseInv, HoldsLiveLease
    <3> QED BY <1>1, <1>2, <3>1, <3>2, <3>3 DEF HoldsLiveLease
  <2> QED BY <1>1, <1>2, <1>3, <2>1 DEF IInv, LeaseInv, IsTerminal
<1>7. LiveLeaseExclusive'
  BY <1>5 DEF IInv, LiveLeaseExclusive
<1> QED BY <1>4, <1>6, <1>7 DEF IInv

-----------------------------------------------------------------------------

LEMMA StepIInv == IInv /\ [Next]_vars => IInv'
<1> SUFFICES ASSUME IInv, [Next]_vars PROVE IInv'
  OBVIOUS
<1>1. ASSUME NEW w \in Workers, NEW k \in RunKeys, NEW c \in Configs, BeginClaim(w, k, c)
      PROVE  IInv'
  BY <1>1, BeginClaimIInv
<1>2. ASSUME NEW w \in Workers, ClaimCreated(w) PROVE IInv'
  BY <1>2, ClaimCreatedIInv
<1>3. ASSUME NEW w \in Workers, ClaimRecovered(w) PROVE IInv'
  BY <1>3, ClaimRecoveredIInv
<1>4. ASSUME NEW w \in Workers, ClaimRefused(w) PROVE IInv'
  BY <1>4, GoIdle DEF ClaimRefused, IInv, TypeOK
<1>5. ASSUME NEW w \in Workers, NEW to \in RunPhases, TransitionRun(w, to) PROVE IInv'
  BY <1>5, TransitionRunIInv
<1>6. ASSUME NEW w \in Workers, NEW to \in RunPhases, TransitionRefused(w, to) PROVE IInv'
  BY <1>6, GoIdle DEF TransitionRefused, IInv, TypeOK
<1>7. ASSUME NEW w \in Workers, Crash(w) PROVE IInv'
  <2>1. crashes' \in 0 .. MaxCrashes
    BY <1>7, BoundsAssumption DEF Crash, IInv, TypeOK
  <2> QED BY <1>7, <2>1, GoIdle DEF Crash
<1>8. CASE Tick
  BY <1>8, TickIInv
<1>9. CASE UNCHANGED vars
  BY <1>9 DEF vars, IInv, TypeOK, LeaseInv, LiveLeaseExclusive, HoldsLiveLease, IsTerminal
<1> QED BY <1>1, <1>2, <1>3, <1>4, <1>5, <1>6, <1>7, <1>8, <1>9 DEF Next, Step, Work

\* IInv holds in every reachable state.
THEOREM InductiveInvariant == Spec => []IInv
<1>1. Init => IInv
  BY InitIInv
<1>2. IInv /\ [Next]_vars => IInv'
  BY StepIInv
<1> QED BY <1>1, <1>2, PTL DEF Spec

\* Every variable keeps its type, in particular the expiries of all leases
\* stay within one lease of the present.
THEOREM TypeCorrect == Spec => []TypeOK
<1>1. IInv => TypeOK
  BY DEF IInv
<1> QED BY <1>1, InductiveInvariant, PTL

\* No two processes ever hold an unexpired lease on the same run: claim_run
\* excludes them even when it runs long after its caller read the clock.
THEOREM LeaseExclusion == Spec => []LiveLeaseExclusive
<1>1. IInv => LiveLeaseExclusive
  BY DEF IInv
<1> QED BY <1>1, InductiveInvariant, PTL

-----------------------------------------------------------------------------
(* The lease row names the newest attempt *)

\* A grant numbers its attempt above all others and names it in the lease row.
LEMMA GrantKeepsNewest ==
  ASSUME IInv, LeaseTracksRun, NEW w \in Workers, NEW k \in RunKeys,
         NEW kind \in {"PRIMARY", "RECOVERY"}, NEW phase \in RunPhases,
         GrantAttempt(w, k, kind, phase)
  PROVE  \A j \in RunKeys : leases'[j] # NoRow =>
           \A a \in attempts'[j] : a.number <= leases'[j].attempt
<1>1. PICK n \in 1 .. MaxAttempts :
        /\ \A a \in attempts[k] : a.number < n
        /\ attempts' = [attempts EXCEPT ![k] = @ \cup {[number |-> n, kind |-> kind]}]
        /\ leases' = [leases EXCEPT ![k] =
             [attempt |-> n, expires |-> worker[w].now + LeaseTicks]]
  BY GrantTypes DEF IInv
<1> SUFFICES ASSUME NEW j \in RunKeys, leases'[j] # NoRow, NEW a \in attempts'[j]
             PROVE  a.number <= leases'[j].attempt
  OBVIOUS
<1>2. CASE j = k
  <2>1. leases'[j].attempt = n
    BY <1>1, <1>2 DEF IInv, TypeOK
  <2>2. a \in attempts[k] \/ a = [number |-> n, kind |-> kind]
    BY <1>1, <1>2 DEF IInv, TypeOK
  <2>3. a \in attempts[k] => a.number < n /\ a.number \in Int
    BY <1>1 DEF IInv, TypeOK, Attempt
  <2>4. n \in Int /\ [number |-> n, kind |-> kind].number = n
    BY BoundsAssumption
  <2>5. a.number <= n
    BY <2>2, <2>3, <2>4
  <2> QED BY <2>1, <2>5
<1>3. CASE j # k
  <2>1. leases'[j] = leases[j] /\ attempts'[j] = attempts[j]
    BY <1>1, <1>3 DEF IInv, TypeOK
  <2> QED BY <2>1 DEF LeaseTracksRun
<1> QED BY <1>2, <1>3

\* A run that has not ended has a lease row, that row names its newest attempt,
\* and no lease is left behind by a run that has ended.
THEOREM LeaseTracking == Spec => []LeaseTracksRun
<1>1. Init => LeaseTracksRun
  BY DEF Init, LeaseTracksRun
<1>2. IInv /\ IInv' /\ LeaseTracksRun /\ [Next]_vars => LeaseTracksRun'
  <2> SUFFICES ASSUME IInv, IInv', LeaseTracksRun, [Next]_vars
               PROVE  LeaseTracksRun'
    OBVIOUS
  <2> DEFINE Newest == \A j \in RunKeys : leases[j] # NoRow =>
                         \A a \in attempts[j] : a.number <= leases[j].attempt
  <2>1. ASSUME NEW w \in Workers, ClaimCreated(w) PROVE Newest'
    <3>1. worker[w].key \in RunKeys
      BY <2>1 DEF IInv, LeaseInv, ClaimCreated
    <3> QED BY <2>1, <3>1, GrantKeepsNewest DEF ClaimCreated, RunPhases
  <2>2. ASSUME NEW w \in Workers, ClaimRecovered(w) PROVE Newest'
    <3>1. worker[w].key \in RunKeys
      BY <2>2, RecoveryFindsNobody
    <3>2. runs[worker[w].key].phase \in RunPhases
      BY <2>2, <3>1 DEF ClaimRecovered, IInv, TypeOK, Run
    <3> QED BY <2>2, <3>1, <3>2, GrantKeepsNewest DEF ClaimRecovered
  <2>3. ASSUME NEW w \in Workers, NEW to \in RunPhases, TransitionRun(w, to) PROVE Newest'
    <3>1. /\ attempts' = attempts
          /\ leases' = leases \/ leases' = [leases EXCEPT ![worker[w].key] = NoRow]
      BY <2>3 DEF TransitionRun
    <3> QED BY <3>1 DEF LeaseTracksRun, IInv, TypeOK
  <2>4. ASSUME Tick PROVE Newest'
    <3>1. attempts' = attempts
      BY <2>4 DEF Tick
    <3>2. ASSUME NEW j \in RunKeys, leases'[j] # NoRow
          PROVE  leases[j] # NoRow /\ leases'[j].attempt = leases[j].attempt
      <4>1. leases[j] # NoRow /\ leases'[j] = [leases[j] EXCEPT !.expires = Older(@)]
        BY <2>4, <3>2 DEF Tick
      <4>2. leases[j] \in Lease
        BY <4>1 DEF IInv, TypeOK
      <4> QED BY <4>1, <4>2 DEF Lease
    <3> QED BY <3>1, <3>2 DEF LeaseTracksRun
  <2>5. ASSUME UNCHANGED <<attempts, leases>> PROVE Newest'
    BY <2>5 DEF LeaseTracksRun
  <2>6. Newest'
    BY <2>1, <2>2, <2>3, <2>4, <2>5
       DEF Next, Step, Work, vars, BeginClaim, ClaimRefused, TransitionRefused, Crash
  <2> QED BY <2>6 DEF IInv, LeaseInv, LeaseTracksRun
<1> QED BY <1>1, <1>2, InductiveInvariant, PTL DEF Spec

-----------------------------------------------------------------------------
(* Moves within the lease *)

\* A worker that moves a run while its own lease still runs is the attempt the
\* lease row names.
THEOREM LiveHolderOwns == Spec => LiveHolderMovesAsOwner
<1>1. IInv /\ [Next]_vars =>
        [\A k \in RunKeys, w \in Workers :
           /\ HoldsLiveLease(w, k)
           /\ worker'[w] # worker[w]
           /\ runs'[k] # runs[k]
           => leases[k].attempt = worker[w].attempt]_vars
  <2> SUFFICES ASSUME IInv, Next, NEW k \in RunKeys, NEW w \in Workers,
                      HoldsLiveLease(w, k), worker'[w] # worker[w], runs'[k] # runs[k]
               PROVE  leases[k].attempt = worker[w].attempt
    BY DEF vars
  <2>1. ASSUME NEW v \in Workers, ClaimCreated(v) PROVE FALSE
    <3>1. /\ worker[v].pc = "claiming"
          /\ GrantAttempt(v, worker[v].key, "PRIMARY", "CLAIMED")
          /\ worker[v].key \in RunKeys
      BY <2>1 DEF IInv, LeaseInv, ClaimCreated
    <3>2. v # w
      BY <3>1 DEF HoldsLiveLease
    <3>3. worker'[w] = worker[w]
      BY <3>1, <3>2 DEF GrantAttempt, IInv, TypeOK
    <3> QED BY <3>3
  <2>2. ASSUME NEW v \in Workers, NEW to \in RunPhases, TransitionRun(v, to)
        PROVE  leases[k].attempt = worker[w].attempt
    <3>1. v = w
      BY <2>2 DEF TransitionRun, IInv, TypeOK
    <3>2. ~IsTerminal(k)
      BY <2>2, <3>1 DEF TransitionRun, HoldsLiveLease
    <3>3. leases[k] = [attempt |-> worker[w].attempt, expires |-> worker[w].expires]
      BY <3>2 DEF IInv, LeaseInv
    <3> QED BY <3>3
  <2> QED BY <2>1, <2>2
       DEF Next, Step, Work, BeginClaim, ClaimRecovered, ClaimRefused, TransitionRefused,
           Crash, Tick
<1> QED BY <1>1, InductiveInvariant, PTL DEF Spec, LiveHolderMovesAsOwner

-----------------------------------------------------------------------------
(* Refinement *)

LEMMA AuthorityInit == Init => Authority!Init
BY DEF Init, Authority!Init, ColumnOf, LeaseIsLive

\* A grant to nobody's cost is a Grant of the authority.
LEMMA GrantIsAuthorityGrant ==
  ASSUME IInv, NEW w \in Workers, NEW k \in RunKeys,
         NEW kind \in {"PRIMARY", "RECOVERY"}, NEW phase \in RunPhases,
         GrantAttempt(w, k, kind, phase), ~LeaseIsLive(k, 0)
  PROVE  Authority!Grant(k)
<1> DEFINE granted == [j \in RunKeys |-> {a.number : a \in attempts[j]}]
           owned   == [j \in RunKeys |-> LeaseIsLive(j, 0)]
<1>1. PICK n \in 1 .. MaxAttempts :
        /\ \A a \in attempts[k] : a.number < n
        /\ attempts' = [attempts EXCEPT ![k] = @ \cup {[number |-> n, kind |-> kind]}]
        /\ leases' = [leases EXCEPT ![k] =
             [attempt |-> n, expires |-> worker[w].now + LeaseTicks]]
  BY GrantTypes DEF IInv
<1>2. n \notin granted[k]
  BY <1>1, BoundsAssumption
<1>3. granted' = [granted EXCEPT ![k] = @ \cup {n}]
  <2>1. \A j \in RunKeys : j # k => attempts'[j] = attempts[j]
    BY <1>1 DEF IInv, TypeOK
  <2>2. attempts'[k] = attempts[k] \cup {[number |-> n, kind |-> kind]}
    BY <1>1 DEF IInv, TypeOK
  <2>3. {a.number : a \in attempts'[k]} = {a.number : a \in attempts[k]} \cup {n}
    <3> DEFINE row == [number |-> n, kind |-> kind]
    <3>1. row.number = n
      OBVIOUS
    <3> HIDE DEF row
    <3>2. attempts'[k] = attempts[k] \cup {row}
      BY <2>2 DEF row
    <3> QED BY <3>1, <3>2
  <2> QED BY <2>1, <2>3
<1>4. owned' = [owned EXCEPT ![k] = LeaseIsLive(k, 0)']
  <2>1. \A j \in RunKeys : j # k => leases'[j] = leases[j]
    BY <1>1 DEF IInv, TypeOK
  <2>2. \A j \in RunKeys : j # k => LeaseIsLive(j, 0)' = LeaseIsLive(j, 0)
    BY <2>1 DEF LeaseIsLive
  <2>3. LeaseIsLive(k, 0)' \in BOOLEAN /\ \A j \in RunKeys : LeaseIsLive(j, 0) \in BOOLEAN
    BY DEF LeaseIsLive
  <2> QED BY <2>2, <2>3
<1>5. LeaseIsLive(k, 0)' \in BOOLEAN
  BY DEF LeaseIsLive
<1>6. ~owned[k]
  OBVIOUS
<1> HIDE DEF granted, owned
<1>7. /\ \E m \in (1 .. MaxAttempts) \ granted[k] :
            granted' = [granted EXCEPT ![k] = @ \cup {m}]
      /\ \E o \in BOOLEAN : owned' = [owned EXCEPT ![k] = o]
  BY <1>2, <1>3, <1>4, <1>5
<1> QED BY <1>6, <1>7 DEF Authority!Grant, granted, owned

\* The other columns of the authority, and the runs they are read from
LEMMA ColumnsFollowRuns ==
  ASSUME NEW j \in RunKeys, runs'[j] = runs[j], NEW column \in {"config", "phase"}
  PROVE  ColumnOf(j, column)' = ColumnOf(j, column)
BY DEF ColumnOf

LEMMA CreatedIsCreate ==
  ASSUME IInv, NEW w \in Workers, ClaimCreated(w),
         NEW k \in RunKeys, k = worker[w].key,
         NEW c \in Configs, c = worker[w].config
  PROVE  Authority!Create(k, c)
<1> DEFINE row == [config |-> c, phase |-> "CLAIMED"]
           config == [j \in RunKeys |-> ColumnOf(j, "config")]
           phase == [j \in RunKeys |-> ColumnOf(j, "phase")]
<1>1. /\ runs[k] = NoRow
      /\ runs' = [runs EXCEPT ![k] = row]
      /\ GrantAttempt(w, k, "PRIMARY", "CLAIMED")
  BY DEF ClaimCreated
<1>2. Authority!Grant(k)
  <2>1. ~LeaseIsLive(k, 0)
    BY <1>1 DEF IInv, LeaseInv, LeaseIsLive
  <2> QED BY <1>1, <2>1, GrantIsAuthorityGrant DEF RunPhases
<1>3. row.config = c /\ row.phase = "CLAIMED" /\ row # NoRow
  BY <1>1, NoRowAssumption DEF Run, RunPhases
<1> HIDE DEF row
<1>4. /\ runs'[k] = row
      /\ \A j \in RunKeys : j # k => runs'[j] = runs[j]
  BY <1>1 DEF IInv, TypeOK
<1>5. \A j \in RunKeys : j # k =>
        /\ ColumnOf(j, "config")' = ColumnOf(j, "config")
        /\ ColumnOf(j, "phase")' = ColumnOf(j, "phase")
  BY <1>4, ColumnsFollowRuns
<1>6. ColumnOf(k, "config")' = c /\ ColumnOf(k, "phase")' = "CLAIMED"
  BY <1>3, <1>4 DEF ColumnOf
<1>7. config' = [config EXCEPT ![k] = c]
  BY <1>5, <1>6
<1>8. phase' = [phase EXCEPT ![k] = "CLAIMED"]
  BY <1>5, <1>6
<1>9. phase[k] = NoRow
  BY <1>1 DEF ColumnOf
<1> QED BY <1>2, <1>7, <1>8, <1>9 DEF Authority!Create

LEMMA RecoveredIsTakeOver ==
  ASSUME IInv, NEW w \in Workers, ClaimRecovered(w),
         NEW k \in RunKeys, k = worker[w].key
  PROVE  Authority!TakeOver(k)
<1>1. /\ ~LeaseIsLive(k, 0)
      /\ runs[k] # NoRow /\ ~IsTerminal(k) /\ runs' = runs
      /\ GrantAttempt(w, k, "RECOVERY", runs[k].phase)
  BY RecoveryFindsNobody DEF ClaimRecovered
<1>2. runs[k].phase \in RunPhases
  BY <1>1 DEF IInv, TypeOK, Run
<1>3. Authority!Grant(k)
  BY <1>1, <1>2, GrantIsAuthorityGrant
<1>4. ColumnOf(k, "phase") \notin TerminalRunPhases \cup {NoRow}
  BY <1>1, <1>2, NoRowAssumption DEF ColumnOf, IsTerminal
<1>5. \A j \in RunKeys : /\ ColumnOf(j, "config")' = ColumnOf(j, "config")
                         /\ ColumnOf(j, "phase")' = ColumnOf(j, "phase")
  BY <1>1, ColumnsFollowRuns
<1> QED BY <1>1, <1>3, <1>4, <1>5 DEF Authority!TakeOver

LEMMA TransitionIsAdvance ==
  ASSUME IInv, NEW w \in Workers, NEW to \in RunPhases, TransitionRun(w, to),
         NEW k \in RunKeys, k = worker[w].key
  PROVE  Authority!Advance(k, to)
<1> DEFINE phase == [j \in RunKeys |-> ColumnOf(j, "phase")]
           owned == [j \in RunKeys |-> LeaseIsLive(j, 0)]
<1>1. /\ runs[k] # NoRow
      /\ IsLegalTransition(runs[k].phase, to)
      /\ runs' = [runs EXCEPT ![k].phase = to]
      /\ attempts' = attempts
      /\ leases' = IF to \in TerminalRunPhases
                   THEN [leases EXCEPT ![k] = NoRow] ELSE leases
  BY DEF TransitionRun, IInv, LeaseInv
<1>2. /\ runs[k] \in Run
      /\ runs'[k].config = runs[k].config /\ runs'[k].phase = to
      /\ runs'[k] # NoRow
      /\ \A j \in RunKeys : j # k => runs'[j] = runs[j]
  BY <1>1, NoRowAssumption DEF IInv, TypeOK, Run
<1>3. \A j \in RunKeys : ColumnOf(j, "config")' = ColumnOf(j, "config")
  BY <1>1, <1>2, ColumnsFollowRuns DEF ColumnOf
<1>4. phase' = [phase EXCEPT ![k] = to]
  <2>1. \A j \in RunKeys : j # k => ColumnOf(j, "phase")' = ColumnOf(j, "phase")
    BY <1>2, ColumnsFollowRuns
  <2>2. ColumnOf(k, "phase")' = to
    BY <1>2 DEF ColumnOf
  <2> QED BY <2>1, <2>2
<1>5. owned' = [owned EXCEPT ![k] = @ /\ to \notin TerminalRunPhases]
  <2>1. \A j \in RunKeys : j # k => LeaseIsLive(j, 0)' = LeaseIsLive(j, 0)
    BY <1>1 DEF LeaseIsLive, IInv, TypeOK
  <2>2. LeaseIsLive(k, 0)' = (LeaseIsLive(k, 0) /\ to \notin TerminalRunPhases)
    <3>1. CASE to \in TerminalRunPhases
      <4>1. leases'[k] = NoRow
        BY <1>1, <3>1 DEF IInv, TypeOK
      <4> QED BY <3>1, <4>1 DEF LeaseIsLive
    <3>2. CASE to \notin TerminalRunPhases
      BY <1>1, <3>2 DEF LeaseIsLive
    <3> QED BY <3>1, <3>2
  <2> QED BY <2>1, <2>2, Zenon
<1>6. <<phase[k], to>> \in {e \in RunPhases \X RunPhases : IsLegalTransition(e[1], e[2])}
  <2>1. runs[k].phase \in RunPhases /\ phase[k] = runs[k].phase
    BY <1>1, <1>2 DEF Run, ColumnOf
  <2> QED BY <1>1, <2>1
<1>7. \A j \in RunKeys : attempts'[j] = attempts[j]
  BY <1>1
<1> QED BY <1>3, <1>4, <1>5, <1>6, <1>7 DEF Authority!Advance

LEMMA TickIsLapse ==
  ASSUME IInv, Tick
  PROVE  Authority!Lapse
<1>1. runs' = runs /\ attempts' = attempts
  BY DEF Tick
<1>2. ASSUME NEW k \in RunKeys, LeaseIsLive(k, 0)' PROVE LeaseIsLive(k, 0)
  <2>1. /\ leases[k] # NoRow
        /\ leases'[k] = [leases[k] EXCEPT !.expires = Older(@)]
    BY <1>2 DEF LeaseIsLive, Tick
  <2>2. leases[k] \in Lease
    BY <2>1 DEF IInv, TypeOK
  <2>3. leases'[k].expires = Older(leases[k].expires) /\ leases[k].expires \in Instants
    BY <2>1, <2>2 DEF Lease
  <2>4. /\ leases[k].expires \in Int /\ leases'[k].expires \in Int
        /\ leases'[k].expires <= leases[k].expires
    BY <2>3, OlderInstants, BoundsAssumption DEF Instants
  <2> QED BY <1>2, <2>1, <2>4 DEF LeaseIsLive
<1>3. \A k \in RunKeys : LeaseIsLive(k, 0)' \in BOOLEAN
  BY DEF LeaseIsLive
<1>4. \A j \in RunKeys : /\ ColumnOf(j, "config")' = ColumnOf(j, "config")
                         /\ ColumnOf(j, "phase")' = ColumnOf(j, "phase")
  BY <1>1, ColumnsFollowRuns
<1> QED BY <1>1, <1>2, <1>3, <1>4 DEF Authority!Lapse

LEMMA AuthorityUnchanged ==
  ASSUME runs' = runs, attempts' = attempts, leases' = leases
  PROVE  UNCHANGED Authority!vars
<1>1. \A j \in RunKeys : /\ ColumnOf(j, "config")' = ColumnOf(j, "config")
                         /\ ColumnOf(j, "phase")' = ColumnOf(j, "phase")
                         /\ LeaseIsLive(j, 0)' = LeaseIsLive(j, 0)
  BY DEF ColumnOf, LeaseIsLive
<1> QED BY <1>1 DEF Authority!vars

\* Claims, leases and transitions implement RunAuthority: every step of the
\* store is a creation, a takeover, an advance, a lapse, or changes nothing of
\* what the authority promises.
THEOREM Refinement == Spec => ImplementsAuthority
<1>1. IInv /\ [Next]_vars => [Authority!Next]_(Authority!vars)
  <2> SUFFICES ASSUME IInv, [Next]_vars PROVE [Authority!Next]_(Authority!vars)
    OBVIOUS
  <2>1. ASSUME NEW w \in Workers, ClaimCreated(w) PROVE Authority!Next
    <3>1. worker[w].key \in RunKeys /\ worker[w].config \in Configs
      BY <2>1 DEF ClaimCreated, IInv, LeaseInv
    <3> QED BY <2>1, <3>1, CreatedIsCreate DEF Authority!Next
  <2>2. ASSUME NEW w \in Workers, ClaimRecovered(w) PROVE Authority!Next
    BY <2>2, RecoveredIsTakeOver, RecoveryFindsNobody DEF Authority!Next
  <2>3. ASSUME NEW w \in Workers, NEW to \in RunPhases, TransitionRun(w, to)
        PROVE  Authority!Next
    <3>1. worker[w].key \in RunKeys
      BY <2>3 DEF TransitionRun, IInv, LeaseInv
    <3> QED BY <2>3, <3>1, TransitionIsAdvance DEF Authority!Next
  <2>4. CASE Tick
    BY <2>4, TickIsLapse DEF Authority!Next
  <2>5. CASE UNCHANGED <<runs, attempts, leases>>
    BY <2>5, AuthorityUnchanged
  <2> QED BY <2>1, <2>2, <2>3, <2>4, <2>5
       DEF Next, Step, Work, vars, BeginClaim, ClaimRefused, TransitionRefused, Crash
<1> QED BY <1>1, AuthorityInit, InductiveInvariant, PTL
     DEF Spec, ImplementsAuthority, Authority!Spec

-----------------------------------------------------------------------------
(* Attempt numbers *)

\* AttemptHistory, with the finiteness its cardinalities rest on
HistoryInv == AttemptHistory /\ \A k \in RunKeys : IsFiniteSet(attempts[k])

\* MAX(attempt_number) + 1 is one more than the number of attempts.
LEMMA NextNumberCounts ==
  ASSUME TypeOK, HistoryInv, NEW k \in RunKeys, NEW n \in 1 .. MaxAttempts,
         IsNextAttemptNumber(k, n)
  PROVE  n = Cardinality(attempts[k]) + 1
<1> DEFINE numbers == {a.number : a \in attempts[k]}
           c == Cardinality(attempts[k])
<1>1. numbers = 1 .. c
  BY DEF HistoryInv, AttemptHistory
<1>2. c \in Nat
  BY FS_CardinalityType DEF HistoryInv
<1>3. /\ n = 1 \/ n - 1 \in numbers
      /\ \A m \in numbers : m < n
  BY DEF IsNextAttemptNumber
<1>4. n \in Int
  BY BoundsAssumption
<1> HIDE DEF numbers, c
<1>5. n - 1 = c
  BY <1>1, <1>2, <1>3, <1>4
<1> QED BY <1>5, <1>2, <1>4 DEF c

\* A grant extends the history by its next number.
LEMMA GrantKeepsHistory ==
  ASSUME IInv, HistoryInv, NEW w \in Workers, NEW k \in RunKeys,
         NEW kind \in {"PRIMARY", "RECOVERY"}, NEW phase \in RunPhases,
         GrantAttempt(w, k, kind, phase),
         kind = "PRIMARY" <=> runs[k] = NoRow,
         runs'[k] # NoRow, \A j \in RunKeys : j # k => runs'[j] = runs[j]
  PROVE  HistoryInv'
<1>1. PICK n \in 1 .. MaxAttempts :
        /\ IsNextAttemptNumber(k, n)
        /\ \A a \in attempts[k] : a.number < n
        /\ attempts' = [attempts EXCEPT ![k] = @ \cup {[number |-> n, kind |-> kind]}]
  BY GrantTypes DEF IInv
<1> DEFINE row == [number |-> n, kind |-> kind]
           c == Cardinality(attempts[k])
<1>2. n = c + 1 /\ c \in Nat /\ IsFiniteSet(attempts[k])
  BY <1>1, NextNumberCounts, FS_CardinalityType DEF IInv, HistoryInv
<1>3. row.number = n /\ row.kind = kind
  OBVIOUS
<1>4. /\ attempts'[k] = attempts[k] \cup {row}
      /\ \A j \in RunKeys : j # k => attempts'[j] = attempts[j]
  BY <1>1 DEF IInv, TypeOK
<1>5. row \notin attempts[k]
  BY <1>1, <1>2, <1>3
<1> HIDE DEF row
<1>6. /\ IsFiniteSet(attempts'[k])
      /\ Cardinality(attempts'[k]) = c + 1
  <2>1. /\ IsFiniteSet(attempts[k] \cup {row})
        /\ Cardinality(attempts[k] \cup {row}) = c + 1
    BY <1>2, <1>5, FS_AddElement
  <2> QED BY <1>4, <2>1
<1>7. {a.number : a \in attempts'[k]} = 1 .. Cardinality(attempts'[k])
  <2>1. {a.number : a \in attempts'[k]} = {a.number : a \in attempts[k]} \cup {n}
    BY <1>3, <1>4
  <2>2. {a.number : a \in attempts[k]} = 1 .. c
    BY DEF HistoryInv, AttemptHistory
  <2>3. (1 .. c) \cup {c + 1} = 1 .. (c + 1)
    BY <1>2
  <2> QED BY <2>1, <2>2, <2>3, <1>2, <1>6
<1>8. kind = "PRIMARY" <=> n = 1
  <2>1. runs[k] = NoRow <=> attempts[k] = {}
    BY DEF HistoryInv, AttemptHistory
  <2>2. attempts[k] = {} <=> c = 0
    BY <1>2, FS_EmptySet
  <2> QED BY <1>2, <2>1, <2>2
<1>9. \A a \in attempts'[k] : a.kind = "PRIMARY" <=> a.number = 1
  BY <1>3, <1>4, <1>8 DEF HistoryInv, AttemptHistory
<1>10. \A j \in RunKeys : j # k =>
         /\ attempts'[j] = attempts[j]
         /\ runs'[j] = NoRow <=> runs[j] = NoRow
  BY <1>4
<1> QED BY <1>4, <1>6, <1>7, <1>9, <1>10 DEF HistoryInv, AttemptHistory

\* The attempts of every run are numbered 1, 2, 3, ... without a gap or a
\* repetition, the first one and no other is primary, and a run without a row
\* has none.
THEOREM AttemptNumbering == Spec => []AttemptHistory
<1>1. Init => HistoryInv
  BY FS_EmptySet, BoundsAssumption DEF Init, HistoryInv, AttemptHistory
<1>2. IInv /\ HistoryInv /\ [Next]_vars => HistoryInv'
  <2> SUFFICES ASSUME IInv, HistoryInv, [Next]_vars PROVE HistoryInv'
    OBVIOUS
  <2>1. ASSUME NEW w \in Workers, ClaimCreated(w) PROVE HistoryInv'
    <3>1. PICK k \in RunKeys : k = worker[w].key
      BY <2>1 DEF ClaimCreated, IInv, LeaseInv
    <3>2. PICK c \in Configs : c = worker[w].config
      BY <2>1 DEF ClaimCreated, IInv, LeaseInv
    <3>3. /\ runs[k] = NoRow
          /\ runs' = [runs EXCEPT ![k] = [config |-> c, phase |-> "CLAIMED"]]
          /\ GrantAttempt(w, k, "PRIMARY", "CLAIMED")
          /\ "CLAIMED" \in RunPhases
      BY <2>1, <3>1, <3>2 DEF ClaimCreated, RunPhases
    <3>4. [config |-> c, phase |-> "CLAIMED"] # NoRow
      BY <3>3, NoRowAssumption DEF Run
    <3>5. runs'[k] # NoRow /\ \A j \in RunKeys : j # k => runs'[j] = runs[j]
      BY <3>3, <3>4 DEF IInv, TypeOK
    <3> QED BY <3>3, <3>5, GrantKeepsHistory
  <2>2. ASSUME NEW w \in Workers, ClaimRecovered(w) PROVE HistoryInv'
    <3>1. PICK k \in RunKeys : k = worker[w].key
      BY <2>2, RecoveryFindsNobody
    <3>2. /\ runs[k] # NoRow /\ runs' = runs
          /\ GrantAttempt(w, k, "RECOVERY", runs[k].phase)
      BY <2>2, <3>1 DEF ClaimRecovered
    <3>3. runs[k].phase \in RunPhases
      BY <3>2 DEF IInv, TypeOK, Run
    <3> QED BY <3>2, <3>3, GrantKeepsHistory
  <2>3. ASSUME NEW w \in Workers, NEW to \in RunPhases, TransitionRun(w, to)
        PROVE  HistoryInv'
    <3>1. PICK k \in RunKeys : k = worker[w].key
      BY <2>3 DEF TransitionRun, IInv, LeaseInv
    <3>2. /\ runs[k] \in Run /\ attempts' = attempts
          /\ runs' = [runs EXCEPT ![k].phase = to]
      BY <2>3, <3>1 DEF TransitionRun, IInv, LeaseInv, TypeOK
    <3>3. [runs[k] EXCEPT !.phase = to] # NoRow
      BY <3>2, NoRowAssumption DEF Run
    <3>4. \A j \in RunKeys : runs'[j] = NoRow <=> runs[j] = NoRow
      BY <3>2, <3>3, NoRowAssumption DEF IInv, TypeOK
    <3> QED BY <3>2, <3>4 DEF HistoryInv, AttemptHistory
  <2>4. CASE UNCHANGED <<runs, attempts>>
    BY <2>4 DEF HistoryInv, AttemptHistory
  <2> QED BY <2>1, <2>2, <2>3, <2>4
       DEF Next, Step, Work, vars, BeginClaim, ClaimRefused, TransitionRefused, Crash, Tick
<1>3. HistoryInv => AttemptHistory
  BY DEF HistoryInv
<1> QED BY <1>1, <1>2, <1>3, InductiveInvariant, PTL DEF Spec

=============================================================================
