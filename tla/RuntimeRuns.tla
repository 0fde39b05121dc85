---------------------------- MODULE RuntimeRuns ----------------------------
(***************************************************************************)
(* Run claims, leases and the run state machine of RuntimeStore            *)
(* (src/src/stock_agent/runtime/store.py and state.py), used by several    *)
(* worker processes that share one runtime.sqlite file.                    *)
(*                                                                         *)
(* Every store operation is one BEGIN IMMEDIATE .. COMMIT transaction and  *)
(* is one action here.  What is not atomic is the caller: it reads its     *)
(* clock before the claim transaction starts, it keeps the claimed run in  *)
(* memory while other processes move the row, and it may die anywhere.     *)
(*                                                                         *)
(* Instants are kept relative to the present: 0 is now, positive instants  *)
(* are in the future.  Tick moves the present, so it shifts every stored   *)
(* instant one step into the past, down to -MaxDelay: no comparison the    *)
(* code makes tells two older instants apart.                              *)
(***************************************************************************)
EXTENDS Integers, FiniteSets

CONSTANTS
  Workers,      \* processes that run the agent against one runtime.sqlite
  RunKeys,      \* run_key_for(identity): market, account, session, strategy
  Configs,      \* run_config_digest_for(identity)
  LeaseTicks,   \* lease_seconds
  MaxDelay,     \* ticks between reading the clock and the claim transaction
  MaxAttempts,  \* bound on the attempts of one run
  MaxCrashes,   \* bound on the number of process crashes
  NoRow         \* an absent row, or an unset local

ASSUME BoundsAssumption ==
  /\ LeaseTicks \in Nat \ {0}
  /\ MaxDelay \in Nat
  /\ MaxAttempts \in Nat \ {0}
  /\ MaxCrashes \in Nat

TerminalRunPhases ==
  {"SKIPPED_NOT_SESSION", "SKIPPED_TOO_EARLY", "MISSED_DECISION_DEADLINE",
   "FAILED_BEFORE_DECISION", "DATA_INCOMPLETE", "FAILED_DECISION_PRE_SEND",
   "NEEDS_RECONCILIATION", "FAILED_AFTER_DECISION", "SUCCEEDED"}

RunPhases ==
  TerminalRunPhases \cup
  {"DISCOVERED", "CLAIMED", "SNAPSHOT_FROZEN", "CREDENTIAL_READY",
   "SEND_INTENT_RECORDED", "DECISION_RECORDED", "ORDERS_PERSISTED"}

RunTransitions ==
  [ DISCOVERED           |-> {"SKIPPED_NOT_SESSION", "SKIPPED_TOO_EARLY",
                              "MISSED_DECISION_DEADLINE", "CLAIMED"},
    CLAIMED              |-> {"FAILED_BEFORE_DECISION", "DATA_INCOMPLETE",
                              "SNAPSHOT_FROZEN"},
    SNAPSHOT_FROZEN      |-> {"CREDENTIAL_READY"},
    CREDENTIAL_READY     |-> {"FAILED_DECISION_PRE_SEND",
                              "SEND_INTENT_RECORDED"},
    SEND_INTENT_RECORDED |-> {"FAILED_DECISION_PRE_SEND",
                              "NEEDS_RECONCILIATION", "DECISION_RECORDED"},
    DECISION_RECORDED    |-> {"FAILED_AFTER_DECISION", "ORDERS_PERSISTED"},
    ORDERS_PERSISTED     |-> {"SUCCEEDED"} ]

IsLegalTransition(from, to) ==
  from \in DOMAIN RunTransitions /\ to \in RunTransitions[from]

Instants  == (-MaxDelay) .. LeaseTicks
Run       == [config : Configs, phase : RunPhases]
Attempt   == [number : 1 .. MaxAttempts, kind : {"PRIMARY", "RECOVERY"}]
Lease     == [attempt : 1 .. MaxAttempts, expires : Instants]

ASSUME NoRowAssumption ==
  NoRow \notin Run \cup Lease \cup RunKeys \cup Configs \cup RunPhases \cup Nat

VARIABLES
  runs,      \* table runs: one row per run key
  attempts,  \* table run_attempts: the rows of each run
  leases,    \* table leases: at most one row per run
  worker,    \* each process: what it is doing and what it holds in memory
  crashes    \* number of crashes so far

vars == <<runs, attempts, leases, worker, crashes>>

Idle ==
  [pc |-> "idle", key |-> NoRow, config |-> NoRow, now |-> 0,
   attempt |-> 0, expires |-> 0, view |-> NoRow]

WorkerState ==
  [pc : {"idle", "claiming", "working"}, key : RunKeys \cup {NoRow},
   config : Configs \cup {NoRow}, now : (-MaxDelay) .. 0,
   attempt : 0 .. MaxAttempts, expires : Instants,
   view : RunPhases \cup {NoRow}]

TypeOK ==
  /\ runs \in [RunKeys -> Run \cup {NoRow}]
  /\ attempts \in [RunKeys -> SUBSET Attempt]
  /\ leases \in [RunKeys -> Lease \cup {NoRow}]
  /\ worker \in [Workers -> WorkerState]
  /\ crashes \in 0 .. MaxCrashes

Init ==
  /\ runs = [k \in RunKeys |-> NoRow]
  /\ attempts = [k \in RunKeys |-> {}]
  /\ leases = [k \in RunKeys |-> NoRow]
  /\ worker = [w \in Workers |-> Idle]
  /\ crashes = 0

-----------------------------------------------------------------------------
(* claim_run *)

\* SELECT MAX(attempt_number), plus 1: n is the first number above every row
IsNextAttemptNumber(k, n) ==
  /\ n = 1 \/ \E a \in attempts[k] : a.number = n - 1
  /\ \A a \in attempts[k] : a.number < n

IsTerminal(k) == runs[k].phase \in TerminalRunPhases

\* Mutant: a lease never runs out.
LeaseIsLive_Forever(k, now) == leases[k] # NoRow

\* lease is not None and lease[0] > now, with the caller's own reading of now
LeaseIsLive(k, now) == leases[k] # NoRow /\ leases[k].expires > now

\* Mutant: the lease is granted for one tick too many.
LeaseExpiry_TickTooLong(now) == now + LeaseTicks + 1

\* lease_expires_at = now + lease_seconds
LeaseExpiry(now) == now + LeaseTicks

\* INSERT the attempt, INSERT OR REPLACE the lease, hand both to the caller
GrantAttempt(w, k, kind, phase) ==
  \E n \in 1 .. MaxAttempts :
    LET expires == LeaseExpiry(worker[w].now)
    IN  /\ IsNextAttemptNumber(k, n)
        /\ attempts' = [attempts EXCEPT ![k] = @ \cup {[number |-> n, kind |-> kind]}]
        /\ leases' = [leases EXCEPT ![k] = [attempt |-> n, expires |-> expires]]
        /\ worker' = [worker EXCEPT ![w] =
             [@ EXCEPT !.pc = "working", !.now = 0, !.attempt = n,
                       !.expires = expires, !.view = phase]]

\* The process wakes for a run identity and reads its clock.
BeginClaim(w, k, c) ==
  /\ worker[w].pc = "idle"
  /\ worker' = [worker EXCEPT ![w] =
       [Idle EXCEPT !.pc = "claiming", !.key = k, !.config = c]]
  /\ UNCHANGED <<runs, attempts, leases, crashes>>

\* ClaimOutcome.CREATED
ClaimCreated(w) ==
  LET k == worker[w].key
  IN  /\ worker[w].pc = "claiming"
      /\ runs[k] = NoRow
      /\ runs' = [runs EXCEPT ![k] = [config |-> worker[w].config, phase |-> "CLAIMED"]]
      /\ GrantAttempt(w, k, "PRIMARY", "CLAIMED")
      /\ UNCHANGED crashes

\* Mutant: a recovery does not look at the lease.
ClaimRecovered_LeaseIgnored(w) ==
  LET k == worker[w].key
  IN  /\ worker[w].pc = "claiming"
      /\ runs[k] # NoRow
      /\ runs[k].config = worker[w].config
      /\ ~IsTerminal(k)
      /\ GrantAttempt(w, k, "RECOVERY", runs[k].phase)
      /\ UNCHANGED <<runs, crashes>>

\* Mutant: a run that has ended is recovered too.
ClaimRecovered_EndedToo(w) ==
  LET k == worker[w].key
  IN  /\ worker[w].pc = "claiming"
      /\ runs[k] # NoRow
      /\ runs[k].config = worker[w].config
      /\ ~LeaseIsLive(k, worker[w].now)
      /\ GrantAttempt(w, k, "RECOVERY", runs[k].phase)
      /\ UNCHANGED <<runs, crashes>>

\* ClaimOutcome.RECOVERED
ClaimRecovered(w) ==
  LET k == worker[w].key
  IN  /\ worker[w].pc = "claiming"
      /\ runs[k] # NoRow
      /\ runs[k].config = worker[w].config
      /\ ~IsTerminal(k)
      /\ ~LeaseIsLive(k, worker[w].now)
      /\ GrantAttempt(w, k, "RECOVERY", runs[k].phase)
      /\ UNCHANGED <<runs, crashes>>

\* RunConflictError, LeaseHeldError, or RESUMED with no attempt: the caller
\* holds nothing and the transaction changes nothing.
ClaimRefused(w) ==
  LET k == worker[w].key
  IN  /\ worker[w].pc = "claiming"
      /\ runs[k] # NoRow
      /\ \/ runs[k].config # worker[w].config
         \/ IsTerminal(k)
         \/ LeaseIsLive(k, worker[w].now)
      /\ worker' = [worker EXCEPT ![w] = Idle]
      /\ UNCHANGED <<runs, attempts, leases, crashes>>

-----------------------------------------------------------------------------
(* transition_run *)

\* The caller asks for a successor of the phase it believes the run is in; the
\* store checks the persisted phase only, never the lease.
TransitionRun(w, to) ==
  LET k == worker[w].key
  IN  /\ worker[w].pc = "working"
      /\ IsLegalTransition(worker[w].view, to)
      /\ ~IsTerminal(k)
      /\ IsLegalTransition(runs[k].phase, to)
      /\ runs' = [runs EXCEPT ![k].phase = to]
      /\ IF to \in TerminalRunPhases
         THEN /\ leases' = [leases EXCEPT ![k] = NoRow]
              /\ worker' = [worker EXCEPT ![w] = Idle]
         ELSE /\ worker' = [worker EXCEPT ![w].view = to]
              /\ UNCHANGED leases
      /\ UNCHANGED <<attempts, crashes>>

\* StoreError: terminal run, or a transition illegal from the persisted phase.
TransitionRefused(w, to) ==
  LET k == worker[w].key
  IN  /\ worker[w].pc = "working"
      /\ IsLegalTransition(worker[w].view, to)
      /\ IsTerminal(k) \/ ~IsLegalTransition(runs[k].phase, to)
      /\ worker' = [worker EXCEPT ![w] = Idle]
      /\ UNCHANGED <<runs, attempts, leases, crashes>>

-----------------------------------------------------------------------------
(* Environment *)

Crash(w) ==
  /\ worker[w].pc # "idle"
  /\ crashes < MaxCrashes
  /\ crashes' = crashes + 1
  /\ worker' = [worker EXCEPT ![w] = Idle]
  /\ UNCHANGED <<runs, attempts, leases>>

Older(i) == IF i > -MaxDelay THEN i - 1 ELSE i

Tick ==
  /\ \A w \in Workers : worker[w].pc = "claiming" => worker[w].now > -MaxDelay
  /\ leases' = [k \in RunKeys |->
       IF leases[k] = NoRow THEN NoRow
       ELSE [leases[k] EXCEPT !.expires = Older(@)]]
  /\ worker' = [w \in Workers |->
       CASE worker[w].pc = "claiming" -> [worker[w] EXCEPT !.now = @ - 1]
         [] worker[w].pc = "working"  -> [worker[w] EXCEPT !.expires = Older(@)]
         [] OTHER                     -> worker[w]]
  /\ UNCHANGED <<runs, attempts, crashes>>

\* What a process that has woken does next, in program order.
Work(w) ==
  \/ ClaimCreated(w)
  \/ ClaimRecovered(w)
  \/ ClaimRefused(w)
  \/ \E to \in RunPhases : TransitionRun(w, to)
  \/ \E to \in RunPhases : TransitionRefused(w, to)

Step(w) ==
  \/ \E k \in RunKeys, c \in Configs : BeginClaim(w, k, c)
  \/ Work(w)

Next ==
  \/ \E w \in Workers : Step(w)
  \/ \E w \in Workers : Crash(w)
  \/ Tick

Spec == Init /\ [][Next]_vars

\* A process that has woken and is not killed runs on.  Nobody promises that a
\* run is ever presented again: a wake presents the session of its own day only.
FairSpec == Spec /\ \A w \in Workers : WF_vars(Work(w))

-----------------------------------------------------------------------------
(* Properties *)

\* A worker that believes, by its own clock, that it owns the run now.
HoldsLiveLease(w, k) ==
  worker[w].pc = "working" /\ worker[w].key = k /\ worker[w].expires > 0

\* No two processes hold an unexpired lease on the same run, however late
\* their claim transactions run after they read the clock, and however the
\* crashes and recoveries fall.
LiveLeaseExclusive ==
  \A k \in RunKeys, w1, w2 \in Workers :
    HoldsLiveLease(w1, k) /\ HoldsLiveLease(w2, k) => w1 = w2

\* The lease row of a run is there exactly while the run has not ended; a
\* process busy with a run holds arguments and locals of that run; and an
\* unexpired lease in memory is the lease in the table, as long as the run has
\* not ended.  This is what makes LiveLeaseExclusive inductive.
LeaseInv ==
  /\ \A k \in RunKeys : leases[k] # NoRow <=> runs[k] # NoRow /\ ~IsTerminal(k)
  /\ \A w \in Workers :
       /\ worker[w].pc = "claiming" =>
            worker[w].key \in RunKeys /\ worker[w].config \in Configs
       /\ worker[w].pc = "working" =>
            /\ worker[w].key \in RunKeys
            /\ runs[worker[w].key] # NoRow
            /\ worker[w].attempt \in 1 .. MaxAttempts
  /\ \A w \in Workers, k \in RunKeys :
       HoldsLiveLease(w, k) /\ ~IsTerminal(k) =>
         leases[k] = [attempt |-> worker[w].attempt, expires |-> worker[w].expires]

\* A run that has not ended always has a lease row for its newest attempt, so
\* it can be recovered; a run that has ended has none left behind.
LeaseTracksRun ==
  \A k \in RunKeys :
    /\ leases[k] # NoRow <=> runs[k] # NoRow /\ ~IsTerminal(k)
    /\ leases[k] # NoRow =>
         \A a \in attempts[k] : a.number <= leases[k].attempt

\* The attempts of a run are numbered without a gap, and one primary attempt
\* is followed by recoveries only: no claim is lost or counted twice.
AttemptHistory ==
  \A k \in RunKeys :
    /\ {a.number : a \in attempts[k]} = 1 .. Cardinality(attempts[k])
    /\ \A a \in attempts[k] : a.kind = "PRIMARY" <=> a.number = 1
    /\ runs[k] = NoRow <=> attempts[k] = {}

\* A worker that moves a run while its own lease still runs moves it as the
\* attempt the lease row names: no recovery has come in between, however old
\* the clock reading was that either of them brought to its claim.
LiveHolderMovesAsOwner ==
  [][\A k \in RunKeys, w \in Workers :
       /\ HoldsLiveLease(w, k)
       /\ worker'[w] # worker[w]
       /\ runs'[k] # runs[k]
       => leases[k].attempt = worker[w].attempt]_vars

\* While one process holds an active, unexpired lease on a run, no other
\* process changes the run (docs/plans/2026-08-12-unattended-dual-market-
\* paper-runtime.md:132).
ActiveLeaseBlocksSecondWorker ==
  [][\A k \in RunKeys, w1, w2 \in Workers :
       /\ w1 # w2
       /\ HoldsLiveLease(w1, k)
       /\ worker'[w2] # worker[w2]
       => runs'[k] = runs[k]]_vars

HasEnded(k) == runs[k] # NoRow /\ IsTerminal(k)

\* A process that is at the phase the run is in, or that is about to claim the
\* run under its configuration with no lease in the way.
InCharge(w, k) ==
  /\ worker[w].key = k
  /\ \/ worker[w].pc = "working" /\ worker[w].view = runs[k].phase
     \/ /\ worker[w].pc = "claiming"
        /\ \/ runs[k] = NoRow
           \/ /\ runs[k].config = worker[w].config
              /\ leases[k] # NoRow /\ leases[k].expires <= worker[w].now

\* A run some process is in charge of ends unless a process is killed, however
\* many others take it over when a lease runs out, are refused, or move it with
\* an expired lease: a lease that is over keeps nobody out, and no sequence of
\* takeovers and refusals leaves the run to nobody.
EveryRunEnds ==
  \A k \in RunKeys, c \in 0 .. MaxCrashes :
    (crashes = c /\ \E w \in Workers : InCharge(w, k)) ~> (HasEnded(k) \/ crashes > c)

-----------------------------------------------------------------------------
(* Refinement *)

ColumnOf(k, column) == IF runs[k] = NoRow THEN NoRow ELSE runs[k][column]

Authority == INSTANCE RunAuthority WITH
  Phases  <- RunPhases,
  First   <- "CLAIMED",
  Ended   <- TerminalRunPhases,
  Edges   <- {e \in RunPhases \X RunPhases : IsLegalTransition(e[1], e[2])},
  Numbers <- 1 .. MaxAttempts,
  Absent  <- NoRow,
  config  <- [k \in RunKeys |-> ColumnOf(k, "config")],
  phase   <- [k \in RunKeys |-> ColumnOf(k, "phase")],
  granted <- [k \in RunKeys |-> {a.number : a \in attempts[k]}],
  owned   <- [k \in RunKeys |-> LeaseIsLive(k, 0)]

\* The claims, leases and transitions implement the authority they stand for:
\* in particular a recovery never starts while the previous lease still runs,
\* although it judges the lease by a clock it read earlier.
ImplementsAuthority == Authority!Spec

=============================================================================
