------------------------- MODULE DecisionInvocation -------------------------
(***************************************************************************)
(* One bounded LLM decision per market run: DecisionCoordinator.run_decision*)
(* (runtime/decision.py), RecordedLLMDecisionProvider.decide               *)
(* (strategies/llm_provider.py), the LLM journal (strategies/llm_journal.py)*)
(* and the decision_invocations table of RuntimeStore (runtime/store.py).  *)
(*                                                                         *)
(* Each access to the journal, to runtime.sqlite, to the Keychain and to   *)
(* the network is a step of its own; a worker may die between any two.     *)
(* The journal is a DuckDB file that one process at a time can open, and   *)
(* that the threads of one process can share: the variable shared says     *)
(* which of the two the callers are.                                       *)
(***************************************************************************)
EXTENDS Naturals, FiniteSets

CONSTANTS
  Workers,        \* callers of run_decision
  Runs,           \* run ids
  Fingerprints,   \* request fingerprints
  RequestsOf,     \* RequestsOf[s][r]: the requests callers may present for run r,
                  \* when they share the journal (s) and when they do not
  Times,          \* the values of the caller's `now`
  WakeTime,       \* the `now` of the wake whose threads share the journal
  Answers,        \* valid provider responses; decision_id is a digest of one
  MaxCrashes,     \* bound on the number of crashes
  None            \* an absent row, or an unset local

ASSUME BoundsAssumption ==
  /\ RequestsOf \in [BOOLEAN -> [Runs -> SUBSET Fingerprints]]
  /\ WakeTime \in Times
  /\ MaxCrashes \in Nat

Statuses ==
  {"SEND_INTENT_RECORDED", "NEEDS_RECONCILIATION", "DECISION_RECORDED",
   "ABANDONED_NO_ORDER"}

Outcomes == {"RESUMED", "DECIDED", "FAILED_PRE_SEND", "NEEDS_RECONCILIATION"}

Invocation == [status : Statuses, fp : Fingerprints, decision : Answers \cup {None}]

\* A canonical decision: its identity is the answer, its payload has the time
Decision == [answer : Answers, at : Times]

\* An invocation attempt; its identity is the run and the time it began
JournalAttempt ==
  [run : Runs, at : Times, fp : Fingerprints, answer : Answers \cup {None}]

ASSUME NoneAssumption ==
  None \notin Invocation \cup Decision \cup Answers \cup Runs \cup Fingerprints
              \cup Times \cup Outcomes

VARIABLES
  invocations,      \* runtime.sqlite: table decision_invocations, by run
  reconciliations,  \* runtime.sqlite: the runs in reconciliation_records
  decisions,        \* journal: table llm_decision_records, by fingerprint
  attempts,         \* journal: table llm_invocation_attempts
  worker,           \* each caller: program counter, arguments, locals, result
  sent,             \* how many requests of a run may have left the process
  crashes,
  shared            \* may several workers have the journal open at once?

vars == <<invocations, reconciliations, decisions, attempts, worker, sent, crashes,
          shared>>
storeVars == <<invocations, reconciliations>>
journalVars == <<decisions, attempts>>

PCs == {"idle", "lookup", "inspect", "credential", "begin", "send", "waiting",
        "append", "record", "failing", "failed", "ambiguous"}

WorkerState ==
  [pc : PCs, run : Runs \cup {None}, fp : Fingerprints \cup {None},
   at : Times \cup {None}, answer : Answers \cup {None},
   outcome : Outcomes \cup {None}]

Idle == [pc |-> "idle", run |-> None, fp |-> None, at |-> None,
         answer |-> None, outcome |-> None]

TypeOK ==
  /\ invocations \in [Runs -> Invocation \cup {None}]
  /\ reconciliations \subseteq Runs
  /\ decisions \in [Fingerprints -> Decision \cup {None}]
  /\ attempts \subseteq JournalAttempt
  /\ worker \in [Workers -> WorkerState]
  /\ sent \in [Runs -> Nat]
  /\ crashes \in 0 .. MaxCrashes
  /\ shared \in BOOLEAN

Init ==
  /\ invocations = [r \in Runs |-> None]
  /\ reconciliations = {}
  /\ decisions = [f \in Fingerprints |-> None]
  /\ attempts = {}
  /\ worker = [w \in Workers |-> Idle]
  /\ sent = [r \in Runs |-> 0]
  /\ crashes = 0
  /\ shared \in BOOLEAN

HasStatus(r, status) == invocations[r] # None /\ invocations[r].status = status

Goto(w, from, to) ==
  /\ worker[w].pc = from
  /\ worker' = [worker EXCEPT ![w].pc = to]

\* run_decision returns: the caller keeps the request, outcome and decision.
Return(w, from, outcome, answer) ==
  /\ worker[w].pc = from
  /\ worker' = [worker EXCEPT ![w] =
       [Idle EXCEPT !.fp = worker[w].fp, !.answer = answer, !.outcome = outcome]]

-----------------------------------------------------------------------------
(* run_decision, up to the provider *)

Call(w, r, f, t) ==
  /\ worker[w].pc = "idle"
  /\ f \in RequestsOf[shared][r]
  /\ shared => t = WakeTime
  /\ shared \/ \A v \in Workers : worker[v].pc = "idle"
  /\ worker' = [worker EXCEPT ![w] =
       [Idle EXCEPT !.pc = "lookup", !.run = r, !.fp = f, !.at = t]]
  /\ UNCHANGED <<storeVars, journalVars, sent, crashes, shared>>

\* 1. Fingerprint-first lookup.
LookupDecision(w) ==
  LET found == decisions[worker[w].fp]
  IN  /\ worker[w].pc = "lookup"
      /\ IF found # None THEN Return(w, "lookup", "RESUMED", found.answer)
                         ELSE Goto(w, "lookup", "inspect")
      /\ UNCHANGED <<storeVars, journalVars, sent, crashes, shared>>

\* Mutant: a prior send intent is taken for a retry.
InspectInvocation_IntentRetried(w) ==
  /\ Goto(w, "inspect", "credential")
  /\ UNCHANGED <<storeVars, journalVars, sent, crashes, shared>>

\* 2. A prior SEND_INTENT without a canonical decision is ambiguity.
InspectInvocation(w) ==
  /\ worker[w].pc = "inspect"
  /\ IF HasStatus(worker[w].run, "SEND_INTENT_RECORDED")
     THEN Goto(w, "inspect", "ambiguous")
     ELSE Goto(w, "inspect", "credential")
  /\ UNCHANGED <<storeVars, journalVars, sent, crashes, shared>>

\* Mutant: the ambiguity is reported and not written down.
MarkNeedsReconciliation_Unwritten(w) ==
  /\ Return(w, "ambiguous", "NEEDS_RECONCILIATION", None)
  /\ UNCHANGED <<storeVars, journalVars, sent, crashes, shared>>

\* mark_needs_reconciliation moves the row only if it is still a send intent;
\* the caller answers NEEDS_RECONCILIATION either way.
MarkNeedsReconciliation(w) ==
  LET r == worker[w].run
  IN  /\ worker[w].pc = "ambiguous"
      /\ invocations[r] # None
      /\ invocations' =
           IF HasStatus(r, "SEND_INTENT_RECORDED")
           THEN [invocations EXCEPT ![r].status = "NEEDS_RECONCILIATION"]
           ELSE invocations
      /\ Return(w, "ambiguous", "NEEDS_RECONCILIATION", None)
      /\ UNCHANGED <<reconciliations, journalVars, sent, crashes, shared>>

\* 3. The Keychain read.
ReadCredential(w) ==
  /\ \/ Goto(w, "credential", "begin")
     \/ Return(w, "credential", "FAILED_PRE_SEND", None)
  /\ UNCHANGED <<storeVars, journalVars, sent, crashes, shared>>

-----------------------------------------------------------------------------
(* RecordedLLMDecisionProvider.decide *)

\* mark_send_intent: a first marker, or the same marker again
MayMarkSendIntent(r, f) ==
  invocations[r] # None =>
    invocations[r].status = "SEND_INTENT_RECORDED" /\ invocations[r].fp = f

\* Mutant: the run id is stored in the place of the fingerprint.
MarkSendIntent_Swapped(w) ==
  LET r == worker[w].run
  IN  /\ worker[w].pc = "begin"
      /\ MayMarkSendIntent(r, worker[w].fp)
      /\ invocations' = [invocations EXCEPT ![r] =
           [status |-> "SEND_INTENT_RECORDED", fp |-> r, decision |-> None]]
      /\ Goto(w, "begin", "send")
      /\ UNCHANGED <<reconciliations, journalVars, sent, crashes, shared>>

\* The callback that runs just before the request may leave the process
MarkSendIntent(w) ==
  LET r == worker[w].run
      f == worker[w].fp
  IN  /\ worker[w].pc = "begin"
      /\ MayMarkSendIntent(r, f)
      /\ invocations' =
           IF invocations[r] = None
           THEN [invocations EXCEPT ![r] =
                  [status |-> "SEND_INTENT_RECORDED", fp |-> f, decision |-> None]]
           ELSE invocations
      /\ Goto(w, "begin", "send")
      /\ UNCHANGED <<reconciliations, journalVars, sent, crashes, shared>>

\* The model policy refuses the request, the store refuses the marker, or the
\* marker transaction fails.
FailBeforeSend(w) ==
  /\ Goto(w, "begin", "failing")
  /\ UNCHANGED <<storeVars, journalVars, sent, crashes, shared>>

\* transport.invoke lets the request out ...
Send(w) ==
  /\ Goto(w, "send", "waiting")
  /\ sent' = [sent EXCEPT ![worker[w].run] = @ + 1]
  /\ UNCHANGED <<storeVars, journalVars, crashes, shared>>

\* ... and returns a response that passes every check,
Receive(w, a) ==
  /\ worker[w].pc = "waiting"
  /\ worker' = [worker EXCEPT ![w].pc = "append", ![w].answer = a]
  /\ UNCHANGED <<storeVars, journalVars, sent, crashes, shared>>

\* or the transport fails, with or without having sent, or the response has
\* the wrong identity, schema or envelope.
FailTransport(w) ==
  /\ Goto(w, "send", "failing") \/ Goto(w, "waiting", "failing")
  /\ UNCHANGED <<storeVars, journalVars, sent, crashes, shared>>

\* The attempt row of this call with the given answer (None when it failed)
AttemptOf(w, answer) ==
  [run |-> worker[w].run, at |-> worker[w].at, fp |-> worker[w].fp, answer |-> answer]

\* The same attempt identity must not reappear with another payload.
AttemptFits(row) ==
  \A a \in attempts : a.run = row.run /\ a.at = row.at => a = row

\* Mutant: a second decision for a fingerprint replaces the first.
DecisionFits_Replaced(f, d, row) == row \in attempts => decisions[f] = d

\* The same fingerprint or decision identity must not reappear with another
\* payload, nor a stored attempt without its decision.
DecisionFits(f, d, row) ==
  /\ decisions[f] \in {None, d}
  /\ row \in attempts => decisions[f] = d

\* append_attempt of a SUCCESS attempt and its decision, one transaction
AppendDecision(w) ==
  LET f == worker[w].fp
      d == [answer |-> worker[w].answer, at |-> worker[w].at]
      row == AttemptOf(w, worker[w].answer)
  IN  /\ Goto(w, "append", "record")
      /\ AttemptFits(row)
      /\ DecisionFits(f, d, row)
      /\ attempts' = attempts \cup {row}
      /\ decisions' = [decisions EXCEPT ![f] = d]
      /\ UNCHANGED <<storeVars, sent, crashes, shared>>

\* Mutant: a refused append is ignored and the answer used all the same.
AppendRefused_Ignored(w) ==
  /\ Goto(w, "append", "record")
  /\ UNCHANGED <<storeVars, journalVars, sent, crashes, shared>>

\* A conflict, or a failed write, is LLMProviderError(AUDIT_PERSISTENCE).
AppendRefused(w) ==
  /\ Goto(w, "append", "failed")
  /\ UNCHANGED <<storeVars, journalVars, sent, crashes, shared>>

\* _fail appends a failed attempt, if the journal takes it, and raises.
AppendFailure(w) ==
  LET row == AttemptOf(w, None)
  IN  /\ Goto(w, "failing", "failed")
      /\ \/ AttemptFits(row) /\ attempts' = attempts \cup {row}
         \/ UNCHANGED attempts
      /\ UNCHANGED <<storeVars, decisions, sent, crashes, shared>>

-----------------------------------------------------------------------------
(* run_decision, after the provider *)

\* except LLMProviderError: look at the invocation again
HandleProviderError(w) ==
  /\ worker[w].pc = "failed"
  /\ IF HasStatus(worker[w].run, "SEND_INTENT_RECORDED")
     THEN Goto(w, "failed", "ambiguous")
     ELSE Return(w, "failed", "FAILED_PRE_SEND", None)
  /\ UNCHANGED <<storeVars, journalVars, sent, crashes, shared>>

\* 5. record_decision; StoreError reaches the caller, who gets no result.
RecordDecision(w) ==
  LET r == worker[w].run
      d == worker[w].answer
  IN  /\ worker[w].pc = "record"
      /\ \/ /\ HasStatus(r, "SEND_INTENT_RECORDED")
            /\ invocations' = [invocations EXCEPT
                 ![r] = [@ EXCEPT !.status = "DECISION_RECORDED", !.decision = d]]
            /\ Return(w, "record", "DECIDED", d)
         \/ /\ HasStatus(r, "DECISION_RECORDED")
            /\ invocations[r].decision = d
            /\ Return(w, "record", "DECIDED", d)
            /\ UNCHANGED invocations
         \/ /\ ~HasStatus(r, "SEND_INTENT_RECORDED")
            /\ HasStatus(r, "DECISION_RECORDED") => invocations[r].decision # d
            /\ Return(w, "record", None, None)
            /\ UNCHANGED invocations
      /\ UNCHANGED <<reconciliations, journalVars, sent, crashes, shared>>

-----------------------------------------------------------------------------
(* Operator and environment *)

\* Mutant: a run may be abandoned while its send intent is still open.
Abandon_OpenIntent(r) ==
  /\ HasStatus(r, "NEEDS_RECONCILIATION") \/ HasStatus(r, "SEND_INTENT_RECORDED")
  /\ invocations' = [invocations EXCEPT ![r].status = "ABANDONED_NO_ORDER"]
  /\ reconciliations' = reconciliations \cup {r}
  /\ UNCHANGED <<journalVars, worker, sent, crashes, shared>>

\* reconcile_abandon: only a run that needs reconciliation
Abandon(r) ==
  /\ HasStatus(r, "NEEDS_RECONCILIATION")
  /\ invocations' = [invocations EXCEPT ![r].status = "ABANDONED_NO_ORDER"]
  /\ reconciliations' = reconciliations \cup {r}
  /\ UNCHANGED <<journalVars, worker, sent, crashes, shared>>

\* The process dies, or an unexpected exception ends the call.  A process that
\* dies takes all its threads along: what crashes do is the business of
\* callers that do not share the journal.
Crash(w) ==
  /\ worker[w].pc # "idle"
  /\ ~shared
  /\ crashes < MaxCrashes
  /\ crashes' = crashes + 1
  /\ worker' = [worker EXCEPT ![w] = Idle]
  /\ UNCHANGED <<storeVars, journalVars, sent, shared>>

\* What a caller that is inside run_decision does next, in program order.
Work(w) ==
  \/ LookupDecision(w) \/ InspectInvocation(w) \/ MarkNeedsReconciliation(w)
  \/ ReadCredential(w) \/ MarkSendIntent(w) \/ FailBeforeSend(w)
  \/ Send(w) \/ FailTransport(w)
  \/ \E a \in Answers : Receive(w, a)
  \/ AppendDecision(w) \/ AppendRefused(w) \/ AppendFailure(w)
  \/ HandleProviderError(w) \/ RecordDecision(w)

Step(w) ==
  \/ \E r \in Runs, f \in Fingerprints, t \in Times : Call(w, r, f, t)
  \/ Work(w)

Next ==
  \/ \E w \in Workers : Step(w) \/ Crash(w)
  \/ \E r \in Runs : Abandon(r)

Spec == Init /\ [][Next]_vars

\* A call that has begun and does not die goes on.  Nobody promises that a run
\* is ever presented again, nor that the operator acts.
FairSpec == Spec /\ \A w \in Workers : WF_vars(Work(w))

-----------------------------------------------------------------------------
(* Properties *)

\* While one process at a time has the journal open, no run ever sends a second
\* request to the model, whatever the crashes, retries and reconciliations
\* (docs/designs/2026-08-12-unattended-dual-market-paper-runtime-design.md:379,
\* "never automatically").
SentOnce == \A r \in Runs : sent[r] <= 1
SendAtMostOnce == ~shared => SentOnce

\* A request that may have left the process is never forgotten: the run has a
\* row saying so, and that row claims a decision only if the journal holds a
\* successful attempt of this very run with that answer.
SendIsOnRecord ==
  \A r \in Runs : sent[r] > 0 =>
    /\ invocations[r] # None
    /\ invocations[r].status = "DECISION_RECORDED" =>
         \E a \in attempts : a.run = r /\ a.answer = invocations[r].decision

\* The decision a run records is the canonical one of its request.
RecordedIsCanonical ==
  \A r \in Runs : HasStatus(r, "DECISION_RECORDED") =>
    /\ decisions[invocations[r].fp] # None
    /\ decisions[invocations[r].fp].answer = invocations[r].decision

\* A canonical decision has a successful attempt behind it, and no successful
\* attempt contradicts it: the two journal tables never drift apart.
JournalAudit ==
  /\ \A f \in Fingerprints : decisions[f] # None =>
       \E a \in attempts : a.fp = f /\ a.at = decisions[f].at
                                    /\ a.answer = decisions[f].answer
  /\ \A a \in attempts : a.answer # None =>
       decisions[a.fp] = [answer |-> a.answer, at |-> a.at]

\* The two databases and the two tables of the journal tell one story.
JournalsAgree == RecordedIsCanonical /\ JournalAudit

\* Two callers that are given a decision for one request are given the same.
CallersAgree ==
  \A v, w \in Workers :
    /\ {worker[v].outcome, worker[w].outcome} \subseteq {"DECIDED", "RESUMED"}
    /\ worker[v].fp = worker[w].fp
    => worker[v].answer = worker[w].answer

\* A decision abandoned by the operator is never imported afterwards: the run
\* has its reconciliation record and, while one process at a time has the
\* journal open, the journal holds no successful attempt of that run.
AbandonedStaysUndecided ==
  \A r \in Runs : HasStatus(r, "ABANDONED_NO_ORDER") =>
    /\ r \in reconciliations
    /\ ~shared => ~\E a \in attempts : a.run = r /\ a.answer # None

\* The row of a run never says less than what happened to it, nor more: a request
\* that may have left is on record (SendIsOnRecord, decision.py run_decision), and
\* an abandonment is the end of it (AbandonedStaysUndecided, abandon_decision).
InvocationsAreTrue == SendIsOnRecord /\ AbandonedStaysUndecided

\* What the memory of a caller says about the two databases: a marker that was
\* written stays the marker of this request, and an answer on its way to the
\* caller is the canonical one.
LocalsAgree(s) ==
  /\ s.pc # "idle" => /\ s.run \in Runs /\ s.fp \in Fingerprints /\ s.at \in Times
                      /\ s.outcome = None
  /\ s.pc \in {"append", "record"} => s.answer \in Answers
  /\ s.pc \in {"send", "waiting", "append", "record"} =>
       invocations[s.run] # None /\ invocations[s.run].fp = s.fp
  /\ s.pc = "record" \/ s.outcome \in {"DECIDED", "RESUMED"} =>
       /\ s.fp \in Fingerprints
       /\ decisions[s.fp] # None
       /\ decisions[s.fp].answer = s.answer

LocalsInv == \A w \in Workers : LocalsAgree(worker[w])

\* A call that may still send has found the journal without a decision and the
\* run without an open send intent, and the run has not sent.
FreshCall(w) ==
  /\ worker[w].pc \in {"inspect", "credential"} => decisions[worker[w].fp] = None
  /\ worker[w].pc \in {"credential", "begin"} =>
       ~HasStatus(worker[w].run, "SEND_INTENT_RECORDED")
  /\ worker[w].pc = "send" => sent[worker[w].run] = 0

\* While one process at a time has the journal open: every call that may still
\* send is fresh, and a request that has gone out has left its row.
SingleCallInv ==
  /\ \A v, w \in Workers : v # w => worker[v].pc = "idle" \/ worker[w].pc = "idle"
  /\ \A r \in Runs : sent[r] > 0 => invocations[r] # None
  /\ \A w \in Workers : FreshCall(w)

\* No call leaves an open send intent behind, its own or one that a crash or a
\* failed write left earlier (run_decision): whatever fails on the way, and
\* whoever calls or abandons at the same time, the run ends up marked or its
\* decision turns out to be canonical, unless a process dies again.
IntentIsExplained ==
  \A r \in Runs, c \in 0 .. MaxCrashes :
    /\ HasStatus(r, "SEND_INTENT_RECORDED")
    /\ crashes = c
    /\ \E w \in Workers : worker[w].run = r
    ~> \/ invocations[r] # None /\ decisions[invocations[r].fp] # None
       \/ ~HasStatus(r, "SEND_INTENT_RECORDED")
       \/ crashes > c

=============================================================================
