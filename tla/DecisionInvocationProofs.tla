---------------------- MODULE DecisionInvocationProofs ----------------------
(***************************************************************************)
(* Proofs about DecisionInvocation for every number of callers, runs,      *)
(* requests and answers.  What concerns the canonical decision holds       *)
(* whether or not the journal is shared; that a run sends at most once is  *)
(* proved for a journal one process at a time can open.                    *)
(***************************************************************************)
EXTENDS DecisionInvocation, TLAPS

\* The inductive invariant of the two databases and the callers' memories.
IInv == TypeOK /\ LocalsInv /\ JournalAudit /\ RecordedIsCanonical

\* What no step undoes: a row keeps its request, a canonical decision stays.
RowsKept ==
  /\ \A r \in Runs : invocations[r] # None =>
       invocations'[r] # None /\ invocations'[r].fp = invocations[r].fp
  /\ \A f \in Fingerprints : decisions[f] # None => decisions'[f] = decisions[f]

LEMMA IdleFits == Idle \in WorkerState /\ LocalsAgree(Idle)
BY NoneAssumption DEF Idle, WorkerState, PCs, LocalsAgree, Outcomes

LEMMA InitIInv == Init => IInv
<1> SUFFICES ASSUME Init PROVE IInv
  OBVIOUS
<1>1. TypeOK
  BY IdleFits, BoundsAssumption DEF Init, TypeOK
<1>2. LocalsInv
  BY IdleFits DEF Init, LocalsInv
<1>3. JournalAudit /\ RecordedIsCanonical
  BY DEF Init, JournalAudit, RecordedIsCanonical, HasStatus
<1> QED BY <1>1, <1>2, <1>3 DEF IInv

\* A step is safe when it undoes nothing and leaves its own caller, the
\* journal and the recorded decisions in agreement.
LEMMA StepKeepsIInv ==
  ASSUME IInv, TypeOK', RowsKept, NEW w \in Workers, NEW s,
         worker' = [worker EXCEPT ![w] = s], LocalsAgree(s)',
         JournalAudit', RecordedIsCanonical'
  PROVE  IInv' /\ RowsKept
<1> SUFFICES ASSUME NEW v \in Workers PROVE LocalsAgree(worker[v])'
  BY DEF IInv, LocalsInv
<1>1. CASE v = w
  BY <1>1 DEF IInv, TypeOK
<1>2. CASE v # w
  <2>1. worker'[v] = worker[v] /\ LocalsAgree(worker[v])
    BY <1>2 DEF IInv, TypeOK, LocalsInv
  <2> QED BY <2>1 DEF LocalsAgree, RowsKept
<1> QED BY <1>1, <1>2

\* Most steps only change the memory of their caller.
LEMMA MemoryStep ==
  ASSUME IInv, NEW w \in Workers, NEW s \in WorkerState, LocalsAgree(s),
         worker' = [worker EXCEPT ![w] = s],
         UNCHANGED <<storeVars, journalVars>>,
         sent' \in [Runs -> Nat], crashes' \in 0 .. MaxCrashes, shared' \in BOOLEAN
  PROVE  IInv' /\ RowsKept
<1>1. TypeOK'
  BY DEF IInv, TypeOK, storeVars, journalVars
<1>2. RowsKept /\ LocalsAgree(s)'
  BY DEF RowsKept, LocalsAgree, storeVars, journalVars
<1>3. JournalAudit' /\ RecordedIsCanonical'
  BY DEF IInv, JournalAudit, RecordedIsCanonical, HasStatus, storeVars, journalVars
<1> QED BY <1>1, <1>2, <1>3, StepKeepsIInv

\* A jump keeps every local and changes the program counter.
LEMMA GotoState ==
  ASSUME IInv, NEW w \in Workers, NEW from \in PCs, NEW to \in PCs, Goto(w, from, to)
  PROVE  /\ LocalsAgree(worker[w]) /\ worker[w].pc = from
         /\ \E s \in WorkerState :
              /\ s.pc = to /\ s.run = worker[w].run /\ s.fp = worker[w].fp
              /\ s.at = worker[w].at /\ s.answer = worker[w].answer
              /\ s.outcome = worker[w].outcome
              /\ worker' = [worker EXCEPT ![w] = s]
<1> DEFINE s == [worker[w] EXCEPT !.pc = to]
<1>1. worker[w] \in WorkerState
  BY DEF IInv, TypeOK
<1>2. /\ s \in WorkerState
      /\ s.pc = to /\ s.run = worker[w].run /\ s.fp = worker[w].fp
      /\ s.at = worker[w].at /\ s.answer = worker[w].answer
      /\ s.outcome = worker[w].outcome
  BY <1>1 DEF WorkerState
<1>3. worker' = [worker EXCEPT ![w] = s]
  BY DEF Goto
<1> HIDE DEF s
<1> QED BY <1>2, <1>3 DEF IInv, LocalsInv, Goto

LEMMA ReturnState ==
  ASSUME IInv, NEW w \in Workers, NEW from \in PCs \ {"idle"},
         NEW outcome \in Outcomes \cup {None}, NEW answer \in Answers \cup {None},
         Return(w, from, outcome, answer)
  PROVE  \E s \in WorkerState :
           /\ s.pc = "idle" /\ s.fp = worker[w].fp
           /\ s.answer = answer /\ s.outcome = outcome
           /\ worker' = [worker EXCEPT ![w] = s]
<1> DEFINE s == [Idle EXCEPT !.fp = worker[w].fp, !.answer = answer, !.outcome = outcome]
<1>1. worker[w] \in WorkerState
  BY DEF IInv, TypeOK
<1>2. /\ s \in WorkerState
      /\ s.pc = "idle" /\ s.fp = worker[w].fp
      /\ s.answer = answer /\ s.outcome = outcome
  BY <1>1 DEF WorkerState, PCs, Idle
<1>3. worker' = [worker EXCEPT ![w] = s]
  BY DEF Return
<1> HIDE DEF s
<1> QED BY <1>2, <1>3

\* A jump that promises no more about the databases than the caller knew.
LEMMA PlainGoto ==
  ASSUME IInv, NEW w \in Workers, NEW from \in PCs \ {"idle", "record"},
         NEW to \in PCs \ {"idle", "record"}, Goto(w, from, to),
         to \in {"send", "waiting", "append"} => from \in {"send", "waiting", "append"},
         to # "append",
         UNCHANGED <<storeVars, journalVars>>,
         sent' \in [Runs -> Nat], crashes' \in 0 .. MaxCrashes, shared' \in BOOLEAN
  PROVE  IInv'
<1>1. LocalsAgree(worker[w]) /\ worker[w].pc = from
  BY GotoState
<1>2. PICK s \in WorkerState :
        /\ s.pc = to /\ s.run = worker[w].run /\ s.fp = worker[w].fp
        /\ s.at = worker[w].at /\ s.answer = worker[w].answer
        /\ s.outcome = worker[w].outcome
        /\ worker' = [worker EXCEPT ![w] = s]
  BY GotoState
<1>3. LocalsAgree(s)
  BY <1>1, <1>2, NoneAssumption DEF LocalsAgree, Outcomes
<1> QED BY <1>2, <1>3, MemoryStep

\* A return without a decision promises nothing.
LEMMA EmptyReturn ==
  ASSUME IInv, NEW w \in Workers, NEW from \in PCs \ {"idle"},
         NEW outcome \in {None, "FAILED_PRE_SEND", "NEEDS_RECONCILIATION"},
         Return(w, from, outcome, None)
  PROVE  \E s \in WorkerState :
           /\ worker' = [worker EXCEPT ![w] = s]
           /\ LocalsAgree(s) /\ LocalsAgree(s)'
<1>a. outcome \in Outcomes \cup {None} /\ None \in Answers \cup {None}
  BY DEF Outcomes
<1>1. PICK s \in WorkerState :
        /\ s.pc = "idle" /\ s.outcome = outcome
        /\ worker' = [worker EXCEPT ![w] = s]
  BY <1>a, ReturnState
<1>2. LocalsAgree(s) /\ LocalsAgree(s)'
  BY <1>1, NoneAssumption DEF LocalsAgree, Outcomes
<1> QED BY <1>1, <1>2

-----------------------------------------------------------------------------
(* One lemma per step *)

LEMMA CallIInv ==
  ASSUME IInv, NEW w \in Workers, NEW r \in Runs, NEW f \in Fingerprints, NEW t \in Times,
         Call(w, r, f, t)
  PROVE  IInv'
<1> DEFINE s == [Idle EXCEPT !.pc = "lookup", !.run = r, !.fp = f, !.at = t]
<1>1. /\ s \in WorkerState
      /\ s.pc = "lookup" /\ s.run = r /\ s.fp = f /\ s.at = t /\ s.outcome = None
  BY DEF Idle, WorkerState, PCs
<1>2. /\ worker' = [worker EXCEPT ![w] = s]
      /\ UNCHANGED <<storeVars, journalVars>>
      /\ sent' \in [Runs -> Nat] /\ crashes' \in 0 .. MaxCrashes /\ shared' \in BOOLEAN
  BY DEF Call, IInv, TypeOK
<1> HIDE DEF s
<1>3. LocalsAgree(s)
  BY <1>1, NoneAssumption DEF LocalsAgree, Outcomes
<1> QED BY <1>1, <1>2, <1>3, MemoryStep

LEMMA LookupIInv ==
  ASSUME IInv, NEW w \in Workers, LookupDecision(w)
  PROVE  IInv'
<1>1. /\ UNCHANGED <<storeVars, journalVars>>
      /\ sent' \in [Runs -> Nat] /\ crashes' \in 0 .. MaxCrashes /\ shared' \in BOOLEAN
      /\ worker[w].pc = "lookup"
  BY DEF LookupDecision, IInv, TypeOK
<1>2. PICK f \in Fingerprints : f = worker[w].fp
  BY <1>1 DEF IInv, LocalsInv, LocalsAgree
<1>3. CASE decisions[f] # None
  <2>1. PICK answer \in Answers : answer = decisions[f].answer
    BY <1>3 DEF IInv, TypeOK, Decision
  <2>2. Return(w, "lookup", "RESUMED", answer)
    BY <1>2, <1>3, <2>1 DEF LookupDecision
  <2>a. "lookup" \in PCs \ {"idle"} /\ "RESUMED" \in Outcomes
    BY DEF PCs, Outcomes
  <2>3. PICK s \in WorkerState :
          /\ s.pc = "idle" /\ s.fp = f /\ s.answer = answer
          /\ worker' = [worker EXCEPT ![w] = s]
    BY <1>2, <2>a, <2>2, ReturnState
  <2>4. LocalsAgree(s)
    BY <1>3, <2>1, <2>3 DEF LocalsAgree
  <2> QED BY <1>1, <2>3, <2>4, MemoryStep
<1>4. CASE decisions[f] = None
  BY <1>1, <1>2, <1>4, PlainGoto DEF LookupDecision, PCs
<1> QED BY <1>3, <1>4

LEMMA InspectIInv ==
  ASSUME IInv, NEW w \in Workers, InspectInvocation(w)
  PROVE  IInv'
<1>1. /\ UNCHANGED <<storeVars, journalVars>>
      /\ sent' \in [Runs -> Nat] /\ crashes' \in 0 .. MaxCrashes /\ shared' \in BOOLEAN
  BY DEF InspectInvocation, IInv, TypeOK
<1>2. Goto(w, "inspect", "ambiguous") \/ Goto(w, "inspect", "credential")
  BY DEF InspectInvocation
<1> QED BY <1>1, <1>2, PlainGoto DEF PCs

LEMMA CredentialIInv ==
  ASSUME IInv, NEW w \in Workers, ReadCredential(w)
  PROVE  IInv'
<1>1. /\ UNCHANGED <<storeVars, journalVars>>
      /\ sent' \in [Runs -> Nat] /\ crashes' \in 0 .. MaxCrashes /\ shared' \in BOOLEAN
  BY DEF ReadCredential, IInv, TypeOK
<1>2. CASE Goto(w, "credential", "begin")
  BY <1>1, <1>2, PlainGoto DEF PCs
<1>3. CASE Return(w, "credential", "FAILED_PRE_SEND", None)
  BY <1>1, <1>3, EmptyReturn, MemoryStep DEF PCs
<1> QED BY <1>2, <1>3 DEF ReadCredential

LEMMA PlainStepsIInv ==
  ASSUME IInv, NEW w \in Workers,
         FailBeforeSend(w) \/ Send(w) \/ FailTransport(w) \/ AppendRefused(w)
  PROVE  IInv'
<1>1. UNCHANGED <<storeVars, journalVars>> /\ crashes' \in 0 .. MaxCrashes /\ shared' \in BOOLEAN
  BY DEF FailBeforeSend, Send, FailTransport, AppendRefused, IInv, TypeOK
<1>2. sent' \in [Runs -> Nat]
  BY DEF FailBeforeSend, Send, FailTransport, AppendRefused, IInv, TypeOK
<1>3. \/ Goto(w, "begin", "failing") \/ Goto(w, "send", "waiting")
      \/ Goto(w, "send", "failing") \/ Goto(w, "waiting", "failing")
      \/ Goto(w, "append", "failed")
  BY DEF FailBeforeSend, Send, FailTransport, AppendRefused
<1> QED BY <1>1, <1>2, <1>3, PlainGoto DEF PCs

LEMMA ReceiveIInv ==
  ASSUME IInv, NEW w \in Workers, NEW a \in Answers, Receive(w, a)
  PROVE  IInv'
<1> DEFINE s == [worker[w] EXCEPT !.pc = "append", !.answer = a]
<1>1. /\ worker[w] \in WorkerState /\ LocalsAgree(worker[w]) /\ worker[w].pc = "waiting"
      /\ UNCHANGED <<storeVars, journalVars>>
      /\ sent' \in [Runs -> Nat] /\ crashes' \in 0 .. MaxCrashes /\ shared' \in BOOLEAN
  BY DEF Receive, IInv, TypeOK, LocalsInv
<1>2. worker' = [worker EXCEPT ![w] = s]
  BY DEF Receive, IInv, TypeOK
<1>3. /\ s \in WorkerState /\ s.pc = "append" /\ s.answer = a
      /\ s.run = worker[w].run /\ s.fp = worker[w].fp /\ s.at = worker[w].at
      /\ s.outcome = worker[w].outcome
  BY <1>1 DEF WorkerState, PCs
<1> HIDE DEF s
<1>4. LocalsAgree(s)
  BY <1>1, <1>3, NoneAssumption DEF LocalsAgree, Outcomes
<1> QED BY <1>1, <1>2, <1>3, <1>4, MemoryStep

LEMMA HandleErrorIInv ==
  ASSUME IInv, NEW w \in Workers, HandleProviderError(w)
  PROVE  IInv'
<1>1. /\ UNCHANGED <<storeVars, journalVars>>
      /\ sent' \in [Runs -> Nat] /\ crashes' \in 0 .. MaxCrashes /\ shared' \in BOOLEAN
  BY DEF HandleProviderError, IInv, TypeOK
<1>2. CASE Goto(w, "failed", "ambiguous")
  BY <1>1, <1>2, PlainGoto DEF PCs
<1>3. CASE Return(w, "failed", "FAILED_PRE_SEND", None)
  BY <1>1, <1>3, EmptyReturn, MemoryStep DEF PCs
<1> QED BY <1>2, <1>3 DEF HandleProviderError

LEMMA CrashIInv ==
  ASSUME IInv, NEW w \in Workers, Crash(w)
  PROVE  IInv'
<1>1. /\ UNCHANGED <<storeVars, journalVars>>
      /\ sent' \in [Runs -> Nat] /\ crashes' \in 0 .. MaxCrashes /\ shared' \in BOOLEAN
      /\ worker' = [worker EXCEPT ![w] = Idle]
  BY BoundsAssumption DEF Crash, IInv, TypeOK
<1> QED BY <1>1, IdleFits, MemoryStep

\* The store moves one row on and keeps its request.
LEMMA MoveRow ==
  ASSUME IInv, NEW r \in Runs, invocations[r] # None,
         NEW row \in Invocation, row.fp = invocations[r].fp,
         row.status = "DECISION_RECORDED" =>
           decisions[row.fp] # None /\ decisions[row.fp].answer = row.decision,
         invocations' = [invocations EXCEPT ![r] = row],
         UNCHANGED journalVars
  PROVE  /\ invocations' \in [Runs -> Invocation \cup {None}]
         /\ RowsKept /\ RecordedIsCanonical' /\ JournalAudit'
<1>1. /\ invocations'[r] = row /\ row # None
      /\ \A q \in Runs : q # r => invocations'[q] = invocations[q]
      /\ decisions' = decisions /\ attempts' = attempts
  BY NoneAssumption DEF IInv, TypeOK, journalVars
<1>2. invocations' \in [Runs -> Invocation \cup {None}]
  BY DEF IInv, TypeOK
<1>3. RowsKept
  BY <1>1 DEF RowsKept
<1>4. RecordedIsCanonical'
  BY <1>1 DEF IInv, RecordedIsCanonical, HasStatus
<1>5. JournalAudit'
  BY <1>1 DEF IInv, JournalAudit
<1> QED BY <1>2, <1>3, <1>4, <1>5

LEMMA ReconcileIInv ==
  ASSUME IInv, NEW w \in Workers, MarkNeedsReconciliation(w)
  PROVE  IInv' /\ RowsKept
<1>1. /\ UNCHANGED <<reconciliations, journalVars>> /\ journalVars' = journalVars
      /\ sent' \in [Runs -> Nat] /\ crashes' \in 0 .. MaxCrashes /\ shared' \in BOOLEAN
      /\ Return(w, "ambiguous", "NEEDS_RECONCILIATION", None)
      /\ worker[w].pc = "ambiguous"
  BY DEF MarkNeedsReconciliation, IInv, TypeOK
<1>2. PICK r \in Runs : r = worker[w].run
  BY <1>1 DEF IInv, LocalsInv, LocalsAgree
<1>3. PICK s \in WorkerState : worker' = [worker EXCEPT ![w] = s]
                               /\ LocalsAgree(s) /\ LocalsAgree(s)'
  BY <1>1, EmptyReturn DEF PCs
<1>4. CASE HasStatus(r, "SEND_INTENT_RECORDED")
  <2> DEFINE row == [invocations[r] EXCEPT !.status = "NEEDS_RECONCILIATION"]
  <2>1. invocations[r] # None /\ invocations[r] \in Invocation
    BY <1>4 DEF HasStatus, IInv, TypeOK
  <2>2. row \in Invocation /\ row.fp = invocations[r].fp /\ row.status = "NEEDS_RECONCILIATION"
    BY <2>1 DEF Invocation, Statuses
  <2>3. invocations' = [invocations EXCEPT ![r] = row]
    BY <1>2, <1>4 DEF MarkNeedsReconciliation
  <2> HIDE DEF row
  <2>4. /\ invocations' \in [Runs -> Invocation \cup {None}]
        /\ RowsKept /\ RecordedIsCanonical' /\ JournalAudit'
    BY <1>1, <2>1, <2>2, <2>3, MoveRow
  <2>5. TypeOK'
    BY <1>1, <1>3, <2>4 DEF IInv, TypeOK, journalVars
  <2> QED BY <1>3, <2>4, <2>5, StepKeepsIInv
<1>5. CASE ~HasStatus(r, "SEND_INTENT_RECORDED")
  <2>1. UNCHANGED <<storeVars, journalVars>>
    BY <1>1, <1>2, <1>5 DEF MarkNeedsReconciliation, storeVars
  <2> QED BY <1>1, <1>3, <2>1, MemoryStep
<1> QED BY <1>4, <1>5

LEMMA SendIntentIInv ==
  ASSUME IInv, NEW w \in Workers, MarkSendIntent(w)
  PROVE  IInv' /\ RowsKept
<1>1. /\ UNCHANGED reconciliations /\ UNCHANGED journalVars
      /\ sent' \in [Runs -> Nat] /\ crashes' \in 0 .. MaxCrashes /\ shared' \in BOOLEAN
      /\ Goto(w, "begin", "send") /\ worker[w].pc = "begin"
  BY DEF MarkSendIntent, Goto, IInv, TypeOK
<1>2. PICK r \in Runs : r = worker[w].run
  BY <1>1 DEF IInv, LocalsInv, LocalsAgree
<1>3. PICK f \in Fingerprints : f = worker[w].fp
  BY <1>1 DEF IInv, LocalsInv, LocalsAgree
<1> DEFINE row == [status |-> "SEND_INTENT_RECORDED", fp |-> f, decision |-> None]
<1>4. row \in Invocation /\ row # None /\ row.fp = f /\ row.status = "SEND_INTENT_RECORDED"
  BY NoneAssumption DEF Invocation, Statuses
<1>a. LocalsAgree(worker[w])
  BY DEF IInv, LocalsInv
<1>5. PICK s \in WorkerState :
        /\ s.pc = "send" /\ s.run = r /\ s.fp = f /\ s.at = worker[w].at
        /\ s.outcome = worker[w].outcome
        /\ worker' = [worker EXCEPT ![w] = s]
  BY <1>1, <1>2, <1>3, GotoState DEF PCs
<1>6. \/ invocations[r] = None /\ invocations' = [invocations EXCEPT ![r] = row]
      \/ invocations[r] # None /\ invocations[r].fp = f /\ invocations' = invocations
  BY <1>2, <1>3 DEF MarkSendIntent, MayMarkSendIntent
<1> HIDE DEF row
<1>7. /\ invocations'[r] # None /\ invocations'[r].fp = f
      /\ \A q \in Runs : q # r => invocations'[q] = invocations[q]
      /\ invocations[r] # None => invocations'[r] = invocations[r]
      /\ invocations[r] = None => invocations'[r].status = "SEND_INTENT_RECORDED"
      /\ invocations' \in [Runs -> Invocation \cup {None}]
  BY <1>4, <1>6 DEF IInv, TypeOK
<1>8. TypeOK'
  BY <1>1, <1>5, <1>7 DEF IInv, TypeOK, journalVars
<1>9. RowsKept
  BY <1>1, <1>7 DEF RowsKept, journalVars
<1>10. LocalsAgree(s)'
  BY <1>1, <1>a, <1>5, <1>7, NoneAssumption DEF LocalsAgree, Outcomes
<1>11. JournalAudit' /\ RecordedIsCanonical'
  BY <1>1, <1>7 DEF IInv, JournalAudit, RecordedIsCanonical, HasStatus, journalVars
<1> QED BY <1>5, <1>8, <1>9, <1>10, <1>11, StepKeepsIInv

LEMMA AppendDecisionIInv ==
  ASSUME IInv, NEW w \in Workers, AppendDecision(w)
  PROVE  IInv'
<1>1. /\ UNCHANGED storeVars
      /\ sent' \in [Runs -> Nat] /\ crashes' \in 0 .. MaxCrashes /\ shared' \in BOOLEAN
      /\ Goto(w, "append", "record") /\ worker[w].pc = "append"
      /\ LocalsAgree(worker[w])
  BY DEF AppendDecision, Goto, IInv, TypeOK, LocalsInv
<1>2. PICK f \in Fingerprints : f = worker[w].fp
  BY <1>1 DEF LocalsAgree
<1>3. PICK answer \in Answers : answer = worker[w].answer
  BY <1>1 DEF LocalsAgree
<1>4. PICK at \in Times : at = worker[w].at
  BY <1>1 DEF LocalsAgree
<1>5. PICK r \in Runs : r = worker[w].run
  BY <1>1 DEF LocalsAgree
<1> DEFINE d == [answer |-> answer, at |-> at]
           row == [run |-> r, at |-> at, fp |-> f, answer |-> answer]
<1>6. /\ decisions[f] \in {None, d}
      /\ attempts' = attempts \cup {row}
      /\ decisions' = [decisions EXCEPT ![f] = d]
  BY <1>2, <1>3, <1>4, <1>5 DEF AppendDecision, AttemptOf, DecisionFits
<1>7. /\ d \in Decision /\ d # None /\ d.answer = answer /\ d.at = at
      /\ row \in JournalAttempt
      /\ row.fp = f /\ row.at = at /\ row.answer = answer
  BY NoneAssumption DEF Decision, JournalAttempt
<1>8. PICK s \in WorkerState :
        /\ s.pc = "record" /\ s.run = r /\ s.fp = f /\ s.at = at /\ s.answer = answer
        /\ s.outcome = worker[w].outcome
        /\ worker' = [worker EXCEPT ![w] = s]
  BY <1>1, <1>2, <1>3, <1>4, <1>5, GotoState DEF PCs
<1> HIDE DEF d, row
<1>9. /\ decisions'[f] = d
      /\ \A g \in Fingerprints : g # f => decisions'[g] = decisions[g]
      /\ decisions' \in [Fingerprints -> Decision \cup {None}]
  BY <1>6, <1>7 DEF IInv, TypeOK
<1>10. TypeOK'
  BY <1>1, <1>6, <1>7, <1>8, <1>9 DEF IInv, TypeOK, storeVars
<1>11. RowsKept
  BY <1>1, <1>6, <1>9 DEF RowsKept, storeVars
<1>12. LocalsAgree(s)'
  BY <1>1, <1>2, <1>5, <1>7, <1>8, <1>9, NoneAssumption DEF LocalsAgree, Outcomes, storeVars
<1>13. JournalAudit'
  <2>1. ASSUME NEW g \in Fingerprints, decisions'[g] # None
        PROVE  \E a \in attempts' : a.fp = g /\ a.at = decisions'[g].at
                                            /\ a.answer = decisions'[g].answer
    <3>1. CASE g = f
      BY <1>6, <1>7, <1>9, <3>1
    <3>2. CASE g # f
      BY <1>6, <1>9, <2>1, <3>2 DEF IInv, JournalAudit
    <3> QED BY <3>1, <3>2
  <2>2. ASSUME NEW a \in attempts', a.answer # None
        PROVE  decisions'[a.fp] = [answer |-> a.answer, at |-> a.at]
    <3>1. CASE a = row
      BY <1>7, <1>9, <3>1 DEF d
    <3>2. CASE a \in attempts
      <4>1. decisions[a.fp] = [answer |-> a.answer, at |-> a.at] /\ a.fp \in Fingerprints
        BY <2>2, <3>2 DEF IInv, JournalAudit, TypeOK, JournalAttempt
      <4>2. [answer |-> a.answer, at |-> a.at] \in Decision
        BY <2>2, <3>2 DEF IInv, TypeOK, JournalAttempt, Decision
      <4>3. decisions[a.fp] # None
        BY <4>1, <4>2, NoneAssumption
      <4> QED BY <1>6, <1>9, <4>1, <4>3
    <3> QED BY <1>6, <2>2, <3>1, <3>2
  <2> QED BY <2>1, <2>2 DEF JournalAudit
<1>14. RecordedIsCanonical'
  <2> SUFFICES ASSUME NEW q \in Runs, HasStatus(q, "DECISION_RECORDED")
               PROVE  /\ decisions'[invocations[q].fp] # None
                      /\ decisions'[invocations[q].fp].answer = invocations[q].decision
    BY <1>1 DEF RecordedIsCanonical, HasStatus, storeVars
  <2>1. invocations[q] \in Invocation /\ invocations[q].fp \in Fingerprints
    BY DEF HasStatus, IInv, TypeOK, Invocation
  <2>2. /\ decisions[invocations[q].fp] # None
        /\ decisions[invocations[q].fp].answer = invocations[q].decision
    BY DEF IInv, RecordedIsCanonical
  <2> QED BY <1>6, <1>9, <2>1, <2>2
<1> QED BY <1>8, <1>10, <1>11, <1>12, <1>13, <1>14, StepKeepsIInv

LEMMA AppendFailureIInv ==
  ASSUME IInv, NEW w \in Workers, AppendFailure(w)
  PROVE  IInv'
<1>1. /\ UNCHANGED <<storeVars, decisions>>
      /\ sent' \in [Runs -> Nat] /\ crashes' \in 0 .. MaxCrashes /\ shared' \in BOOLEAN
      /\ Goto(w, "failing", "failed") /\ worker[w].pc = "failing"
      /\ LocalsAgree(worker[w])
  BY DEF AppendFailure, Goto, IInv, TypeOK, LocalsInv
<1> DEFINE row == [run |-> worker[w].run, at |-> worker[w].at, fp |-> worker[w].fp,
                   answer |-> None]
<1>2. attempts' = attempts \cup {row} \/ attempts' = attempts
  BY DEF AppendFailure, AttemptOf
<1>3. row \in JournalAttempt /\ row.answer = None
  BY <1>1 DEF LocalsAgree, JournalAttempt
<1>4. PICK s \in WorkerState :
        /\ s.pc = "failed" /\ s.run = worker[w].run /\ s.fp = worker[w].fp
        /\ s.at = worker[w].at /\ s.outcome = worker[w].outcome
        /\ worker' = [worker EXCEPT ![w] = s]
  BY <1>1, GotoState DEF PCs
<1> HIDE DEF row
<1>5. TypeOK'
  BY <1>1, <1>2, <1>3, <1>4 DEF IInv, TypeOK, storeVars
<1>6. RowsKept
  BY <1>1 DEF RowsKept, storeVars
<1>7. LocalsAgree(s)'
  BY <1>1, <1>4, NoneAssumption DEF LocalsAgree, Outcomes
<1>8. JournalAudit'
  BY <1>1, <1>2, <1>3 DEF IInv, JournalAudit
<1>9. RecordedIsCanonical'
  BY <1>1 DEF IInv, RecordedIsCanonical, HasStatus, storeVars
<1> QED BY <1>4, <1>5, <1>6, <1>7, <1>8, <1>9, StepKeepsIInv

LEMMA RecordDecisionIInv ==
  ASSUME IInv, NEW w \in Workers, RecordDecision(w)
  PROVE  IInv' /\ RowsKept
<1>1. /\ UNCHANGED <<reconciliations, journalVars>> /\ UNCHANGED journalVars
      /\ sent' \in [Runs -> Nat] /\ crashes' \in 0 .. MaxCrashes /\ shared' \in BOOLEAN
      /\ worker[w].pc = "record" /\ LocalsAgree(worker[w])
  BY DEF RecordDecision, IInv, TypeOK, LocalsInv
<1>2. PICK r \in Runs : r = worker[w].run
  BY <1>1 DEF LocalsAgree
<1>3. PICK answer \in Answers : answer = worker[w].answer
  BY <1>1 DEF LocalsAgree
<1>4. /\ worker[w].fp \in Fingerprints
      /\ invocations[r] # None /\ invocations[r].fp = worker[w].fp
      /\ decisions[worker[w].fp] # None
      /\ decisions[worker[w].fp].answer = answer
  BY <1>1, <1>2, <1>3 DEF LocalsAgree
<1>5. ASSUME Return(w, "record", "DECIDED", answer)
      PROVE  \E s \in WorkerState : /\ worker' = [worker EXCEPT ![w] = s]
                                    /\ LocalsAgree(s) /\ LocalsAgree(s)'
  <2>a. "record" \in PCs \ {"idle"} /\ "DECIDED" \in Outcomes
    BY DEF PCs, Outcomes
  <2>1. PICK s \in WorkerState :
          /\ s.pc = "idle" /\ s.fp = worker[w].fp /\ s.answer = answer
          /\ worker' = [worker EXCEPT ![w] = s]
    BY <1>5, <2>a, ReturnState
  <2>2. LocalsAgree(s)
    BY <1>4, <2>1 DEF LocalsAgree
  <2>3. LocalsAgree(s)'
    BY <1>1, <1>4, <2>1 DEF LocalsAgree, journalVars
  <2> QED BY <2>1, <2>2, <2>3
<1>6. CASE /\ HasStatus(r, "SEND_INTENT_RECORDED")
           /\ invocations' = [invocations EXCEPT
                ![r] = [@ EXCEPT !.status = "DECISION_RECORDED", !.decision = answer]]
           /\ Return(w, "record", "DECIDED", answer)
  <2> DEFINE row == [invocations[r] EXCEPT !.status = "DECISION_RECORDED",
                                           !.decision = answer]
  <2>1. invocations[r] \in Invocation
    BY <1>4 DEF IInv, TypeOK
  <2>2. row \in Invocation /\ row.fp = worker[w].fp /\ row.decision = answer
    BY <1>4, <2>1 DEF Invocation, Statuses
  <2>3. invocations' = [invocations EXCEPT ![r] = row]
    BY <1>6
  <2> HIDE DEF row
  <2>4. /\ invocations' \in [Runs -> Invocation \cup {None}]
        /\ RowsKept /\ RecordedIsCanonical' /\ JournalAudit'
    BY <1>1, <1>4, <2>2, <2>3, MoveRow
  <2>5. PICK s \in WorkerState : worker' = [worker EXCEPT ![w] = s] /\ LocalsAgree(s)'
    BY <1>5, <1>6
  <2>6. TypeOK'
    BY <1>1, <2>4, <2>5 DEF IInv, TypeOK, journalVars
  <2> QED BY <2>4, <2>5, <2>6, StepKeepsIInv
<1>7. CASE Return(w, "record", "DECIDED", answer) /\ UNCHANGED invocations
  <2>1. UNCHANGED <<storeVars, journalVars>>
    BY <1>1, <1>7 DEF storeVars
  <2> QED BY <1>1, <1>5, <1>7, <2>1, MemoryStep
<1>8. CASE Return(w, "record", None, None) /\ UNCHANGED invocations
  <2>1. UNCHANGED <<storeVars, journalVars>>
    BY <1>1, <1>8 DEF storeVars
  <2>2. PICK t \in WorkerState : worker' = [worker EXCEPT ![w] = t] /\ LocalsAgree(t)
    BY <1>8, EmptyReturn DEF PCs
  <2> QED BY <1>1, <2>1, <2>2, MemoryStep
<1> QED BY <1>2, <1>3, <1>6, <1>7, <1>8 DEF RecordDecision

LEMMA AbandonIInv ==
  ASSUME IInv, NEW r \in Runs, Abandon(r)
  PROVE  IInv'
<1> DEFINE row == [invocations[r] EXCEPT !.status = "ABANDONED_NO_ORDER"]
<1>1. invocations[r] # None /\ invocations[r] \in Invocation
  BY DEF Abandon, HasStatus, IInv, TypeOK
<1>2. row \in Invocation /\ row.fp = invocations[r].fp /\ row.status = "ABANDONED_NO_ORDER"
  BY <1>1 DEF Invocation, Statuses
<1>3. invocations' = [invocations EXCEPT ![r] = row] /\ UNCHANGED journalVars
  BY DEF Abandon
<1> HIDE DEF row
<1>4. /\ invocations' \in [Runs -> Invocation \cup {None}]
      /\ RowsKept /\ RecordedIsCanonical' /\ JournalAudit'
  BY <1>1, <1>2, <1>3, MoveRow
<1>5. TypeOK'
  BY <1>3, <1>4 DEF IInv, TypeOK, Abandon, journalVars
<1>6. LocalsInv'
  <2> SUFFICES ASSUME NEW w \in Workers PROVE LocalsAgree(worker[w])'
    BY DEF LocalsInv
  <2>1. worker'[w] = worker[w] /\ LocalsAgree(worker[w])
    BY DEF Abandon, IInv, LocalsInv
  <2> QED BY <1>4, <2>1 DEF RowsKept, LocalsAgree
<1> QED BY <1>4, <1>5, <1>6 DEF IInv

-----------------------------------------------------------------------------

LEMMA StepIInv == IInv /\ [Next]_vars => IInv'
<1> SUFFICES ASSUME IInv, [Next]_vars PROVE IInv'
  OBVIOUS
<1>1. ASSUME NEW w \in Workers, Step(w) PROVE IInv'
  BY <1>1, CallIInv, LookupIInv, InspectIInv, ReconcileIInv, CredentialIInv,
     SendIntentIInv, PlainStepsIInv, ReceiveIInv, AppendDecisionIInv,
     AppendFailureIInv, HandleErrorIInv, RecordDecisionIInv
     DEF Step, Work
<1>2. ASSUME NEW w \in Workers, Crash(w) PROVE IInv'
  BY <1>2, CrashIInv
<1>3. ASSUME NEW r \in Runs, Abandon(r) PROVE IInv'
  BY <1>3, AbandonIInv
<1>4. CASE UNCHANGED vars
  BY <1>4 DEF vars, storeVars, journalVars, IInv, TypeOK, LocalsInv, LocalsAgree,
     JournalAudit, RecordedIsCanonical, HasStatus
<1> QED BY <1>1, <1>2, <1>3, <1>4 DEF Next

\* IInv holds in every reachable state, whether or not the journal is shared.
THEOREM InductiveInvariant == Spec => []IInv
<1>1. Init => IInv
  BY InitIInv
<1>2. IInv /\ [Next]_vars => IInv'
  BY StepIInv
<1> QED BY <1>1, <1>2, PTL DEF Spec

\* Every variable keeps its type.
THEOREM TypeCorrect == Spec => []TypeOK
<1>1. IInv => TypeOK
  BY DEF IInv
<1> QED BY <1>1, InductiveInvariant, PTL

\* The decision a run records is the canonical decision of its request, also
\* when several callers race for it, and the two journal tables tell the same
\* story at all times.
THEOREM JournalAgreement == Spec => []JournalsAgree
<1>1. IInv => JournalsAgree
  BY DEF IInv, JournalsAgree
<1> QED BY <1>1, InductiveInvariant, PTL

\* Callers that are given a decision for one request are given the same one.
THEOREM Agreement == Spec => []CallersAgree
<1>1. IInv => CallersAgree
  BY DEF IInv, LocalsInv, LocalsAgree, CallersAgree
<1> QED BY <1>1, InductiveInvariant, PTL

-----------------------------------------------------------------------------
(* One process at a time *)

\* What a step of one caller leaves alone while it has the journal to itself
LEMMA OthersIdle ==
  ASSUME ~shared, IInv, SingleCallInv, NEW w \in Workers, Step(w)
  PROVE  \A v \in Workers : v # w => worker'[v] = worker[v] /\ worker[v].pc = "idle"
<1>1. \A v \in Workers : v # w => worker'[v] = worker[v]
  BY DEF Step, Work, Call, LookupDecision, InspectInvocation, MarkNeedsReconciliation,
     ReadCredential, MarkSendIntent, FailBeforeSend, Send, FailTransport, Receive,
     AppendDecision, AppendRefused, AppendFailure, HandleProviderError, RecordDecision,
     Goto, Return, IInv, TypeOK
<1>2. CASE worker[w].pc # "idle"
  BY <1>1, <1>2 DEF SingleCallInv
<1>3. CASE worker[w].pc = "idle"
  <2>1. \E r \in Runs, f \in Fingerprints, t \in Times : Call(w, r, f, t)
    BY <1>3 DEF Step, Work, LookupDecision, InspectInvocation, MarkNeedsReconciliation,
       ReadCredential, MarkSendIntent, FailBeforeSend, Send, FailTransport, Receive,
       AppendDecision, AppendRefused, AppendFailure, HandleProviderError,
       RecordDecision, Goto, Return
  <2> QED BY <1>1, <2>1 DEF Call
<1> QED BY <1>2, <1>3

\* A step that leaves its caller fresh and sends nothing is safe.
LEMMA QuietStep ==
  ASSUME ~shared, IInv, SingleCallInv, SentOnce, NEW w \in Workers, Step(w),
         sent' = sent, \A r \in Runs : invocations[r] # None => invocations'[r] # None,
         FreshCall(w)'
  PROVE  SingleCallInv' /\ SentOnce'
<1>1. \A v \in Workers : v # w => worker'[v].pc = "idle"
  BY OthersIdle
<1>2. \A v \in Workers : FreshCall(v)'
  BY <1>1 DEF FreshCall
<1> QED BY <1>1, <1>2 DEF SingleCallInv, SentOnce

\* Steps after which the caller can no longer send
LEMMA PastSending ==
  ASSUME ~shared, IInv, SingleCallInv, SentOnce, NEW w \in Workers, Step(w),
         sent' = sent, \A r \in Runs : invocations[r] # None => invocations'[r] # None,
         worker'[w].pc \notin {"inspect", "credential", "begin", "send"}
  PROVE  SingleCallInv' /\ SentOnce'
<1>1. FreshCall(w)'
  BY DEF FreshCall
<1> QED BY <1>1, QuietStep

LEMMA SharedIsFixed == [Next]_vars => shared' = shared
BY DEF Next, Step, Work, Crash, Abandon, Call, LookupDecision, InspectInvocation,
   MarkNeedsReconciliation, ReadCredential, MarkSendIntent, FailBeforeSend, Send,
   FailTransport, Receive, AppendDecision, AppendRefused, AppendFailure,
   HandleProviderError, RecordDecision, vars

AloneInv == ~shared => SingleCallInv /\ SentOnce

\* A journal that one process at a time can open: every call that may still send is
\* fresh, and each run has sent at most once.
THEOREM AloneCorrect == Spec => []AloneInv
<1>1. Init => AloneInv
  BY DEF AloneInv, Init, SingleCallInv, SentOnce, FreshCall, Idle
<1>2. IInv /\ AloneInv /\ [Next]_vars => AloneInv'
  <2> SUFFICES ASSUME ~shared, IInv, SingleCallInv, SentOnce, [Next]_vars
               PROVE  SingleCallInv' /\ SentOnce'
    BY SharedIsFixed DEF AloneInv
  <2>1. ASSUME NEW w \in Workers, Step(w) PROVE SingleCallInv' /\ SentOnce'
    <3>1. worker[w] \in WorkerState /\ LocalsAgree(worker[w]) /\ FreshCall(w)
      BY DEF IInv, TypeOK, LocalsInv, SingleCallInv
    <3>2. ASSUME NEW r \in Runs, NEW f \in Fingerprints, NEW t \in Times, Call(w, r, f, t)
          PROVE  SingleCallInv' /\ SentOnce'
      <4>1. worker'[w].pc = "lookup"
        BY <3>2 DEF Call, Idle, IInv, TypeOK
      <4> QED BY <2>1, <3>2, <4>1, PastSending DEF Call, storeVars
    <3>3. ASSUME LookupDecision(w) PROVE SingleCallInv' /\ SentOnce'
      <4>1. CASE decisions[worker[w].fp] # None
        <5>1. worker'[w].pc = "idle"
          BY <3>1, <3>3, <4>1 DEF LookupDecision, Return, Idle, IInv, TypeOK, WorkerState
        <5> QED BY <2>1, <3>3, <5>1, PastSending DEF LookupDecision, storeVars
      <4>2. CASE decisions[worker[w].fp] = None
        <5>1. worker'[w].pc = "inspect" /\ worker'[w].fp = worker[w].fp
          BY <3>1, <3>3, <4>2 DEF LookupDecision, Goto, IInv, TypeOK, WorkerState
        <5>2. FreshCall(w)'
          BY <3>3, <4>2, <5>1 DEF FreshCall, LookupDecision, journalVars
        <5> QED BY <2>1, <3>3, <5>2, QuietStep DEF LookupDecision, storeVars
      <4> QED BY <4>1, <4>2
    <3>4. ASSUME InspectInvocation(w) PROVE SingleCallInv' /\ SentOnce'
      <4>1. worker[w].pc = "inspect" /\ worker'[w].fp = worker[w].fp
            /\ worker'[w].run = worker[w].run
        BY <3>1, <3>4 DEF InspectInvocation, Goto, IInv, TypeOK, WorkerState
      <4>2. \/ worker'[w].pc = "ambiguous"
            \/ /\ worker'[w].pc = "credential"
               /\ ~HasStatus(worker[w].run, "SEND_INTENT_RECORDED")
        BY <3>1, <3>4 DEF InspectInvocation, Goto, IInv, TypeOK, WorkerState
      <4>3. FreshCall(w)'
        BY <3>1, <3>4, <4>1, <4>2
           DEF FreshCall, HasStatus, InspectInvocation, storeVars, journalVars
      <4> QED BY <2>1, <3>4, <4>3, QuietStep DEF InspectInvocation, storeVars
    <3>5. ASSUME ReadCredential(w) PROVE SingleCallInv' /\ SentOnce'
      <4>1. /\ worker[w].pc = "credential"
            /\ \/ worker'[w].pc = "idle"
               \/ worker'[w].pc = "begin" /\ worker'[w].run = worker[w].run
        <5>1. CASE Goto(w, "credential", "begin")
          BY <3>1, <5>1 DEF Goto, IInv, TypeOK, WorkerState
        <5>2. CASE Return(w, "credential", "FAILED_PRE_SEND", None)
          BY <3>1, <5>2 DEF Return, Idle, IInv, TypeOK, WorkerState
        <5> QED BY <3>5, <5>1, <5>2 DEF ReadCredential
      <4>2. FreshCall(w)'
        BY <3>1, <3>5, <4>1 DEF FreshCall, HasStatus, ReadCredential, storeVars
      <4> QED BY <2>1, <3>5, <4>2, QuietStep DEF ReadCredential, storeVars
    <3>6. ASSUME MarkSendIntent(w) PROVE SingleCallInv' /\ SentOnce'
      <4>1. /\ worker[w].pc = "begin" /\ worker'[w].pc = "send"
            /\ worker'[w].run = worker[w].run
            /\ sent' = sent
        BY <3>1, <3>6 DEF MarkSendIntent, Goto, IInv, TypeOK, WorkerState
      <4>2. worker[w].run \in Runs /\ invocations[worker[w].run] = None
        BY <3>1, <3>6, <4>1
           DEF FreshCall, HasStatus, MarkSendIntent, MayMarkSendIntent, LocalsAgree
      <4>3. sent[worker[w].run] = 0
        BY <4>2 DEF SingleCallInv, IInv, TypeOK
      <4>4. FreshCall(w)'
        BY <4>1, <4>3 DEF FreshCall
      <4>5. RowsKept
        BY <3>6, SendIntentIInv
      <4> QED BY <2>1, <4>1, <4>4, <4>5, QuietStep DEF RowsKept
    <3>7. ASSUME Send(w) PROVE SingleCallInv' /\ SentOnce'
      <4>1. PICK r \in Runs : r = worker[w].run
        BY <3>1, <3>7 DEF Send, Goto, LocalsAgree
      <4>2. /\ sent[r] = 0 /\ invocations[r] # None
            /\ sent' = [sent EXCEPT ![r] = @ + 1]
            /\ worker'[w].pc = "waiting"
            /\ invocations' = invocations
        BY <3>1, <3>7, <4>1
           DEF Send, Goto, LocalsAgree, FreshCall, IInv, TypeOK, WorkerState, storeVars
      <4>3. \A q \in Runs : sent'[q] = IF q = r THEN 1 ELSE sent[q]
        BY <4>2 DEF IInv, TypeOK
      <4>4. \A v \in Workers : FreshCall(v)'
        BY <2>1, <4>2, OthersIdle DEF FreshCall
      <4>5. \A u, v \in Workers : u # v => worker'[u].pc = "idle" \/ worker'[v].pc = "idle"
        BY <2>1, OthersIdle
      <4> QED BY <4>2, <4>3, <4>4, <4>5 DEF SingleCallInv, SentOnce
    <3>8. ASSUME \/ FailBeforeSend(w) \/ FailTransport(w) \/ AppendDecision(w)
                 \/ AppendRefused(w) \/ AppendFailure(w) \/ HandleProviderError(w)
                 \/ \E a \in Answers : Receive(w, a)
          PROVE  SingleCallInv' /\ SentOnce'
      <4>1. worker'[w].pc \in {"failing", "record", "failed", "ambiguous", "idle", "append"}
        <5>1. ASSUME NEW from \in PCs,
                     NEW to \in {"failing", "record", "failed", "ambiguous"},
                     Goto(w, from, to)
              PROVE  worker'[w].pc = to
          BY <3>1, <5>1 DEF Goto, IInv, TypeOK, WorkerState
        <5>2. ASSUME NEW from \in PCs, NEW outcome, NEW answer,
                     Return(w, from, outcome, answer)
              PROVE  worker'[w].pc = "idle"
          BY <3>1, <5>2 DEF Return, Idle, IInv, TypeOK, WorkerState
        <5>3. ASSUME NEW a \in Answers, Receive(w, a) PROVE worker'[w].pc = "append"
          BY <3>1, <5>3 DEF Receive, IInv, TypeOK, WorkerState
        <5>4. CASE FailBeforeSend(w) \/ FailTransport(w) \/ AppendDecision(w)
                     \/ AppendRefused(w) \/ AppendFailure(w)
          BY <5>1, <5>4 DEF FailBeforeSend, FailTransport, AppendDecision,
             AppendRefused, AppendFailure, PCs
        <5>5. CASE HandleProviderError(w)
          BY <5>1, <5>2, <5>5 DEF HandleProviderError, PCs
        <5> QED BY <3>8, <5>3, <5>4, <5>5
      <4>2. sent' = sent /\ invocations' = invocations
        BY <3>8 DEF FailBeforeSend, FailTransport, AppendDecision, AppendRefused,
           AppendFailure, HandleProviderError, Receive, storeVars
      <4> QED BY <2>1, <4>1, <4>2, PastSending
    <3>9. ASSUME MarkNeedsReconciliation(w) \/ RecordDecision(w)
          PROVE  SingleCallInv' /\ SentOnce'
      <4>1. worker'[w].pc = "idle" /\ sent' = sent
        <5>1. ASSUME NEW from \in PCs, NEW outcome, NEW answer,
                     Return(w, from, outcome, answer)
              PROVE  worker'[w].pc = "idle"
          BY <3>1, <5>1 DEF Return, Idle, IInv, TypeOK, WorkerState
        <5>2. {"ambiguous", "record"} \subseteq PCs
          BY DEF PCs
        <5> QED BY <3>9, <5>1, <5>2 DEF MarkNeedsReconciliation, RecordDecision
      <4>2. RowsKept
        BY <3>9, ReconcileIInv, RecordDecisionIInv
      <4> QED BY <2>1, <4>1, <4>2, PastSending DEF RowsKept
    <3> QED BY <2>1, <3>2, <3>3, <3>4, <3>5, <3>6, <3>7, <3>8, <3>9 DEF Step, Work
  <2>2. ASSUME NEW w \in Workers, Crash(w) PROVE SingleCallInv' /\ SentOnce'
    <3>1. worker' = [worker EXCEPT ![w] = Idle] /\ Idle.pc = "idle"
      BY <2>2 DEF Crash, Idle
    <3>2. \A v \in Workers : worker'[v] = worker[v] \/ worker'[v].pc = "idle"
      BY <3>1 DEF IInv, TypeOK
    <3> QED BY <2>2, <3>2 DEF Crash, SingleCallInv, SentOnce, FreshCall, HasStatus,
         storeVars, journalVars
  <2>3. ASSUME NEW r \in Runs, Abandon(r) PROVE SingleCallInv' /\ SentOnce'
    <3>1. invocations[r] # None /\ invocations[r] \in Invocation
      BY <2>3 DEF Abandon, HasStatus, IInv, TypeOK
    <3>2. [invocations[r] EXCEPT !.status = "ABANDONED_NO_ORDER"] \in Invocation
      BY <3>1 DEF Invocation, Statuses
    <3>3. /\ \A q \in Runs : q # r => invocations'[q] = invocations[q]
          /\ invocations'[r] = [invocations[r] EXCEPT !.status = "ABANDONED_NO_ORDER"]
      BY <2>3 DEF Abandon, IInv, TypeOK
    <3>4. invocations'[r] # None /\ invocations'[r].status = "ABANDONED_NO_ORDER"
      BY <3>1, <3>2, <3>3, NoneAssumption DEF Invocation
    <3>5. \A q \in Runs : HasStatus(q, "SEND_INTENT_RECORDED")' =>
            HasStatus(q, "SEND_INTENT_RECORDED")
      BY <3>3, <3>4 DEF HasStatus
    <3>6. \A v \in Workers : FreshCall(v)'
      <4> SUFFICES ASSUME NEW v \in Workers PROVE FreshCall(v)'
        OBVIOUS
      <4>1. worker'[v] = worker[v] /\ decisions' = decisions /\ sent' = sent
        BY <2>3 DEF Abandon, journalVars
      <4>2. worker[v].pc # "idle" => worker[v].run \in Runs
        BY DEF IInv, LocalsInv, LocalsAgree
      <4>3. HasStatus(worker[v].run, "SEND_INTENT_RECORDED")' /\ worker[v].pc # "idle" =>
              HasStatus(worker[v].run, "SEND_INTENT_RECORDED")
        BY <3>5, <4>1, <4>2 DEF HasStatus
      <4> QED BY <4>1, <4>3 DEF FreshCall, SingleCallInv
    <3> QED BY <2>3, <3>3, <3>4, <3>6 DEF Abandon, SingleCallInv, SentOnce
  <2>4. CASE UNCHANGED vars
    BY <2>4 DEF vars, SingleCallInv, SentOnce, FreshCall, HasStatus
  <2> QED BY <2>1, <2>2, <2>3, <2>4 DEF Next
<1> QED BY <1>1, <1>2, InductiveInvariant, PTL DEF Spec

\* No run ever sends a second request to the model while one process at a time
\* can have the journal open.
THEOREM AtMostOneSend == Spec => []SendAtMostOnce
<1>1. AloneInv => SendAtMostOnce
  BY DEF AloneInv, SendAtMostOnce
<1> QED BY <1>1, AloneCorrect, PTL

-----------------------------------------------------------------------------
(* The rows of the runs are true *)

Answered(r, answer) == \E a \in attempts : a.run = r /\ a.answer = answer

\* What the rows say of what happened, and the memory that lets a caller say it
TruthInv ==
  /\ \A r \in Runs : sent[r] > 0 => invocations[r] # None
  /\ \A r \in Runs : HasStatus(r, "DECISION_RECORDED") => Answered(r, invocations[r].decision)
  /\ \A r \in Runs : HasStatus(r, "ABANDONED_NO_ORDER") => r \in reconciliations
  /\ \A w \in Workers : worker[w].pc = "record" => Answered(worker[w].run, worker[w].answer)

LEMMA GotoFacts ==
  ASSUME IInv, NEW w \in Workers, NEW from \in PCs, NEW to \in PCs, Goto(w, from, to)
  PROVE  /\ worker[w].pc = from /\ worker'[w].pc = to
         /\ worker'[w].run = worker[w].run /\ worker'[w].fp = worker[w].fp
         /\ worker'[w].at = worker[w].at /\ worker'[w].answer = worker[w].answer
         /\ \A v \in Workers : v # w => worker'[v] = worker[v]
BY DEF Goto, IInv, TypeOK, WorkerState

LEMMA ReturnFacts ==
  ASSUME IInv, NEW w \in Workers, NEW from, NEW outcome, NEW answer,
         Return(w, from, outcome, answer)
  PROVE  /\ worker[w].pc = from /\ worker'[w].pc = "idle"
         /\ \A v \in Workers : v # w => worker'[v] = worker[v]
BY DEF Return, Idle, IInv, TypeOK

\* A caller's step that leaves the rows alone
LEMMA RowsAloneTrue ==
  ASSUME TruthInv, NEW w \in Workers, UNCHANGED storeVars, attempts \subseteq attempts',
         \A r \in Runs : sent'[r] > 0 => sent[r] > 0 \/ invocations[r] # None,
         \A v \in Workers : v # w => worker'[v] = worker[v],
         worker'[w].pc = "record" => Answered(worker[w].run, worker[w].answer)'
  PROVE  TruthInv'
<1>1. \A r, answer : Answered(r, answer) => Answered(r, answer)'
  BY DEF Answered
<1>2. invocations' = invocations /\ reconciliations' = reconciliations
  BY DEF storeVars
<1>3. \A v \in Workers : worker'[v].pc = "record" =>
        Answered(worker[v].run, worker[v].answer)'
  <2> SUFFICES ASSUME NEW v \in Workers, worker'[v].pc = "record"
               PROVE  Answered(worker[v].run, worker[v].answer)'
    OBVIOUS
  <2>1. CASE v = w
    BY <2>1
  <2>2. CASE v # w
    <3>1. worker'[v] = worker[v] /\ Answered(worker[v].run, worker[v].answer)
      BY <2>2 DEF TruthInv
    <3> QED BY <1>1, <3>1 DEF Answered
  <2> QED BY <2>1, <2>2
<1>4. \A r \in Runs : HasStatus(r, "DECISION_RECORDED")' =>
        Answered(r, invocations[r].decision)'
  <2> SUFFICES ASSUME NEW r \in Runs, HasStatus(r, "DECISION_RECORDED")'
               PROVE  Answered(r, invocations[r].decision)'
    OBVIOUS
  <2>1. Answered(r, invocations[r].decision)
    BY <1>2 DEF TruthInv, HasStatus
  <2> QED BY <1>1, <1>2, <2>1 DEF Answered
<1> QED BY <1>2, <1>3, <1>4 DEF TruthInv, HasStatus

\* A row that is moved on by its caller, who then has returned
LEMMA RowMovedTrue ==
  ASSUME IInv, TruthInv, RowsKept, NEW w \in Workers, NEW r \in Runs,
         UNCHANGED <<reconciliations, attempts, sent>>,
         \A q \in Runs : q # r => invocations'[q] = invocations[q],
         HasStatus(r, "DECISION_RECORDED")' => Answered(r, invocations'[r].decision),
         HasStatus(r, "ABANDONED_NO_ORDER")' => HasStatus(r, "ABANDONED_NO_ORDER"),
         \A v \in Workers : v # w => worker'[v] = worker[v],
         worker'[w].pc # "record"
  PROVE  TruthInv'
<1>1. \A q \in Runs : HasStatus(q, "DECISION_RECORDED")' =>
        Answered(q, invocations[q].decision)'
  <2> SUFFICES ASSUME NEW q \in Runs, HasStatus(q, "DECISION_RECORDED")'
               PROVE  Answered(q, invocations[q].decision)'
    OBVIOUS
  <2>1. CASE q = r
    BY <2>1 DEF Answered
  <2>2. CASE q # r
    BY <2>2 DEF TruthInv, HasStatus, Answered
  <2> QED BY <2>1, <2>2
<1>2. \A q \in Runs : HasStatus(q, "ABANDONED_NO_ORDER")' => q \in reconciliations'
  BY DEF TruthInv, HasStatus
<1>3. \A q \in Runs : sent'[q] > 0 => invocations'[q] # None
  BY DEF TruthInv, RowsKept
<1>4. \A v \in Workers : worker'[v].pc = "record" =>
        Answered(worker[v].run, worker[v].answer)'
  <2> SUFFICES ASSUME NEW v \in Workers, worker'[v].pc = "record"
               PROVE  Answered(worker[v].run, worker[v].answer)'
    OBVIOUS
  <2>1. worker'[v] = worker[v] /\ Answered(worker[v].run, worker[v].answer)
    BY DEF TruthInv
  <2> QED BY <2>1 DEF Answered
<1> QED BY <1>1, <1>2, <1>3, <1>4 DEF TruthInv

\* A caller that is not about to record, and touches neither rows nor journal
LEMMA QuietTrue ==
  ASSUME TruthInv, NEW w \in Workers, UNCHANGED storeVars, attempts' = attempts, sent' = sent,
         \A v \in Workers : v # w => worker'[v] = worker[v], worker'[w].pc # "record"
  PROVE  TruthInv'
BY RowsAloneTrue

LEMMA SimpleStepsTrue ==
  ASSUME IInv, TruthInv, NEW w \in Workers,
         \/ LookupDecision(w) \/ InspectInvocation(w) \/ ReadCredential(w)
         \/ FailBeforeSend(w) \/ FailTransport(w) \/ AppendRefused(w) \/ HandleProviderError(w)
  PROVE  TruthInv'
<1>1. UNCHANGED storeVars /\ attempts' = attempts /\ sent' = sent
  BY DEF LookupDecision, InspectInvocation, ReadCredential, FailBeforeSend, FailTransport,
     AppendRefused, HandleProviderError, journalVars
<1>2. \/ \E from \in PCs, to \in PCs \ {"record"} : Goto(w, from, to)
      \/ \E from \in PCs : \E outcome, answer : Return(w, from, outcome, answer)
  <2>1. {"lookup", "inspect", "ambiguous", "credential", "begin", "failing", "failed", "send",
         "waiting", "append"} \subseteq PCs \ {"record"}
    BY DEF PCs
  <2> QED BY <2>1 DEF LookupDecision, InspectInvocation, ReadCredential, FailBeforeSend,
            FailTransport, AppendRefused, HandleProviderError
<1>3. CASE \E from \in PCs, to \in PCs \ {"record"} : Goto(w, from, to)
  BY <1>1, <1>3, GotoFacts, QuietTrue
<1>4. CASE \E from \in PCs : \E outcome, answer : Return(w, from, outcome, answer)
  BY <1>1, <1>4, ReturnFacts, QuietTrue
<1> QED BY <1>2, <1>3, <1>4

\* Every row says what happened to its run and no more, for a shared journal too.
LEMMA StepTrue == IInv /\ TruthInv /\ [Next]_vars => TruthInv'
<1> SUFFICES ASSUME IInv, TruthInv, [Next]_vars PROVE TruthInv'
  OBVIOUS
<1>1. ASSUME NEW w \in Workers, Step(w) PROVE TruthInv'
  <2>0. worker \in [Workers -> WorkerState] /\ worker[w] \in WorkerState
        /\ LocalsAgree(worker[w])
    BY DEF IInv, TypeOK, LocalsInv
  <2>1. ASSUME NEW r \in Runs, NEW f \in Fingerprints, NEW t \in Times, Call(w, r, f, t)
        PROVE  TruthInv'
    <3>1. worker'[w].pc = "lookup" /\ \A v \in Workers : v # w => worker'[v] = worker[v]
      BY <2>0, <2>1 DEF Call, Idle
    <3> QED BY <2>1, <3>1, QuietTrue DEF Call, journalVars
  <2>2. CASE MarkSendIntent(w)
    <3>1. Goto(w, "begin", "send") /\ {"begin", "send"} \subseteq PCs
          /\ UNCHANGED <<reconciliations, attempts, sent>>
      BY <2>2 DEF MarkSendIntent, PCs, journalVars
    <3>2. RowsKept
      BY <2>2, SendIntentIInv
    <3>3. worker'[w].pc # "record" /\ \A v \in Workers : v # w => worker'[v] = worker[v]
      BY <3>1, GotoFacts
    <3>4. PICK r \in Runs : r = worker[w].run
      BY <2>0, <3>1 DEF LocalsAgree, Goto
    <3>5. /\ \A q \in Runs : q # r => invocations'[q] = invocations[q]
          /\ invocations[r] = None => invocations'[r].status = "SEND_INTENT_RECORDED"
          /\ invocations[r] # None => invocations'[r] = invocations[r]
      BY <2>2, <3>4 DEF MarkSendIntent, IInv, TypeOK
    <3>6. /\ HasStatus(r, "DECISION_RECORDED")' => Answered(r, invocations'[r].decision)
          /\ HasStatus(r, "ABANDONED_NO_ORDER")' => HasStatus(r, "ABANDONED_NO_ORDER")
      BY <3>5 DEF HasStatus, TruthInv
    <3> QED BY <3>1, <3>2, <3>3, <3>5, <3>6, RowMovedTrue
  <2>3. CASE Send(w)
    <3>1. Goto(w, "send", "waiting") /\ {"send", "waiting"} \subseteq PCs
          /\ UNCHANGED storeVars /\ attempts' = attempts
          /\ sent' = [sent EXCEPT ![worker[w].run] = @ + 1]
      BY <2>3 DEF Send, PCs, journalVars
    <3>2. worker[w].run \in Runs /\ invocations[worker[w].run] # None
      BY <2>0, <3>1 DEF LocalsAgree, Goto
    <3>3. \A q \in Runs : sent'[q] > 0 => sent[q] > 0 \/ invocations[q] # None
      BY <3>1, <3>2 DEF IInv, TypeOK
    <3> QED BY <3>1, <3>3, GotoFacts, RowsAloneTrue
  <2>4. ASSUME NEW a \in Answers, Receive(w, a) PROVE TruthInv'
    <3>1. worker'[w].pc = "append" /\ \A v \in Workers : v # w => worker'[v] = worker[v]
      BY <2>0, <2>4 DEF Receive, WorkerState
    <3> QED BY <2>4, <3>1, QuietTrue DEF Receive, journalVars
  <2>5. CASE AppendDecision(w)
    <3>1. Goto(w, "append", "record") /\ {"append", "record"} \subseteq PCs
          /\ UNCHANGED storeVars /\ sent' = sent
          /\ attempts' = attempts \cup {AttemptOf(w, worker[w].answer)}
      BY <2>5 DEF AppendDecision, PCs
    <3>2. Answered(worker[w].run, worker[w].answer)'
      <4>1. AttemptOf(w, worker[w].answer) \in attempts'
            /\ AttemptOf(w, worker[w].answer).run = worker[w].run
            /\ AttemptOf(w, worker[w].answer).answer = worker[w].answer
        BY <3>1 DEF AttemptOf
      <4>2. worker'[w].run = worker[w].run /\ worker'[w].answer = worker[w].answer
        BY <3>1, GotoFacts
      <4> QED BY <4>1, <4>2 DEF Answered
    <3> QED BY <3>1, <3>2, GotoFacts, RowsAloneTrue
  <2>6. CASE AppendFailure(w)
    <3>1. Goto(w, "failing", "failed") /\ {"failing", "failed"} \subseteq PCs
          /\ UNCHANGED storeVars /\ sent' = sent /\ attempts \subseteq attempts'
      BY <2>6 DEF AppendFailure, PCs
    <3> QED BY <3>1, GotoFacts, RowsAloneTrue
  <2>7. CASE MarkNeedsReconciliation(w)
    <3>1. /\ Return(w, "ambiguous", "NEEDS_RECONCILIATION", None)
          /\ UNCHANGED <<reconciliations, attempts, sent>>
      BY <2>7 DEF MarkNeedsReconciliation, journalVars
    <3>2. RowsKept
      BY <2>7, ReconcileIInv
    <3>3. PICK r \in Runs : r = worker[w].run
      BY <2>0, <3>1 DEF LocalsAgree, Return
    <3>4. \/ invocations' = invocations
          \/ invocations' = [invocations EXCEPT ![r].status = "NEEDS_RECONCILIATION"]
      BY <2>7, <3>3 DEF MarkNeedsReconciliation
    <3>5. CASE invocations' = invocations
      BY <3>1, <3>5, ReturnFacts, QuietTrue DEF storeVars
    <3>6. CASE invocations' = [invocations EXCEPT ![r].status = "NEEDS_RECONCILIATION"]
      <4>1. /\ \A q \in Runs : q # r => invocations'[q] = invocations[q]
            /\ invocations'[r] = [invocations[r] EXCEPT !.status = "NEEDS_RECONCILIATION"]
        BY <3>6 DEF IInv, TypeOK
      <4>2. invocations[r] \in Invocation
        BY <2>7, <3>3 DEF MarkNeedsReconciliation, IInv, TypeOK
      <4>3. invocations'[r].status = "NEEDS_RECONCILIATION"
        BY <4>1, <4>2 DEF Invocation
      <4>4. ~HasStatus(r, "DECISION_RECORDED")' /\ ~HasStatus(r, "ABANDONED_NO_ORDER")'
        BY <4>3 DEF HasStatus
      <4> QED BY <3>1, <3>2, <4>1, <4>4, ReturnFacts, RowMovedTrue
    <3> QED BY <3>4, <3>5, <3>6
  <2>8. CASE RecordDecision(w)
    <3>1. UNCHANGED <<reconciliations, attempts, sent>> /\ worker[w].pc = "record"
          /\ \E outcome, answer : Return(w, "record", outcome, answer)
      BY <2>8 DEF RecordDecision, journalVars
    <3>2. RowsKept
      BY <2>8, RecordDecisionIInv
    <3>3. PICK r \in Runs : r = worker[w].run
      BY <2>0, <3>1 DEF LocalsAgree
    <3>4. \/ invocations' = invocations
          \/ /\ HasStatus(r, "SEND_INTENT_RECORDED")
             /\ invocations' = [invocations EXCEPT ![r] =
                  [invocations[r] EXCEPT !.status = "DECISION_RECORDED",
                                         !.decision = worker[w].answer]]
      BY <2>8, <3>3 DEF RecordDecision, IInv, TypeOK
    <3>5. CASE invocations' = invocations
      BY <3>1, <3>5, ReturnFacts, QuietTrue DEF storeVars
    <3>6. CASE /\ HasStatus(r, "SEND_INTENT_RECORDED")
               /\ invocations' = [invocations EXCEPT ![r] =
                    [invocations[r] EXCEPT !.status = "DECISION_RECORDED",
                                           !.decision = worker[w].answer]]
      <4>1. /\ \A q \in Runs : q # r => invocations'[q] = invocations[q]
            /\ invocations'[r] = [invocations[r] EXCEPT !.status = "DECISION_RECORDED",
                                                        !.decision = worker[w].answer]
        BY <3>6 DEF IInv, TypeOK
      <4>2. invocations[r] \in Invocation
        BY <3>6 DEF HasStatus, IInv, TypeOK
      <4>3. invocations'[r].status = "DECISION_RECORDED"
            /\ invocations'[r].decision = worker[w].answer
        BY <4>1, <4>2 DEF Invocation
      <4>4. Answered(r, invocations'[r].decision)
        BY <3>1, <3>3, <4>3 DEF TruthInv
      <4>5. ~HasStatus(r, "ABANDONED_NO_ORDER")'
        BY <4>3 DEF HasStatus
      <4> QED BY <3>1, <3>2, <4>1, <4>4, <4>5, ReturnFacts, RowMovedTrue
    <3> QED BY <3>4, <3>5, <3>6
  <2> QED BY <1>1, <2>1, <2>2, <2>3, <2>4, <2>5, <2>6, <2>7, <2>8, SimpleStepsTrue DEF Step, Work
<1>2. ASSUME NEW w \in Workers, Crash(w) PROVE TruthInv'
  <2>1. worker'[w].pc = "idle" /\ \A v \in Workers : v # w => worker'[v] = worker[v]
    BY <1>2 DEF Crash, Idle, IInv, TypeOK
  <2> QED BY <1>2, <2>1, QuietTrue DEF Crash, journalVars
<1>3. ASSUME NEW r \in Runs, Abandon(r) PROVE TruthInv'
  <2>1. invocations[r] \in Invocation
    BY <1>3 DEF Abandon, HasStatus, IInv, TypeOK
  <2>2. /\ \A q \in Runs : q # r => invocations'[q] = invocations[q]
        /\ invocations'[r] = [invocations[r] EXCEPT !.status = "ABANDONED_NO_ORDER"]
        /\ reconciliations' = reconciliations \cup {r}
        /\ UNCHANGED <<attempts, sent, worker>>
    BY <1>3 DEF Abandon, IInv, TypeOK, journalVars
  <2>3. invocations'[r].status = "ABANDONED_NO_ORDER"
        /\ invocations'[r] \in Invocation
    BY <2>1, <2>2 DEF Invocation, Statuses
  <2>4. \A q \in Runs : HasStatus(q, "DECISION_RECORDED")' => q # r
    BY <2>3 DEF HasStatus
  <2>5. \A q \in Runs : HasStatus(q, "DECISION_RECORDED")' =>
          Answered(q, invocations[q].decision)'
    BY <2>2, <2>4 DEF TruthInv, HasStatus, Answered
  <2>6. \A q \in Runs : HasStatus(q, "ABANDONED_NO_ORDER")' => q \in reconciliations'
    BY <2>2 DEF TruthInv, HasStatus
  <2>7. \A q \in Runs : sent'[q] > 0 => invocations'[q] # None
    BY <2>2, <2>3, NoneAssumption DEF TruthInv
  <2> QED BY <2>2, <2>5, <2>6, <2>7 DEF TruthInv, Answered
<1>4. CASE UNCHANGED vars
  BY <1>4 DEF vars, storeVars, TruthInv, HasStatus, Answered
<1> QED BY <1>1, <1>2, <1>3, <1>4 DEF Next

LEMMA InitTrue == Init => TruthInv
BY DEF Init, TruthInv, HasStatus, Idle

\* A request that may have left the process is never forgotten, and a row claims a
\* decision only with a successful attempt of its run behind it (mark_send_intent,
\* record_decision), whether or not the journal is shared.
THEOREM SendsRecorded == Spec => []SendIsOnRecord
<1>1. TruthInv => SendIsOnRecord
  BY DEF TruthInv, SendIsOnRecord, HasStatus, Answered
<1> QED BY <1>1, InitTrue, StepTrue, InductiveInvariant, PTL DEF Spec

-----------------------------------------------------------------------------
(* An abandoned run stays undecided *)

\* The request of a run is frozen before it is first presented, so that processes
\* which take turns on a run all present the same one.
FrozenRequests == \A r \in Runs : \A f, g \in RequestsOf[FALSE][r] : f = g

Decided(r) == \E a \in attempts : a.run = r /\ a.answer # None

\* Calls and attempts are of requests that callers present.
PresentedInv ==
  /\ \A w \in Workers : worker[w].pc # "idle" => worker[w].fp \in RequestsOf[shared][worker[w].run]
  /\ \A a \in attempts : a.fp \in RequestsOf[shared][a.run]

\* With the journal to itself, a call that found no decision keeps finding none until
\* it appends one, its marker stays open meanwhile, and a run that is to be reconciled
\* has no answer in the journal.
UndecidedInv ==
  /\ \A w \in Workers :
       /\ worker[w].pc \notin {"idle", "lookup", "record"} => decisions[worker[w].fp] = None
       /\ worker[w].pc \in {"send", "waiting", "append"} =>
            HasStatus(worker[w].run, "SEND_INTENT_RECORDED")
  /\ \A r \in Runs :
       HasStatus(r, "NEEDS_RECONCILIATION") \/ HasStatus(r, "ABANDONED_NO_ORDER") => ~Decided(r)

ExclusiveInv == PresentedInv /\ (~shared => UndecidedInv)

LEMMA InitExclusive == Init => ExclusiveInv
BY DEF Init, ExclusiveInv, PresentedInv, UndecidedInv, HasStatus, Idle

\* The request of a call, and of the row that a call appends, is one of its run's.
LEMMA StepPresented == IInv /\ PresentedInv /\ [Next]_vars => PresentedInv'
<1> SUFFICES ASSUME IInv, PresentedInv, [Next]_vars PROVE PresentedInv'
  OBVIOUS
<1>0. worker \in [Workers -> WorkerState] /\ shared' = shared
  BY SharedIsFixed DEF IInv, TypeOK
<1>1. ASSUME NEW w \in Workers, NEW s,
             worker' = [worker EXCEPT ![w] = s],
             s.pc # "idle" => s.fp \in RequestsOf[shared][s.run],
             attempts' = attempts
      PROVE  PresentedInv'
  BY <1>0, <1>1 DEF PresentedInv
<1>2. ASSUME NEW w \in Workers, NEW from \in PCs \ {"idle"}, NEW to \in PCs, Goto(w, from, to),
             \A a \in attempts' \ attempts : a.run = worker[w].run /\ a.fp = worker[w].fp
      PROVE  PresentedInv'
  <2>1. worker[w].fp \in RequestsOf[shared][worker[w].run]
    BY <1>2 DEF PresentedInv, Goto
  <2>2. \A v \in Workers : worker'[v].fp = worker[v].fp /\ worker'[v].run = worker[v].run
    BY <1>2, GotoFacts
  <2>3. \A v \in Workers : worker'[v].pc # "idle" => worker[v].pc # "idle"
    BY <1>2, GotoFacts
  <2> QED BY <1>0, <1>2, <2>1, <2>2, <2>3 DEF PresentedInv
<1>3. ASSUME NEW w \in Workers, NEW from, NEW outcome, NEW answer,
             Return(w, from, outcome, answer), attempts' = attempts
      PROVE  PresentedInv'
  BY <1>0, <1>3, ReturnFacts DEF PresentedInv
<1>4. ASSUME NEW w \in Workers, Step(w) PROVE PresentedInv'
  <2>0. {"lookup", "inspect", "ambiguous", "credential", "begin", "failing", "failed", "send",
         "waiting", "append", "record"} \subseteq PCs \ {"idle"}
    BY DEF PCs
  <2>1. ASSUME NEW r \in Runs, NEW f \in Fingerprints, NEW t \in Times, Call(w, r, f, t)
        PROVE  PresentedInv'
    <3>1. [Idle EXCEPT !.pc = "lookup", !.run = r, !.fp = f, !.at = t].fp = f
          /\ [Idle EXCEPT !.pc = "lookup", !.run = r, !.fp = f, !.at = t].run = r
      BY DEF Idle
    <3> QED BY <1>1, <2>1, <3>1 DEF Call, journalVars
  <2>2. ASSUME NEW a \in Answers, Receive(w, a) PROVE PresentedInv'
    <3>1. /\ worker'[w].fp = worker[w].fp /\ worker'[w].run = worker[w].run
          /\ worker[w].pc # "idle" /\ \A v \in Workers : v # w => worker'[v] = worker[v]
      BY <1>0, <2>2 DEF Receive, WorkerState
    <3> QED BY <1>0, <2>2, <3>1 DEF PresentedInv, Receive, journalVars
  <2>3. CASE AppendDecision(w)
    <3>1. /\ Goto(w, "append", "record")
          /\ attempts' = attempts \cup {AttemptOf(w, worker[w].answer)}
      BY <2>3 DEF AppendDecision
    <3> QED BY <1>2, <2>0, <3>1 DEF AttemptOf
  <2>4. CASE AppendFailure(w)
    <3>1. /\ Goto(w, "failing", "failed")
          /\ attempts' \subseteq attempts \cup {AttemptOf(w, None)}
      BY <2>4 DEF AppendFailure
    <3> QED BY <1>2, <2>0, <3>1 DEF AttemptOf
  <2>5. CASE \/ LookupDecision(w) \/ InspectInvocation(w) \/ ReadCredential(w)
             \/ MarkSendIntent(w) \/ FailBeforeSend(w) \/ Send(w) \/ FailTransport(w)
             \/ AppendRefused(w) \/ HandleProviderError(w) \/ MarkNeedsReconciliation(w)
             \/ RecordDecision(w)
    <3>1. attempts' = attempts
      BY <2>5 DEF LookupDecision, InspectInvocation, ReadCredential, MarkSendIntent,
         FailBeforeSend, Send, FailTransport, AppendRefused, HandleProviderError,
         MarkNeedsReconciliation, RecordDecision, journalVars
    <3>2. \/ \E from \in PCs \ {"idle"}, to \in PCs : Goto(w, from, to)
          \/ \E from, outcome, answer : Return(w, from, outcome, answer)
      BY <2>0, <2>5 DEF LookupDecision, InspectInvocation, ReadCredential, MarkSendIntent,
         FailBeforeSend, Send, FailTransport, AppendRefused, HandleProviderError,
         MarkNeedsReconciliation, RecordDecision
    <3> QED BY <1>2, <1>3, <3>1, <3>2
  <2> QED BY <1>4, <2>1, <2>2, <2>3, <2>4, <2>5 DEF Step, Work
<1>5. ASSUME NEW w \in Workers, Crash(w) PROVE PresentedInv'
  BY <1>0, <1>1, <1>5 DEF Crash, Idle, journalVars
<1>6. ASSUME NEW r \in Runs, Abandon(r) PROVE PresentedInv'
  BY <1>0, <1>6 DEF Abandon, PresentedInv, journalVars
<1>7. CASE UNCHANGED vars
  BY <1>7 DEF vars, PresentedInv
<1> QED BY <1>4, <1>5, <1>6, <1>7 DEF Next

\* A caller without a decision for its request is one of a run without an answer.
LEMMA NoneMeansUndecided ==
  ASSUME FrozenRequests, ~shared, IInv, PresentedInv, NEW w \in Workers,
         worker[w].pc # "idle", decisions[worker[w].fp] = None
  PROVE  ~Decided(worker[w].run)
<1> SUFFICES ASSUME NEW a \in attempts, a.run = worker[w].run, a.answer # None PROVE FALSE
  BY DEF Decided
<1>1. worker[w].run \in Runs /\ shared = FALSE
  BY DEF IInv, TypeOK, LocalsInv, LocalsAgree
<1>2. a.fp = worker[w].fp
  BY <1>1 DEF PresentedInv, FrozenRequests
<1>3. decisions[a.fp] = [answer |-> a.answer, at |-> a.at]
  BY DEF IInv, JournalAudit
<1>4. a.fp \in Fingerprints
  BY DEF IInv, TypeOK, JournalAttempt
<1>5. [answer |-> a.answer, at |-> a.at] \in Decision
  BY <1>3, <1>4, <1>2, a \in JournalAttempt DEF IInv, TypeOK, JournalAttempt, Decision
<1> QED BY <1>2, <1>3, <1>5, NoneAssumption

\* A step of the one caller, which changes no row that it should not
LEMMA UndecidedStep ==
  ASSUME ~shared, IInv, SingleCallInv, UndecidedInv, NEW w \in Workers, Step(w),
         worker'[w].pc \notin {"idle", "lookup", "record"} => decisions'[worker'[w].fp] = None,
         worker'[w].pc \in {"send", "waiting", "append"} =>
           HasStatus(worker[w].run, "SEND_INTENT_RECORDED")',
         \A r \in Runs : (HasStatus(r, "NEEDS_RECONCILIATION") \/ HasStatus(r, "ABANDONED_NO_ORDER"))'
                           => ~Decided(r)'
  PROVE  UndecidedInv'
<1> SUFFICES ASSUME NEW v \in Workers
             PROVE  /\ worker'[v].pc \notin {"idle", "lookup", "record"} =>
                         decisions'[worker'[v].fp] = None
                    /\ worker'[v].pc \in {"send", "waiting", "append"} =>
                         HasStatus(worker[v].run, "SEND_INTENT_RECORDED")'
  BY DEF UndecidedInv
<1>1. CASE v = w
  BY <1>1
<1>2. CASE v # w
  BY <1>2, OthersIdle
<1> QED BY <1>1, <1>2

\* A step that leaves the journal and the rows alone, and goes to a state that promises
\* no more than the one it came from
LEMMA UndecidedQuiet ==
  ASSUME ~shared, IInv, SingleCallInv, UndecidedInv, NEW w \in Workers, Step(w),
         UNCHANGED <<invocations, decisions>>,
         \A a \in attempts' \ attempts : a.answer = None,
         NEW from \in PCs, NEW to \in PCs, Goto(w, from, to),
         to = "inspect" => decisions[worker[w].fp] = None,
         to \notin {"idle", "lookup", "record", "inspect"} => from \notin {"idle", "lookup", "record"},
         to \in {"send", "waiting", "append"} => from \in {"send", "waiting", "append"}
  PROVE  UndecidedInv'
<1>1. /\ worker[w].pc = from /\ worker'[w].pc = to
      /\ worker'[w].run = worker[w].run /\ worker'[w].fp = worker[w].fp
  BY GotoFacts
<1>2. \A r \in Runs : Decided(r)' => Decided(r)
  BY DEF Decided
<1>3. \A r \in Runs : (HasStatus(r, "NEEDS_RECONCILIATION") \/ HasStatus(r, "ABANDONED_NO_ORDER"))'
                        => ~Decided(r)'
  BY <1>2 DEF UndecidedInv, HasStatus
<1>4. worker'[w].pc \notin {"idle", "lookup", "record"} => decisions'[worker'[w].fp] = None
  BY <1>1 DEF UndecidedInv
<1>5. worker'[w].pc \in {"send", "waiting", "append"} =>
        HasStatus(worker[w].run, "SEND_INTENT_RECORDED")'
  BY <1>1 DEF UndecidedInv, HasStatus
<1> QED BY <1>3, <1>4, <1>5, UndecidedStep

\* A step after which the caller has returned
LEMMA UndecidedReturn ==
  ASSUME ~shared, IInv, SingleCallInv, UndecidedInv, NEW w \in Workers, Step(w),
         attempts' = attempts, worker'[w].pc \in {"idle", "lookup"},
         \A r \in Runs : (HasStatus(r, "NEEDS_RECONCILIATION") \/ HasStatus(r, "ABANDONED_NO_ORDER"))'
           => \/ HasStatus(r, "NEEDS_RECONCILIATION") \/ HasStatus(r, "ABANDONED_NO_ORDER")
              \/ ~Decided(r)
  PROVE  UndecidedInv'
BY UndecidedStep DEF UndecidedInv, Decided

LEMMA StepUndecided ==
  ASSUME FrozenRequests, ~shared, IInv, SingleCallInv, PresentedInv, UndecidedInv,
         NEW w \in Workers, Step(w)
  PROVE  UndecidedInv'
<1>0. /\ worker \in [Workers -> WorkerState] /\ worker[w] \in WorkerState
      /\ LocalsAgree(worker[w])
  BY DEF IInv, TypeOK, LocalsInv
<1>P. {"idle", "lookup", "inspect", "ambiguous", "credential", "begin", "failing", "failed", "send",
       "waiting", "append", "record"} \subseteq PCs
  BY DEF PCs
<1>1. ASSUME NEW r \in Runs, NEW f \in Fingerprints, NEW t \in Times, Call(w, r, f, t)
      PROVE  UndecidedInv'
  <2>1. worker'[w].pc = "lookup"
    BY <1>0, <1>1 DEF Call, Idle
  <2> QED BY <1>1, <2>1, UndecidedReturn DEF Call, storeVars, journalVars, HasStatus
<1>2. CASE LookupDecision(w)
  <2>1. UNCHANGED <<invocations, decisions, attempts>>
    BY <1>2 DEF LookupDecision, storeVars, journalVars
  <2>2. CASE decisions[worker[w].fp] = None
    BY <1>2, <1>P, <2>1, <2>2, UndecidedQuiet DEF LookupDecision
  <2>3. CASE decisions[worker[w].fp] # None
    <3>1. worker'[w].pc = "idle"
      BY <1>2, <2>3, ReturnFacts DEF LookupDecision
    <3> QED BY <2>1, <3>1, UndecidedReturn DEF HasStatus
  <2> QED BY <2>2, <2>3
<1>3. CASE \/ InspectInvocation(w) \/ FailBeforeSend(w) \/ Send(w) \/ FailTransport(w)
           \/ AppendRefused(w)
  <2>1. UNCHANGED <<invocations, decisions, attempts>>
    BY <1>3 DEF InspectInvocation, FailBeforeSend, Send, FailTransport, AppendRefused,
       storeVars, journalVars
  <2>2. \/ Goto(w, "inspect", "ambiguous") \/ Goto(w, "inspect", "credential")
        \/ Goto(w, "begin", "failing") \/ Goto(w, "send", "waiting") \/ Goto(w, "send", "failing")
        \/ Goto(w, "waiting", "failing") \/ Goto(w, "append", "failed")
    BY <1>3 DEF InspectInvocation, FailBeforeSend, Send, FailTransport, AppendRefused
  <2> QED BY <1>P, <2>1, <2>2, UndecidedQuiet
<1>4. CASE ReadCredential(w) \/ HandleProviderError(w)
  <2>1. UNCHANGED <<invocations, decisions, attempts>>
    BY <1>4 DEF ReadCredential, HandleProviderError, storeVars, journalVars
  <2>2. CASE Goto(w, "credential", "begin") \/ Goto(w, "failed", "ambiguous")
    BY <1>P, <2>1, <2>2, UndecidedQuiet
  <2>3. CASE \E from : Return(w, from, "FAILED_PRE_SEND", None)
    <3>1. worker'[w].pc = "idle"
      BY <2>3, ReturnFacts
    <3> QED BY <2>1, <3>1, UndecidedReturn DEF HasStatus
  <2> QED BY <1>4, <2>2, <2>3 DEF ReadCredential, HandleProviderError
<1>5. CASE AppendFailure(w)
  <2>1. UNCHANGED <<invocations, decisions>> /\ Goto(w, "failing", "failed")
        /\ \A a \in attempts' \ attempts : a.answer = None
    BY <1>5 DEF AppendFailure, AttemptOf, storeVars
  <2> QED BY <1>P, <2>1, UndecidedQuiet
<1>6. CASE MarkSendIntent(w)
  <2>1. Goto(w, "begin", "send") /\ UNCHANGED <<decisions, attempts>>
    BY <1>6 DEF MarkSendIntent, journalVars
  <2>2. /\ worker[w].pc = "begin" /\ worker'[w].pc = "send"
        /\ worker'[w].run = worker[w].run /\ worker'[w].fp = worker[w].fp
    BY <1>P, <2>1, GotoFacts
  <2>3. PICK r \in Runs : r = worker[w].run
    BY <1>0, <2>2 DEF LocalsAgree
  <2>4. /\ \A q \in Runs : q # r => invocations'[q] = invocations[q]
        /\ invocations'[r].status = "SEND_INTENT_RECORDED" /\ invocations'[r] # None
    <3>1. CASE invocations[r] = None
      <4>1. [status |-> "SEND_INTENT_RECORDED", fp |-> worker[w].fp, decision |-> None] \in Invocation
        BY <1>0, <2>2 DEF LocalsAgree, Invocation, Statuses
      <4> QED BY <1>6, <2>3, <3>1, <4>1, NoneAssumption DEF MarkSendIntent, IInv, TypeOK
    <3>2. CASE invocations[r] # None
      BY <1>6, <2>3, <3>2 DEF MarkSendIntent, MayMarkSendIntent
    <3> QED BY <3>1, <3>2
  <2>5. HasStatus(worker[w].run, "SEND_INTENT_RECORDED")'
    BY <2>2, <2>3, <2>4 DEF HasStatus
  <2>6. \A q \in Runs : (HasStatus(q, "NEEDS_RECONCILIATION") \/ HasStatus(q, "ABANDONED_NO_ORDER"))'
                          => ~Decided(q)'
    BY <2>1, <2>4 DEF HasStatus, UndecidedInv, Decided
  <2>7. decisions'[worker'[w].fp] = None
    BY <2>1, <2>2 DEF UndecidedInv
  <2> QED BY <2>5, <2>6, <2>7, UndecidedStep
<1>7. ASSUME NEW a \in Answers, Receive(w, a) PROVE UndecidedInv'
  <2>1. /\ worker[w].pc = "waiting" /\ worker'[w].pc = "append"
        /\ worker'[w].run = worker[w].run /\ worker'[w].fp = worker[w].fp
        /\ UNCHANGED <<invocations, decisions, attempts>>
    BY <1>0, <1>7 DEF Receive, WorkerState, storeVars, journalVars
  <2>2. /\ decisions'[worker'[w].fp] = None
        /\ HasStatus(worker[w].run, "SEND_INTENT_RECORDED")'
    BY <2>1 DEF UndecidedInv, HasStatus
  <2>3. \A r \in Runs : (HasStatus(r, "NEEDS_RECONCILIATION") \/ HasStatus(r, "ABANDONED_NO_ORDER"))'
                          => ~Decided(r)'
    BY <2>1 DEF UndecidedInv, HasStatus, Decided
  <2> QED BY <2>2, <2>3, UndecidedStep
<1>8. CASE AppendDecision(w)
  <2>1. /\ Goto(w, "append", "record") /\ invocations' = invocations
        /\ attempts' = attempts \cup {AttemptOf(w, worker[w].answer)}
        /\ AttemptOf(w, worker[w].answer).run = worker[w].run
    BY <1>8 DEF AppendDecision, AttemptOf, storeVars
  <2>2. worker[w].pc = "append" /\ worker'[w].pc = "record"
    BY <1>P, <2>1, GotoFacts
  <2>3. HasStatus(worker[w].run, "SEND_INTENT_RECORDED")
    BY <2>2 DEF UndecidedInv
  <2>4. \A r \in Runs : (HasStatus(r, "NEEDS_RECONCILIATION") \/ HasStatus(r, "ABANDONED_NO_ORDER"))'
                          => ~Decided(r)'
    BY <2>1, <2>3 DEF UndecidedInv, HasStatus, Decided
  <2> QED BY <2>2, <2>4, UndecidedStep
<1>9. CASE MarkNeedsReconciliation(w)
  <2>1. /\ worker[w].pc = "ambiguous" /\ worker'[w].pc = "idle" /\ attempts' = attempts
    BY <1>9, ReturnFacts DEF MarkNeedsReconciliation, journalVars
  <2>2. ~Decided(worker[w].run)
    BY <2>1, NoneMeansUndecided DEF UndecidedInv
  <2>3. \A r \in Runs : r # worker[w].run => invocations'[r] = invocations[r]
    BY <1>9 DEF MarkNeedsReconciliation, IInv, TypeOK
  <2> QED BY <2>1, <2>2, <2>3, UndecidedReturn DEF HasStatus
<1>10. CASE RecordDecision(w)
  <2>1. /\ worker[w].pc = "record" /\ worker'[w].pc = "idle" /\ attempts' = attempts
    BY <1>10, ReturnFacts DEF RecordDecision, journalVars
  <2>2. PICK r \in Runs : r = worker[w].run
    BY <1>0, <2>1 DEF LocalsAgree
  <2>3. /\ \A q \in Runs : q # r => invocations'[q] = invocations[q]
        /\ invocations'[r] = invocations[r] \/ invocations'[r].status = "DECISION_RECORDED"
    <3>1. CASE invocations' = invocations
      BY <3>1
    <3>2. CASE /\ HasStatus(r, "SEND_INTENT_RECORDED")
               /\ invocations' = [invocations EXCEPT ![r] =
                    [invocations[r] EXCEPT !.status = "DECISION_RECORDED",
                                           !.decision = worker[w].answer]]
      <4>1. invocations[r] \in Invocation
        BY <3>2 DEF HasStatus, IInv, TypeOK
      <4>2. [invocations[r] EXCEPT !.status = "DECISION_RECORDED",
                                   !.decision = worker[w].answer].status = "DECISION_RECORDED"
        BY <4>1 DEF Invocation
      <4> QED BY <3>2, <4>2 DEF IInv, TypeOK
    <3> QED BY <1>10, <2>2, <3>1, <3>2 DEF RecordDecision, IInv, TypeOK
  <2> QED BY <2>1, <2>3, UndecidedReturn DEF HasStatus
<1> QED BY <1>1, <1>2, <1>3, <1>4, <1>5, <1>6, <1>7, <1>8, <1>9, <1>10 DEF Step, Work

LEMMA StepExclusive ==
  FrozenRequests /\ IInv /\ AloneInv /\ ExclusiveInv /\ [Next]_vars => ExclusiveInv'
<1> SUFFICES ASSUME FrozenRequests, IInv, AloneInv, ExclusiveInv, [Next]_vars
             PROVE  ExclusiveInv'
  OBVIOUS
<1>1. PresentedInv'
  BY StepPresented DEF ExclusiveInv
<1>2. ASSUME ~shared PROVE UndecidedInv'
  <2>0. SingleCallInv /\ UndecidedInv /\ PresentedInv
    BY <1>2 DEF AloneInv, ExclusiveInv
  <2>1. ASSUME NEW w \in Workers, Step(w) PROVE UndecidedInv'
    BY <1>2, <2>0, <2>1, StepUndecided
  <2>2. ASSUME NEW w \in Workers, Crash(w) PROVE UndecidedInv'
    <3>1. \A v \in Workers : worker'[v] = worker[v] \/ worker'[v].pc = "idle"
      BY <2>2 DEF Crash, Idle, IInv, TypeOK
    <3>2. UNCHANGED <<invocations, decisions, attempts>>
      BY <2>2 DEF Crash, storeVars, journalVars
    <3> QED BY <2>0, <3>1, <3>2 DEF UndecidedInv, HasStatus, Decided
  <2>3. ASSUME NEW r \in Runs, Abandon(r) PROVE UndecidedInv'
    <3>1. /\ HasStatus(r, "NEEDS_RECONCILIATION")
          /\ \A q \in Runs : q # r => invocations'[q] = invocations[q]
          /\ UNCHANGED <<decisions, attempts, worker>>
      BY <2>3 DEF Abandon, IInv, TypeOK, journalVars
    <3>2. \A v \in Workers : worker[v].pc \in {"send", "waiting", "append"} =>
            worker[v].run # r /\ worker[v].run \in Runs
      BY <2>0, <3>1 DEF UndecidedInv, HasStatus, IInv, LocalsInv, LocalsAgree
    <3>3. \A v \in Workers : worker[v].pc \in {"send", "waiting", "append"} =>
            HasStatus(worker[v].run, "SEND_INTENT_RECORDED")'
      BY <2>0, <3>1, <3>2 DEF UndecidedInv, HasStatus
    <3>4. \A q \in Runs : (HasStatus(q, "NEEDS_RECONCILIATION") \/ HasStatus(q, "ABANDONED_NO_ORDER"))'
                            => ~Decided(q)'
      BY <2>0, <3>1 DEF UndecidedInv, HasStatus, Decided
    <3> QED BY <2>0, <3>1, <3>3, <3>4 DEF UndecidedInv
  <2>4. CASE UNCHANGED vars
    BY <2>0, <2>4 DEF vars, UndecidedInv, HasStatus, Decided
  <2> QED BY <2>1, <2>2, <2>3, <2>4 DEF Next
<1> QED BY <1>1, <1>2, SharedIsFixed DEF ExclusiveInv

\* Where the request of a run is frozen, the row of a run never says less than what
\* happened to it, nor more: a request that may have left is on record, and a run
\* that was abandoned has no answer in a journal that one process at a time opens
\* (run_decision, reconcile_abandon).
THEOREM RowsAreTrue == FrozenRequests => (Spec => []InvocationsAreTrue)
<1> SUFFICES ASSUME FrozenRequests PROVE Spec => []InvocationsAreTrue
  OBVIOUS
<1>1. IInv /\ AloneInv /\ ExclusiveInv /\ [Next]_vars => ExclusiveInv'
  BY StepExclusive
<1>2. TruthInv /\ ExclusiveInv => InvocationsAreTrue
  BY DEF TruthInv, ExclusiveInv, UndecidedInv, Decided, Answered, InvocationsAreTrue,
     SendIsOnRecord, AbandonedStaysUndecided, HasStatus
<1> QED BY <1>1, <1>2, InitTrue, StepTrue, InitExclusive, InductiveInvariant, AloneCorrect, PTL
           DEF Spec

=============================================================================
