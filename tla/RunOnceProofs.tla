---------------------------- MODULE RunOnceProofs ----------------------------
(***************************************************************************)
(* Proofs about RunOnce, for every number of processes, markets, schedules *)
(* and readings of the clock: a market decides only in its window, and a   *)
(* report that is published lands whole.                                   *)
(***************************************************************************)
EXTENDS RunOnce, WellFoundedInduction, TLAPS

PCs == {"idle", "market", "decide", "raised", "leave", "create", "write", "replace", "cleanup"}
Publishing == {"create", "write", "replace", "cleanup"}

WakeState ==
  [pc : PCs, at : Nat, outcomes : Seq(Outcomes), id : Reported \cup {None},
   text : Texts \cup {None}]
TempFile == [id : Reported, by : Wakes, whole : BOOLEAN]
Report == [text : Texts, whole : BOOLEAN]

TypeInv ==
  /\ now \in Instants /\ zone \in Zones /\ locked \in BOOLEAN
  /\ switches \subseteq Switches
  /\ holder \in Wakes \cup {None}
  /\ wake \in [Wakes -> WakeState]
  /\ reports \in [Reported -> Report \cup {None}]
  /\ temps \subseteq TempFile

\* Under the lock, exactly the process that holds it is awake.
LockInv == locked => \A w \in Wakes : wake[w].pc # "idle" <=> holder = w

FileOf(me, w, whole) == [id |-> me.id, by |-> w, whole |-> whole]

\* What process w relies on between its steps: that the session it decides on had
\* closed, and, while it publishes, what its temporary files are.
WInv(me, w, files) ==
  /\ Len(me.outcomes) <= Len(Order)
  /\ me.pc = "decide" =>
       /\ Len(me.outcomes) < Len(Order)
       /\ HasClosed(Order[Len(me.outcomes) + 1], LocalDate(me.at, zone), me.at)
  /\ me.pc \in Publishing => me.id \in Reported /\ me.text \in Texts
  /\ me.pc = "replace" => FileOf(me, w, FALSE) \notin files
  /\ locked =>
       /\ me.pc = "write" => FileOf(me, w, FALSE) \in files
       /\ me.pc = "replace" => FileOf(me, w, TRUE) \in files
       /\ me.pc = "leave" => \A t \in files : t.id # me.id

WholeReports == \A id \in Reported : reports[id] # None => reports[id].whole

IInv ==
  /\ TypeInv /\ LockInv /\ WholeReports
  /\ \A w \in Wakes : WInv(wake[w], w, temps)

-----------------------------------------------------------------------------
(* The clock and the calendar *)

\* A set of naturals has a least element.
LEMMA LeastExists ==
  ASSUME NEW S \in SUBSET Nat, S # {}
  PROVE  \E n \in S : \A m \in S : n <= m
<1> DEFINE less == {ss \in Nat \X Nat : ss[1] < ss[2]}
<1>1. IsWellFoundedOn(less, Nat)
  BY NatLessThanWellFounded DEF OpToRel
<1>2. \E n \in S : \A m \in S : <<m, n>> \notin less
  <2> HIDE DEF less
  <2> QED BY <1>1, WFMin
<1>3. PICK n \in S : \A m \in S : <<m, n>> \notin less
  BY <1>2
<1>4. ASSUME NEW m \in S, m < n PROVE FALSE
  <2>1. <<m, n>> \in less
    BY <1>4
  <2> QED BY <1>3, <2>1
<1> QED BY <1>3, <1>4

\* The date at an instant of a clock at or east of Greenwich has not begun later in UTC.
LEMMA DatesAreDays ==
  ASSUME NEW t \in Nat, NEW z \in Int, z >= 0, NEW u \in Nat,
         LocalDate(u, 0) > LocalDate(t, z)
  PROVE  t < u
<1>1. /\ (t + z) \div 24 \in Int /\ t + z < 24 * ((t + z) \div 24) + 24
      /\ (u + 0) \div 24 \in Int /\ 24 * ((u + 0) \div 24) <= u + 0
  OBVIOUS
<1> QED BY <1>1 DEF LocalDate

-----------------------------------------------------------------------------
(* Steps *)

\* The state of a process changes; the others keep theirs.
LEMMA BecomeShape ==
  ASSUME TypeInv, NEW w \in Wakes, NEW next \in WakeState, Become(w, next)
  PROVE  /\ wake' \in [Wakes -> WakeState] /\ wake'[w] = next
         /\ \A v \in Wakes : v # w => wake'[v] = wake[v]
BY DEF TypeInv, Become

LEMMA IdleFits == Idle \in WakeState /\ \A w, files : WInv(Idle, w, files)
<1>1. Order \in Seq(Markets) /\ Len(Order) \in Nat
  BY RunOnceAssumption
<1> QED BY <1>1 DEF Idle, WakeState, PCs, WInv, Publishing

\* A process that goes on keeps the invariant, if it writes no file of another's.
LEMMA GoesOn ==
  ASSUME IInv, NEW w \in Wakes, wake[w].pc # "idle",
         NEW next \in WakeState, next.pc # "idle", Become(w, next),
         UNCHANGED <<now, zone, locked, holder, switches>>,
         temps' \subseteq TempFile, \A t \in temps' : t.by = w \/ t \in temps,
         reports' \in [Reported -> Report \cup {None}], WholeReports',
         WInv(next, w, temps')
  PROVE  IInv'
<1>1. /\ wake' \in [Wakes -> WakeState] /\ wake'[w] = next
      /\ \A v \in Wakes : v # w => wake'[v] = wake[v]
  BY BecomeShape DEF IInv
<1>2. TypeInv' /\ LockInv'
  BY <1>1 DEF IInv, TypeInv, LockInv
<1>3. ASSUME NEW v \in Wakes PROVE WInv(wake[v], v, temps)'
  <2>1. CASE v = w
    BY <1>1, <2>1 DEF WInv
  <2>2. CASE v # w
    <3>1. wake'[v] = wake[v] /\ WInv(wake[v], v, temps)
      BY <1>1, <2>2 DEF IInv
    <3>2. locked => wake[v].pc = "idle"
      BY <2>2 DEF IInv, LockInv
    <3>3. FileOf(wake[v], v, FALSE) \in temps' => FileOf(wake[v], v, FALSE) \in temps
      <4>1. FileOf(wake[v], v, FALSE).by = v
        BY DEF FileOf
      <4> QED BY <2>2, <4>1
    <3> QED BY <3>1, <3>2, <3>3 DEF WInv
  <2> QED BY <2>1, <2>2
<1> QED BY <1>2, <1>3 DEF IInv

\* A process that ends gives back the lock.
LEMMA Ends ==
  ASSUME IInv, NEW w \in Wakes, wake[w].pc # "idle", Become(w, Idle),
         holder' = IF holder = w THEN None ELSE holder,
         UNCHANGED <<now, zone, locked, switches, reports, temps>>
  PROVE  IInv'
<1>1. /\ wake' \in [Wakes -> WakeState] /\ wake'[w] = Idle
      /\ \A v \in Wakes : v # w => wake'[v] = wake[v]
  BY BecomeShape, IdleFits DEF IInv
<1>2. TypeInv'
  BY <1>1 DEF IInv, TypeInv
<1>3. LockInv'
  BY <1>1, RunOnceAssumption DEF IInv, LockInv, Idle
<1>4. \A v \in Wakes : WInv(wake[v], v, temps)'
  <2> SUFFICES ASSUME NEW v \in Wakes PROVE WInv(wake'[v], v, temps)
    BY DEF WInv
  <2>1. CASE v = w
    BY <1>1, <2>1, IdleFits
  <2>2. CASE v # w
    BY <1>1, <2>2 DEF IInv
  <2> QED BY <2>1, <2>2
<1> QED BY <1>2, <1>3, <1>4 DEF IInv, WholeReports

\* A step that leaves the processes and the files alone keeps what they rely on.
LEMMA Surroundings ==
  ASSUME IInv, UNCHANGED <<zone, locked, holder, wake, reports, temps>>,
         now' \in Instants, switches' \subseteq Switches
  PROVE  IInv'
BY DEF IInv, TypeInv, LockInv, WholeReports, WInv

LEMMA InitIInv == Init => IInv
<1> SUFFICES ASSUME Init PROVE IInv
  OBVIOUS
<1>1. now \in Instants
  <2>1. \E t \in Instants : \A u \in Instants : t <= u
    BY RunOnceAssumption, LeastExists
  <2> QED BY <2>1 DEF Init
<1>2. \A w \in Wakes : wake[w] = Idle
  BY DEF Init
<1>3. TypeInv
  BY <1>1, IdleFits DEF Init, TypeInv
<1>4. LockInv
  BY <1>2, RunOnceAssumption DEF Init, LockInv, Idle
<1>5. WholeReports
  BY DEF Init, WholeReports
<1>6. \A w \in Wakes : WInv(wake[w], w, temps)
  BY <1>2, IdleFits
<1> QED BY <1>3, <1>4, <1>5, <1>6 DEF IInv

\* A process wakes where no other holds the lock.
LEMMA WakeKeeps ==
  ASSUME IInv, NEW w \in Wakes, Wake(w)
  PROVE  IInv'
<1> DEFINE next == [Idle EXCEPT !.pc = "market", !.at = now]
<1>1. /\ wake[w].pc = "idle" /\ (locked => holder = None)
      /\ holder' = IF locked THEN w ELSE None
      /\ Become(w, next) /\ UNCHANGED <<now, zone, locked, switches, reports, temps>>
  BY DEF Wake, At, MayAcquire
<1>2. /\ next \in WakeState /\ next.pc = "market" /\ next.outcomes = <<>>
  BY IdleFits, RunOnceAssumption DEF IInv, TypeInv, Idle, WakeState, PCs
<1>3. WInv(next, w, temps)
  <2>1. Len(next.outcomes) <= Len(Order)
    BY <1>2, RunOnceAssumption
  <2> HIDE DEF next
  <2> QED BY <1>2, <2>1 DEF WInv, Publishing
<1> HIDE DEF next
<1>4. /\ wake' \in [Wakes -> WakeState] /\ wake'[w] = next
      /\ \A v \in Wakes : v # w => wake'[v] = wake[v]
  BY <1>1, <1>2, BecomeShape DEF IInv
<1>5. TypeInv'
  BY <1>1, <1>4 DEF IInv, TypeInv
<1>6. LockInv'
  BY <1>1, <1>2, <1>4, RunOnceAssumption DEF IInv, LockInv
<1>7. \A v \in Wakes : WInv(wake[v], v, temps)'
  <2> SUFFICES ASSUME NEW v \in Wakes PROVE WInv(wake'[v], v, temps)
    BY <1>1 DEF WInv
  <2> QED BY <1>3, <1>4 DEF IInv
<1> QED BY <1>1, <1>5, <1>6, <1>7 DEF IInv, WholeReports

\* The visit of a market: the outcome is appended, or the market's session had closed.
LEMMA MarketsKeep ==
  ASSUME IInv, NEW w \in Wakes,
         RunMarket(w) \/ Decide(w) \/ DecideFails(w) \/ EndQuietly(w)
  PROVE  IInv'
<1> DEFINE me == wake[w]
<1>1. me \in WakeState /\ WInv(me, w, temps) /\ Len(me.outcomes) \in Nat
  BY DEF IInv, TypeInv, WakeState
<1>2. Order \in Seq(Markets) /\ Len(Order) \in Nat
  BY RunOnceAssumption
<1>3. ASSUME NEW next \in WakeState, Become(w, next), WInv(next, w, temps),
             me.pc # "idle", next.pc # "idle",
             UNCHANGED <<now, zone, locked, holder, switches, reports, temps>>
      PROVE  IInv'
  <2>1. /\ temps' \subseteq TempFile /\ (\A t \in temps' : t.by = w \/ t \in temps)
        /\ reports' \in [Reported -> Report \cup {None}] /\ WholeReports'
        /\ WInv(next, w, temps')
    BY <1>3 DEF IInv, TypeInv, WholeReports
  <2> QED BY <1>3, <2>1, GoesOn
<1>4. ASSUME NEW outcome \in Outcomes, Len(me.outcomes) < Len(Order), me.pc # "idle",
             Become(w, [me EXCEPT !.pc = "market", !.outcomes = Append(@, outcome)]),
             UNCHANGED <<now, zone, locked, holder, switches, reports, temps>>
      PROVE  IInv'
  <2> DEFINE next == [me EXCEPT !.pc = "market", !.outcomes = Append(@, outcome)]
  <2>1. /\ Append(me.outcomes, outcome) \in Seq(Outcomes)
        /\ Len(Append(me.outcomes, outcome)) = Len(me.outcomes) + 1
    BY <1>1, <1>4 DEF WakeState
  <2>2. /\ next \in WakeState /\ next.pc = "market"
        /\ next.outcomes = Append(me.outcomes, outcome)
    BY <1>1, <2>1 DEF WakeState, PCs
  <2>3. Len(next.outcomes) <= Len(Order)
    BY <1>1, <1>2, <1>4, <2>1, <2>2
  <2>4. Become(w, next)
    BY <1>4
  <2> HIDE DEF next
  <2>5. WInv(next, w, temps)
    BY <2>2, <2>3 DEF WInv, Publishing
  <2> QED BY <1>3, <1>4, <2>2, <2>4, <2>5
<1>5. CASE RunMarket(w)
  <2> DEFINE outcome == Skipped(w, Market(w))
  <2>1. /\ me.pc = "market" /\ Len(me.outcomes) < Len(Order)
        /\ UNCHANGED <<now, zone, locked, holder, switches, reports, temps>>
        /\ Become(w, IF outcome = None THEN [me EXCEPT !.pc = "decide"]
                     ELSE [me EXCEPT !.outcomes = Append(@, outcome)])
    BY <1>5 DEF RunMarket, At
  <2>2. CASE outcome = None
    <3> DEFINE next == [me EXCEPT !.pc = "decide"]
    <3>1. /\ next \in WakeState /\ next.pc = "decide" /\ next.outcomes = me.outcomes
          /\ next.at = me.at
      BY <1>1 DEF WakeState, PCs
    <3>2. Become(w, next)
      BY <2>1, <2>2
    <3>3. HasClosed(Market(w), Today(w), wake[w].at)
      BY <2>2, RunOnceAssumption DEF Skipped, Outcomes
    <3> HIDE DEF next
    <3>4. WInv(next, w, temps)
      BY <1>1, <2>1, <3>1, <3>3 DEF WInv, Publishing, Market, Today
    <3> QED BY <1>3, <2>1, <3>1, <3>2, <3>4
  <2>3. CASE outcome # None
    <3>1. outcome \in Outcomes
      BY <2>3 DEF Skipped, Outcomes
    <3>2. [me EXCEPT !.outcomes = Append(@, outcome)]
            = [me EXCEPT !.pc = "market", !.outcomes = Append(@, outcome)]
      BY <1>1, <2>1 DEF WakeState
    <3>3. Become(w, [me EXCEPT !.pc = "market", !.outcomes = Append(@, outcome)])
      BY <2>1, <2>3, <3>2
    <3> HIDE DEF outcome
    <3> QED BY <1>4, <2>1, <3>1, <3>3
  <2> QED BY <2>2, <2>3
<1>6. CASE Decide(w)
  <2>1. /\ me.pc = "decide" /\ Len(me.outcomes) < Len(Order)
        /\ UNCHANGED <<now, zone, locked, holder, switches, reports, temps>>
        /\ Become(w, [me EXCEPT !.pc = "market", !.outcomes = Append(@, "PROCESSED")])
    BY <1>1, <1>6 DEF Decide, At, WInv
  <2> QED BY <1>4, <2>1 DEF Outcomes
<1>7. CASE DecideFails(w)
  <2> DEFINE next == [me EXCEPT !.pc = "raised"]
  <2>1. /\ me.pc = "decide" /\ Become(w, next)
        /\ UNCHANGED <<now, zone, locked, holder, switches, reports, temps>>
    BY <1>7 DEF DecideFails, At
  <2>2. /\ next \in WakeState /\ next.pc = "raised" /\ next.outcomes = me.outcomes
    BY <1>1 DEF WakeState, PCs
  <2> HIDE DEF next
  <2>3. WInv(next, w, temps)
    BY <1>1, <2>2 DEF WInv, Publishing
  <2> QED BY <1>3, <2>1, <2>2, <2>3
<1>8. CASE EndQuietly(w)
  <2> DEFINE next == [Idle EXCEPT !.pc = "leave"]
  <2>1. /\ me.pc = "market" /\ Become(w, next)
        /\ UNCHANGED <<now, zone, locked, holder, switches, reports, temps>>
    BY <1>8 DEF EndQuietly, At
  <2>2. /\ next \in WakeState /\ next.pc = "leave" /\ next.outcomes = <<>> /\ next.id = None
    BY IdleFits DEF Idle, WakeState, PCs
  <2>3. \A t \in temps : t.id # None
    BY RunOnceAssumption DEF IInv, TypeInv, TempFile
  <2>4. Len(next.outcomes) <= Len(Order)
    BY <1>2, <2>2
  <2> HIDE DEF next
  <2>5. WInv(next, w, temps)
    BY <2>2, <2>3, <2>4 DEF WInv, Publishing
  <2> QED BY <1>3, <2>1, <2>2, <2>5
<1> QED BY <1>5, <1>6, <1>7, <1>8

\* The publication: the temporary file is the process's own, written before it is put
\* in place, and removed with all others of its report.
LEMMA ReportKeeps ==
  ASSUME IInv, NEW w \in Wakes,
         \/ \E i \in DOMAIN Order, text \in Texts : BeginReport(w, i, text)
         \/ CreateTemp(w) \/ WriteTemp(w) \/ ReplaceReport(w) \/ Cleanup(w)
  PROVE  IInv'
<1> DEFINE me == wake[w]
<1>1. /\ me \in WakeState /\ WInv(me, w, temps) /\ temps \subseteq TempFile
      /\ WholeReports /\ reports \in [Reported -> Report \cup {None}]
  BY DEF IInv, TypeInv
<1>2. Order \in Seq(Markets) /\ Len(Order) \in Nat
  BY RunOnceAssumption
<1>3. \A whole \in BOOLEAN : Temp(w, whole) = FileOf(me, w, whole)
  BY DEF Temp, FileOf
<1>4. me.id \in Reported => \A whole \in BOOLEAN : FileOf(me, w, whole) \in TempFile
  BY DEF FileOf, TempFile
<1>5. \A whole \in BOOLEAN : FileOf(me, w, whole).by = w
  BY DEF FileOf
<1>6. FileOf(me, w, TRUE) # FileOf(me, w, FALSE)
  <2>1. FileOf(me, w, TRUE).whole # FileOf(me, w, FALSE).whole
    BY DEF FileOf
  <2> QED BY <2>1
<1>7. CASE \E i \in DOMAIN Order, text \in Texts : BeginReport(w, i, text)
  <2>1. PICK i \in DOMAIN Order, text \in Texts : BeginReport(w, i, text)
    BY <1>7
  <2> DEFINE id == <<Order[i], me.outcomes[i]>>
             next == [Idle EXCEPT !.pc = "create", !.id = id, !.text = text]
  <2>2. /\ me.pc = "market" /\ id \in Reported /\ Become(w, next)
        /\ UNCHANGED <<now, zone, locked, holder, switches, reports, temps>>
    BY <2>1 DEF BeginReport, At
  <2> HIDE DEF id
  <2>3. /\ next \in WakeState /\ next.pc = "create" /\ next.outcomes = <<>>
        /\ next.id \in Reported /\ next.text \in Texts
    BY <2>2, IdleFits DEF Idle, WakeState, PCs
  <2>4. Len(next.outcomes) <= Len(Order)
    BY <1>2, <2>3
  <2> HIDE DEF next
  <2>5. WInv(next, w, temps)
    BY <2>3, <2>4 DEF WInv
  <2> QED BY <1>1, <2>2, <2>3, <2>5, GoesOn DEF WholeReports
<1>8. CASE CreateTemp(w)
  <2> DEFINE next == [me EXCEPT !.pc = "write"]
  <2>1. /\ me.pc = "create" /\ Become(w, next)
        /\ temps' = (temps \ {FileOf(me, w, TRUE)}) \cup {FileOf(me, w, FALSE)}
        /\ UNCHANGED <<now, zone, locked, holder, switches, reports>>
    BY <1>3, <1>8 DEF CreateTemp, At
  <2>2. me.id \in Reported /\ me.text \in Texts
    BY <1>1, <2>1 DEF WInv, Publishing
  <2>3. /\ next \in WakeState /\ next.pc = "write" /\ next.outcomes = me.outcomes
        /\ next.id = me.id /\ next.text = me.text
    BY <1>1 DEF WakeState, PCs
  <2>4. temps' \subseteq TempFile /\ \A t \in temps' : t.by = w \/ t \in temps
    BY <1>1, <1>4, <1>5, <2>1, <2>2
  <2> HIDE DEF next
  <2>5. WInv(next, w, temps')
    <3>1. FileOf(next, w, FALSE) = FileOf(me, w, FALSE)
      BY <2>3 DEF FileOf
    <3> QED BY <1>1, <2>1, <2>2, <2>3, <3>1 DEF WInv
  <2> QED BY <1>1, <2>1, <2>3, <2>4, <2>5, GoesOn DEF WholeReports
<1>9. CASE WriteTemp(w)
  <2> DEFINE next == [me EXCEPT !.pc = "replace"]
  <2>1. /\ me.pc = "write" /\ Become(w, next)
        /\ temps' = IF FileOf(me, w, FALSE) \in temps
                    THEN (temps \ {FileOf(me, w, FALSE)}) \cup {FileOf(me, w, TRUE)} ELSE temps
        /\ UNCHANGED <<now, zone, locked, holder, switches, reports>>
    BY <1>3, <1>9 DEF WriteTemp, At
  <2>2. me.id \in Reported /\ me.text \in Texts
    BY <1>1, <2>1 DEF WInv, Publishing
  <2>3. /\ next \in WakeState /\ next.pc = "replace" /\ next.outcomes = me.outcomes
        /\ next.id = me.id /\ next.text = me.text
    BY <1>1 DEF WakeState, PCs
  <2>4. temps' \subseteq TempFile /\ \A t \in temps' : t.by = w \/ t \in temps
    BY <1>1, <1>4, <1>5, <2>1, <2>2
  <2>5. FileOf(me, w, FALSE) \notin temps'
    BY <1>6, <2>1
  <2>6. locked => FileOf(me, w, TRUE) \in temps'
    BY <1>1, <2>1 DEF WInv
  <2> HIDE DEF next
  <2>7. WInv(next, w, temps')
    <3>1. \A whole \in BOOLEAN : FileOf(next, w, whole) = FileOf(me, w, whole)
      BY <2>3 DEF FileOf
    <3> QED BY <1>1, <2>2, <2>3, <2>5, <2>6, <3>1 DEF WInv
  <2> QED BY <1>1, <2>1, <2>3, <2>4, <2>7, GoesOn DEF WholeReports
<1>10. CASE ReplaceReport(w)
  <2>1. /\ me.pc = "replace" /\ UNCHANGED <<now, zone, locked, holder, switches>>
        /\ FileOf(me, w, FALSE) \notin temps
    BY <1>1, <1>10 DEF ReplaceReport, At, WInv
  <2>2. me.id \in Reported /\ me.text \in Texts
    BY <1>1, <2>1 DEF WInv, Publishing
  <2>3. CASE FileOf(me, w, TRUE) \in temps
    <3> DEFINE next == [me EXCEPT !.pc = "cleanup"]
               report == [text |-> me.text, whole |-> TRUE]
    <3>1. /\ Become(w, next) /\ reports' = [reports EXCEPT ![me.id] = report]
          /\ temps' = temps \ {FileOf(me, w, TRUE)}
      BY <1>3, <1>10, <2>1, <2>3 DEF ReplaceReport
    <3>2. /\ next \in WakeState /\ next.pc = "cleanup" /\ next.outcomes = me.outcomes
          /\ next.id = me.id /\ next.text = me.text
      BY <1>1 DEF WakeState, PCs
    <3>3. report \in Report /\ report.whole
      BY <2>2 DEF Report
    <3> HIDE DEF next, report
    <3>4. reports' \in [Reported -> Report \cup {None}] /\ WholeReports'
      BY <1>1, <2>2, <3>1, <3>3 DEF WholeReports
    <3>5. temps' \subseteq TempFile /\ \A t \in temps' : t.by = w \/ t \in temps
      BY <1>1, <3>1
    <3>6. WInv(next, w, temps')
      BY <1>1, <2>2, <3>2 DEF WInv
    <3> QED BY <2>1, <3>1, <3>2, <3>4, <3>5, <3>6, GoesOn
  <2>4. CASE FileOf(me, w, TRUE) \notin temps
    <3> DEFINE next == [me EXCEPT !.pc = "raised"]
    <3>1. Become(w, next) /\ UNCHANGED <<reports, temps>>
      <4>1. ~\E whole \in BOOLEAN : Temp(w, whole) \in temps
        BY <1>3, <2>1, <2>4
      <4> QED BY <1>10, <4>1 DEF ReplaceReport
    <3>2. /\ next \in WakeState /\ next.pc = "raised" /\ next.outcomes = me.outcomes
      BY <1>1 DEF WakeState, PCs
    <3> HIDE DEF next
    <3>3. WInv(next, w, temps)
      BY <1>1, <3>2 DEF WInv, Publishing
    <3> QED BY <1>1, <2>1, <3>1, <3>2, <3>3, GoesOn DEF WholeReports
  <2> QED BY <2>3, <2>4
<1>11. CASE Cleanup(w)
  <2> DEFINE next == [me EXCEPT !.pc = "leave"]
  <2>1. /\ me.pc = "cleanup" /\ Become(w, next) /\ temps' = temps \ {t \in temps : t.id = me.id}
        /\ UNCHANGED <<now, zone, locked, holder, switches, reports>>
    BY <1>11 DEF Cleanup, CleanupStaleTmp, At
  <2>2. /\ next \in WakeState /\ next.pc = "leave" /\ next.outcomes = me.outcomes
        /\ next.id = me.id
    BY <1>1 DEF WakeState, PCs
  <2>3. temps' \subseteq TempFile /\ \A t \in temps' : t.by = w \/ t \in temps
    BY <1>1, <2>1
  <2> HIDE DEF next
  <2>4. WInv(next, w, temps')
    BY <1>1, <2>1, <2>2 DEF WInv, Publishing
  <2> QED BY <1>1, <2>1, <2>2, <2>3, <2>4, GoesOn DEF WholeReports
<1> QED BY <1>7, <1>8, <1>9, <1>10, <1>11

LEMMA NextIInv == IInv /\ [Next]_vars => IInv'
<1> SUFFICES ASSUME IInv, [Next]_vars PROVE IInv'
  OBVIOUS
<1>1. ASSUME NEW w \in Wakes, Wake(w) PROVE IInv'
  BY <1>1, WakeKeeps
<1>2. ASSUME NEW w \in Wakes, Work(w) PROVE IInv'
  <2>1. CASE Leave(w) \/ Raise(w)
    BY <2>1, Ends DEF Leave, Raise, FreeLock, At
  <2> QED BY <1>2, <2>1, MarketsKeep, ReportKeeps DEF Work
<1>3. ASSUME NEW w \in Wakes, Crash(w) PROVE IInv'
  BY <1>3, Ends DEF Crash, At
<1>4. ASSUME NEW s \in Switches, SetKillSwitch(s) \/ ClearKillSwitch(s) PROVE IInv'
  <2>1. now' \in Instants /\ switches' \subseteq Switches
    BY <1>4 DEF IInv, TypeInv, SetKillSwitch, ClearKillSwitch
  <2> QED BY <1>4, <2>1, Surroundings DEF SetKillSwitch, ClearKillSwitch
<1>5. CASE Tick
  <2>1. now' \in Instants /\ switches' \subseteq Switches
    BY <1>5 DEF IInv, TypeInv, Tick
  <2> QED BY <1>5, <2>1, Surroundings DEF Tick
<1>6. CASE UNCHANGED vars
  <2>1. now' \in Instants /\ switches' \subseteq Switches
    BY <1>6 DEF IInv, TypeInv, vars
  <2> QED BY <1>6, <2>1, Surroundings DEF vars
<1> QED BY <1>1, <1>2, <1>3, <1>4, <1>5, <1>6 DEF Next

\* The invariant holds in every behaviour, with and without the lock.
LEMMA IInvHolds == Spec => []IInv
BY InitIInv, NextIInv, PTL DEF Spec

-----------------------------------------------------------------------------
(* Theorems *)

\* The variables have their types, and under the lock the holder is the one process that
\* is awake (ProcessLock).
THEOREM TypeCorrect == Spec => []TypeOK
<1>1. IInv => TypeOK
  <2> SUFFICES ASSUME IInv PROVE TypeOK
    OBVIOUS
  <2>1. ASSUME NEW w \in Wakes
        PROVE  /\ wake[w].outcomes \in Seq(Outcomes) /\ Len(wake[w].outcomes) <= Len(Order)
               /\ locked => (wake[w].pc # "idle") = (holder = w)
    BY DEF IInv, TypeInv, WInv, LockInv, WakeState
  <2> QED BY <2>1 DEF IInv, TypeInv, TypeOK
<1> QED BY <1>1, IInvHolds, PTL

\* In every valid schedule, and however many processes wake, a market decides only on a
\* session that had closed at the instant its wake was given, and no later session of the
\* market had opened at that instant, where the clock is read at or east of Greenwich
\* (RunOnceOrchestrator._run_market).
THEOREM DecidesOnNewest == Spec => []DecidesOnNewestSession
<1>1. IInv => DecidesOnNewestSession
  <2> SUFFICES ASSUME IInv, NEW w \in Wakes, At(w, "decide"), zone >= 0
               PROVE  LET m == Market(w)
                      IN  /\ Today(w) \in DOMAIN Sessions[m]
                          /\ Sessions[m][Today(w)].closed <= wake[w].at
                          /\ \A d \in DOMAIN Sessions[m] :
                               d > Today(w) => wake[w].at < Sessions[m][d].opened
    BY DEF DecidesOnNewestSession
  <2> DEFINE m == Market(w)
             today == Today(w)
  <2>1. HasClosed(m, today, wake[w].at) /\ Len(wake[w].outcomes) < Len(Order)
    BY DEF IInv, WInv, At, Market, Today
  <2>2. wake[w].at \in Nat /\ Len(wake[w].outcomes) \in Nat /\ zone \in Int
    BY RunOnceAssumption DEF IInv, TypeInv, WakeState
  <2>3. m \in Markets
    BY <2>1, <2>2, RunOnceAssumption DEF Market
  <2>4. today = LocalDate(wake[w].at, zone)
    BY DEF today, Today
  <2> HIDE DEF m, today
  <2>5. today \in DOMAIN Sessions[m] /\ Sessions[m][today].closed <= wake[w].at
    <3>1. today \in DOMAIN Sessions[m] /\ wake[w].at >= Sessions[m][today].closed
      BY <2>1 DEF HasClosed, IsSession, Lookup
    <3>2. Sessions[m][today].closed \in Nat
      BY <2>3, <3>1, ScheduleAssumption DEF ValidSchedule
    <3> QED BY <2>2, <3>1, <3>2
  <2>6. ASSUME NEW d \in DOMAIN Sessions[m], d > today
        PROVE  wake[w].at < Sessions[m][d].opened
    <3>1. Sessions[m][d].opened \in Nat /\ LocalDate(Sessions[m][d].opened, 0) = d
      BY <2>3, ScheduleAssumption DEF ValidSchedule
    <3> QED BY <2>2, <2>4, <2>6, <3>1, DatesAreDays
  <2> QED BY <2>5, <2>6 DEF m, today
<1> QED BY <1>1, IInvHolds, PTL

\* A report file is whole whoever publishes; under the lock no publication loses its
\* temporary file, and one that ended leaves none of its report (publish_report).
THEOREM ReportsAlwaysLand == Spec => []ReportsLand
<1>1. IInv => ReportsLand
  <2> SUFFICES ASSUME IInv PROVE ReportsLand
    OBVIOUS
  <2>1. ASSUME locked, NEW w \in Wakes
        PROVE  /\ At(w, "replace") => Temp(w, TRUE) \in temps
               /\ At(w, "leave") => \A t \in temps : t.id # wake[w].id
    <3>1. Temp(w, TRUE) = FileOf(wake[w], w, TRUE)
      BY DEF Temp, FileOf
    <3> QED BY <2>1, <3>1 DEF IInv, WInv, At
  <2> QED BY <2>1 DEF IInv, WholeReports, ReportsLand
<1> QED BY <1>1, IInvHolds, PTL

=============================================================================
