------------------------------ MODULE RunOnce ------------------------------
(***************************************************************************)
(* One wake of the unattended runtime: the process lock (runtime/lock.py), *)
(* the visit of each market (runtime/orchestrator.py) under the kill       *)
(* switches (runtime/store.py), and the publication of a report            *)
(* (runtime/reports.py).  The pipeline behind decide is modelled by        *)
(* RuntimeRuns, DecisionInvocation and OrderExecution; here it completes   *)
(* or raises.                                                              *)
(*                                                                         *)
(* Several processes may wake at once, and each may die at any step.       *)
(* Nothing under src/ takes the lock around a wake (the design asks for    *)
(* it), so whether the callers do is chosen in Init, like the time zone of *)
(* the instant they pass.                                                  *)
(***************************************************************************)
EXTENDS MarketSchedule, Sequences, FiniteSets

CONSTANTS
  Wakes,       \* processes
  Order,       \* the markets in the order of a wake
  Instants,    \* readings of the clock
  Zones,       \* time zones a caller may read the clock in
  Switches,    \* kill switches an operator may set: <<scope, value>>
  Account,     \* Account[m]: the account of a market
  Reported,    \* the reports that are published: market and outcome
  Texts,       \* texts of one report: its identity leaves out the error
  MaxSwitches  \* bound on the kill switches set at once

\* MISSED_DECISION_DEADLINE is for an orchestrator without a decide, and left out.
Outcomes == {"BLOCKED_KILL_SWITCH", "SKIPPED_NOT_SESSION", "SKIPPED_TOO_EARLY", "PROCESSED"}

ASSUME RunOnceAssumption ==
  /\ Instants \subseteq Nat /\ Instants # {}
  /\ Zones \subseteq Int /\ MaxSwitches \in Nat
  /\ Order \in Seq(Markets)
  /\ Reported \subseteq Markets \X Outcomes
  /\ None \notin Wakes /\ None \notin Outcomes
  /\ None \notin Reported /\ None \notin [text : Texts, whole : BOOLEAN]

VARIABLES
  now,       \* the time
  zone,      \* the time zone in which callers read it
  locked,    \* do callers take the process lock around a wake?
  holder,    \* who holds the lock
  switches,  \* the kill switches that are set
  wake,      \* each process
  reports,   \* report files by identity
  temps      \* temporary files: identity, process and whether written

vars == <<now, zone, locked, holder, switches, wake, reports, temps>>

Idle == [pc |-> "idle", at |-> 0, outcomes |-> <<>>, id |-> None, text |-> None]

TypeOK ==
  /\ now \in Instants /\ zone \in Zones /\ locked \in BOOLEAN
  /\ switches \subseteq Switches
  /\ holder \in Wakes \cup {None}
  /\ \A w \in Wakes :
       /\ wake[w].outcomes \in Seq(Outcomes) /\ Len(wake[w].outcomes) <= Len(Order)
       /\ locked => (wake[w].pc # "idle") = (holder = w)
  /\ DOMAIN reports = Reported

Init ==
  /\ now = CHOOSE t \in Instants : \A u \in Instants : t <= u
  /\ zone \in Zones
  /\ locked \in BOOLEAN
  /\ holder = None
  /\ switches = {}
  /\ wake = [w \in Wakes |-> Idle]
  /\ reports = [id \in Reported |-> None]
  /\ temps = {}

At(w, pc) == wake[w].pc = pc
Become(w, next) == wake' = [wake EXCEPT ![w] = next]
Market(w) == Order[Len(wake[w].outcomes) + 1]
Today(w) == LocalDate(wake[w].at, zone)

-----------------------------------------------------------------------------
(* The wake and its lock *)

\* Mutant: the lock is taken whoever has it.
MayAcquire_Always == TRUE

\* ProcessLock.acquire does not wait: a process that finds it held goes away.
MayAcquire == holder = None

Wake(w) ==
  /\ At(w, "idle")
  /\ locked => MayAcquire
  /\ holder' = IF locked THEN w ELSE None
  /\ Become(w, [Idle EXCEPT !.pc = "market", !.at = now])
  /\ UNCHANGED <<now, zone, locked, switches, reports, temps>>

\* Mutant: the lock is given back only by a wake that has published.
FreeLock_AfterSuccess(w) ==
  holder' = IF holder = w /\ wake[w].pc = "leave" THEN None ELSE holder

\* release, __exit__, or the kernel when the process ends
FreeLock(w) == holder' = IF holder = w THEN None ELSE holder

Leave(w) ==
  /\ At(w, "leave")
  /\ FreeLock(w)
  /\ Become(w, Idle)
  /\ UNCHANGED <<now, zone, locked, switches, reports, temps>>

\* The exception leaves the with statement of the lock.
Raise(w) ==
  /\ At(w, "raised")
  /\ FreeLock(w)
  /\ Become(w, Idle)
  /\ UNCHANGED <<now, zone, locked, switches, reports, temps>>

\* The process ends, and its temporary file stays.
Crash(w) ==
  /\ ~At(w, "idle")
  /\ holder' = IF holder = w THEN None ELSE holder
  /\ Become(w, Idle)
  /\ UNCHANGED <<now, zone, locked, switches, reports, temps>>

-----------------------------------------------------------------------------
(* The markets *)

\* Mutant: the switch of an account is not looked up.
IsBlocked_NoAccount(m) == switches \cap {<<"GLOBAL", "">>, <<"MARKET", m>>} # {}

IsBlocked(m) ==
  switches \cap {<<"GLOBAL", "">>, <<"MARKET", m>>, <<"ACCOUNT", Account[m]>>} # {}

\* The market's turn ends without a decision.
Skipped(w, m) ==
  IF IsBlocked(m) THEN "BLOCKED_KILL_SWITCH"
  ELSE IF ~IsSession(m, Today(w)) THEN "SKIPPED_NOT_SESSION"
  ELSE IF ~HasClosed(m, Today(w), wake[w].at) THEN "SKIPPED_TOO_EARLY"
  ELSE None

RunMarket(w) ==
  /\ At(w, "market")
  /\ Len(wake[w].outcomes) < Len(Order)
  /\ LET outcome == Skipped(w, Market(w))
     IN  Become(w, IF outcome = None THEN [wake[w] EXCEPT !.pc = "decide"]
                   ELSE [wake[w] EXCEPT !.outcomes = Append(@, outcome)])
  /\ UNCHANGED <<now, zone, locked, holder, switches, reports, temps>>

Decide(w) ==
  /\ At(w, "decide")
  /\ Become(w, [wake[w] EXCEPT !.pc = "market", !.outcomes = Append(@, "PROCESSED")])
  /\ UNCHANGED <<now, zone, locked, holder, switches, reports, temps>>

\* decide raises, and run with it.
DecideFails(w) ==
  /\ At(w, "decide")
  /\ Become(w, [wake[w] EXCEPT !.pc = "raised"])
  /\ UNCHANGED <<now, zone, locked, holder, switches, reports, temps>>

-----------------------------------------------------------------------------
(* The report *)

\* The temporary file is named after the report and the process.
Temp(w, whole) == [id |-> wake[w].id, by |-> w, whole |-> whole]

\* The report of a market, unless its file already says it
BeginReport(w, i, text) ==
  /\ At(w, "market")
  /\ Len(wake[w].outcomes) = Len(Order)
  /\ LET id == <<Order[i], wake[w].outcomes[i]>>
     IN  /\ id \in Reported
         /\ reports[id] # [text |-> text, whole |-> TRUE]
         /\ Become(w, [Idle EXCEPT !.pc = "create", !.id = id, !.text = text])
  /\ UNCHANGED <<now, zone, locked, holder, switches, reports, temps>>

\* The wake ends with nothing to publish.
EndQuietly(w) ==
  /\ At(w, "market")
  /\ Len(wake[w].outcomes) = Len(Order)
  /\ Become(w, [Idle EXCEPT !.pc = "leave"])
  /\ UNCHANGED <<now, zone, locked, holder, switches, reports, temps>>

CreateTemp(w) ==
  /\ At(w, "create")
  /\ temps' = (temps \ {Temp(w, TRUE)}) \cup {Temp(w, FALSE)}
  /\ Become(w, [wake[w] EXCEPT !.pc = "write"])
  /\ UNCHANGED <<now, zone, locked, holder, switches, reports>>

\* Written and synced; a file removed meanwhile stays removed.
WriteTemp(w) ==
  /\ At(w, "write")
  /\ temps' = IF Temp(w, FALSE) \in temps
              THEN (temps \ {Temp(w, FALSE)}) \cup {Temp(w, TRUE)} ELSE temps
  /\ Become(w, [wake[w] EXCEPT !.pc = "replace"])
  /\ UNCHANGED <<now, zone, locked, holder, switches, reports>>

\* os.replace; FileNotFoundError if somebody removed the temporary file
ReplaceReport(w) ==
  /\ At(w, "replace")
  /\ IF \E whole \in BOOLEAN : Temp(w, whole) \in temps
     THEN /\ \E whole \in BOOLEAN :
               /\ Temp(w, whole) \in temps
               /\ reports' = [reports EXCEPT ![wake[w].id] =
                                [text |-> wake[w].text, whole |-> whole]]
               /\ temps' = temps \ {Temp(w, whole)}
          /\ Become(w, [wake[w] EXCEPT !.pc = "cleanup"])
     ELSE /\ Become(w, [wake[w] EXCEPT !.pc = "raised"])
          /\ UNCHANGED <<reports, temps>>
  /\ UNCHANGED <<now, zone, locked, holder, switches>>

\* Mutant: a publisher removes only its own temporary file.
CleanupStaleTmp_Own(w) == {t \in temps : t.id = wake[w].id /\ t.by = w}

\* _cleanup_stale_tmp matches the report's temporary files of every process.
CleanupStaleTmp(w) == {t \in temps : t.id = wake[w].id}

Cleanup(w) ==
  /\ At(w, "cleanup")
  /\ temps' = temps \ CleanupStaleTmp(w)
  /\ Become(w, [wake[w] EXCEPT !.pc = "leave"])
  /\ UNCHANGED <<now, zone, locked, holder, switches, reports>>

-----------------------------------------------------------------------------
(* The surroundings *)

SetKillSwitch(s) ==
  /\ Cardinality(switches \cup {s}) <= MaxSwitches
  /\ switches' = switches \cup {s}
  /\ UNCHANGED <<now, zone, locked, holder, wake, reports, temps>>

ClearKillSwitch(s) ==
  /\ switches' = switches \ {s}
  /\ UNCHANGED <<now, zone, locked, holder, wake, reports, temps>>

Tick ==
  /\ \E t \in Instants :
       /\ t > now /\ \A u \in Instants : u > now => t <= u
       /\ now' = t
  /\ UNCHANGED <<zone, locked, holder, switches, wake, reports, temps>>

\* The steps of a process that is alive
Work(w) ==
  \/ RunMarket(w) \/ Decide(w) \/ DecideFails(w)
  \/ \E i \in DOMAIN Order, text \in Texts : BeginReport(w, i, text)
  \/ EndQuietly(w)
  \/ CreateTemp(w) \/ WriteTemp(w) \/ ReplaceReport(w) \/ Cleanup(w)
  \/ Leave(w) \/ Raise(w)

Next ==
  \/ \E w \in Wakes : Wake(w) \/ Work(w) \/ Crash(w)
  \/ \E s \in Switches : SetKillSwitch(s) \/ ClearKillSwitch(s)
  \/ Tick

Spec == Init /\ [][Next]_vars

\* A process that is not killed goes on, decide included: every wait in it has a
\* deadline.
FairSpec == Spec /\ \A w \in Wakes : WF_vars(Work(w))

-----------------------------------------------------------------------------
(* Properties *)

\* Where the clock is read in a zone at or east of Greenwich, a market decides
\* only on a session that had closed at the instant the wake was given, and of
\* the market no later session had opened at that instant, with closures, half
\* days and a year that is not covered between the two (_run_market).  The
\* instant is read once, before the markets: what opens during a long decision of
\* the first market is not seen by the second.
DecidesOnNewestSession ==
  \A w \in Wakes : At(w, "decide") /\ zone >= 0 =>
    LET m == Market(w)
    IN  /\ Today(w) \in DOMAIN Sessions[m]
        /\ Sessions[m][Today(w)].closed <= wake[w].at
        /\ \A d \in DOMAIN Sessions[m] :
             d > Today(w) => wake[w].at < Sessions[m][d].opened

\* A report file is always whole.  Where wakes hold the lock, no publication
\* loses its temporary file to the clean-up of another, and one that ended
\* leaves none of its report behind, of a process that died neither.
ReportsLand ==
  /\ \A id \in Reported : reports[id] # None => reports[id].whole
  /\ locked => \A w \in Wakes :
       /\ At(w, "replace") => Temp(w, TRUE) \in temps
       /\ At(w, "leave") => \A t \in temps : t.id # wake[w].id

\* However a wake ends (done, an exception of decide or of the publication, a
\* crash), its lock becomes free: "stale exit cannot wedge the runtime".
LockIsFreed == \A w \in Wakes : holder = w ~> holder # w

\* A kill switch that stays set, for everything, the market or its account,
\* ends all decisions of the market: one already running is the last.
DecidesFor(w, m) == At(w, "decide") /\ Market(w) = m
KillSwitchHolds ==
  \A m \in Markets :
    \A scope \in {<<"GLOBAL", "">>, <<"MARKET", m>>, <<"ACCOUNT", Account[m]>>} :
      <>[](scope \in switches) => <>[](\A w \in Wakes : ~DecidesFor(w, m))

=============================================================================
