---------------------------- MODULE RunDiscovery ----------------------------
(***************************************************************************)
(* RuntimeRuns under the wakes of RunOnceOrchestrator                      *)
(* (runtime/orchestrator.py): each wake presents one session per market,   *)
(* that of the day it happens on, and nothing reads the table of runs to   *)
(* find work an earlier day left behind.                                   *)
(***************************************************************************)
EXTENDS RuntimeRuns

CONSTANTS
  DayOf,   \* the day of the session in each run key, from 1 to LastDay
  LastDay  \* bound on the days

VARIABLE today

dayVars == <<vars, today>>

\* _run_market: today = now.date() is the session the wake is about
Present(w, k, c) == DayOf[k] = today /\ BeginClaim(w, k, c) /\ UNCHANGED today

Resume(w) == Work(w) /\ UNCHANGED today

TimePasses == Tick /\ UNCHANGED today

DayEnds == today < LastDay /\ today' = today + 1 /\ UNCHANGED vars

DayInit == Init /\ today = 1

DayNext ==
  \/ \E w \in Workers, k \in RunKeys, c \in Configs : Present(w, k, c)
  \/ \E w \in Workers : Resume(w)
  \/ \E w \in Workers : Crash(w) /\ UNCHANGED today
  \/ TimePasses
  \/ DayEnds

\* The most the schedule could give: wakes that never stop, on every day, a
\* process that runs on unless it is killed, leases that run out, days that end.
WakingSpec ==
  /\ DayInit /\ [][DayNext]_dayVars
  /\ \A w \in Workers : WF_dayVars(Resume(w))
  /\ \A k \in RunKeys, c \in Configs : SF_dayVars(\E w \in Workers : Present(w, k, c))
  /\ WF_dayVars(TimePasses)
  /\ WF_dayVars(DayEnds)

-----------------------------------------------------------------------------
(* Properties *)

\* A run that was claimed is durable work: later wakes find it and bring it to
\* an end, whatever day it belongs to (docs/designs/2026-08-12-unattended-dual-
\* market-paper-runtime-design.md:394, "The runtime scans durable work; it never
\* assumes one wake equals one session").
DurableWorkIsFound == \A k \in RunKeys : (runs[k] # NoRow) ~> HasEnded(k)

=============================================================================
