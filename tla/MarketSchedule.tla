--------------------------- MODULE MarketSchedule ---------------------------
(***************************************************************************)
(* Which session a wake may work on: the official schedules of             *)
(* runtime/calendars.py and the clock of runtime/clock.py.                 *)
(*                                                                         *)
(* Dates are numbers, instants are hours of UTC since a date 0, and a      *)
(* market or a caller in the zone +z sees at instant t the date            *)
(* (t + z) \div 24.                                                        *)
(***************************************************************************)
EXTENDS Integers

CONSTANTS
  Markets,       \* "CN" and "US"
  Dates,         \* the dates of the schedules
  YearOf,        \* the year of each date
  CoveredYears,  \* the years with an approved schedule
  Sessions,      \* Sessions[m][d]: when session d of market m opens and closes
  Closures,      \* Closures[m]: the covered dates without a session
  MarketZone,    \* the offset of each market's own time
  None           \* no session, no outcome, no file

CoveredDates == {d \in Dates : YearOf[d] \in CoveredYears}

LocalDate(t, zone) == (t + zone) \div 24

\* What a schedule must satisfy to be constructed: every covered date is exactly
\* one session or closure, and a session opens before it closes, both on its own
\* date in the market's time.  It opens at 09:30 of Shanghai or New York, which in
\* UTC is on that date too.
ValidSchedule(m) ==
  /\ DOMAIN Sessions[m] \cup Closures[m] = CoveredDates
  /\ DOMAIN Sessions[m] \cap Closures[m] = {}
  /\ \A d \in DOMAIN Sessions[m] :
       LET session == Sessions[m][d]
       IN  /\ session.opened \in Nat /\ session.closed \in Nat
           /\ session.opened < session.closed
           /\ LocalDate(session.opened, 0) = d
           /\ LocalDate(session.opened, MarketZone[m]) = d
           /\ LocalDate(session.closed, MarketZone[m]) = d

ASSUME ScheduleAssumption ==
  /\ Dates \subseteq Nat
  /\ \A m \in Markets : MarketZone[m] \in Int
  /\ \A m \in Markets : ValidSchedule(m)

Lookup(m, d) ==
  IF d \notin CoveredDates THEN "CALENDAR_NOT_COVERED"
  ELSE IF d \in DOMAIN Sessions[m] THEN "SESSION" ELSE "MARKET_CLOSED"

\* The first session after a date, unless it lies more than a year ahead
NextSession(m, after) ==
  LET later == {d \in DOMAIN Sessions[m] : d > after}
      first == CHOOSE d \in later : \A e \in later : d <= e
  IN  IF after \notin CoveredDates \/ later = {} THEN None
      ELSE IF YearOf[first] > YearOf[after] + 1 THEN None ELSE first

IsSession(m, d) == Lookup(m, d) = "SESSION"

\* Mutant: a session counts as over once it has begun.
HasClosed_OnceOpen(m, d, now) == IsSession(m, d) /\ now >= Sessions[m][d].opened

HasClosed(m, d, now) == IsSession(m, d) /\ now >= Sessions[m][d].closed

=============================================================================
