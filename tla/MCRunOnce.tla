----------------------------- MODULE MCRunOnce -----------------------------
(* Model checking of RunOnce on small instances. *)
EXTENDS RunOnce, TLC

BothMarkets == {"CN", "US"}
USFirst == <<"US", "CN">>

\* Dates 1 to 4; the year of date 4 has no schedule.
FourDates == 1 .. 4
TwoYears == [d \in FourDates |-> IF d < 4 THEN 1 ELSE 2]

\* In UTC, CN trades from 01:30 (2) to 07:00 and US from 13:30 (14) to 20:00,
\* a half day to 17:00.  CN is closed on date 2, and date 3 is a half day in US.
CNSession(d) == [opened |-> 24 * d + 2, closed |-> 24 * d + 7]
USSession(d, half) == [opened |-> 24 * d + 14, closed |-> 24 * d + (IF half THEN 17 ELSE 20)]
TwoSchedules == [m \in BothMarkets |->
  IF m = "CN" THEN [d \in {1, 3} |-> CNSession(d)]
  ELSE [d \in {1, 2, 3} |-> USSession(d, d = 3)]]
OneClosure == [m \in BothMarkets |-> IF m = "CN" THEN {2} ELSE {}]
Zones2 == [m \in BothMarkets |-> IF m = "CN" THEN 8 ELSE -4]

\* US has not closed and CN has a closure; CN alone has closed; both have, US on a half
\* day.  In Shanghai's zone the last one is on the date that is not covered.
InterestingInstants == {48 + 15, 72 + 10, 72 + 18}

CallerZones == {0, 8}
Accounts == [m \in BothMarkets |-> IF m = "CN" THEN "paper-cn" ELSE "paper-us"]
AllSwitches ==
  {<<"GLOBAL", "">>} \cup {<<"MARKET", m>> : m \in BothMarkets}
                     \cup {<<"ACCOUNT", Accounts[m]>> : m \in BothMarkets}
ReportsTried == {<<"US", "PROCESSED">>}

=============================================================================
