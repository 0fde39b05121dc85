----------------------------- MODULE StrategyA -----------------------------
(***************************************************************************)
(* The bounded strategy A (strategies/strategy_a.py, llm_contract.py) as   *)
(* operators: from the bars and the portfolio of a close it builds for     *)
(* every symbol an envelope of actions with fixed targets, asks the model  *)
(* to pick one of each, and turns the picks into intents.                  *)
(*                                                                         *)
(* Sums are compared by cross-multiplication, as in the code, and targets  *)
(* are amounts in hundredths of a unit of money (see RiskEngine).          *)
(***************************************************************************)
EXTENDS Integers, SequencesExt

CONSTANTS
  ShortWindow,    \* closes of the short average
  LongWindow,     \* closes of the long average
  VolumeWindow,   \* earlier volumes the latest is compared with
  OffensiveCap,   \* percentage of the net asset value
  NeutralCap

ASSUME StrategyAAssumption ==
  /\ ShortWindow \in Nat \ {0} /\ LongWindow \in Nat \ {0} /\ VolumeWindow \in Nat \ {0}
  /\ ShortWindow < LongWindow
  /\ OffensiveCap \in 1 .. 100 /\ NeutralCap \in 0 .. OffensiveCap

RequiredHistory == Max({LongWindow, VolumeWindow + 1})

LastOf(seq, n) == SubSeq(seq, Max({1, Len(seq) - n + 1}), Len(seq))
Sum(seq) == FoldLeft(LAMBDA a, b : a + b, 0, seq)

\* 1 if the short average and the latest close are over the long average, -1 if
\* both are under it
TrendDirection(closes) ==
  LET short == Sum(LastOf(closes, ShortWindow)) * LongWindow
      long == Sum(LastOf(closes, LongWindow))
      latest == Last(closes) * LongWindow
  IN CASE short > long * ShortWindow /\ latest > long -> 1
       [] short < long * ShortWindow /\ latest < long -> -1
       [] OTHER -> 0

\* volumeConfirmed: has the latest volume reached its threshold?
Regime(closes, volumeConfirmed) ==
  IF Len(closes) < RequiredHistory THEN "INSUFFICIENT"
  ELSE LET trend == TrendDirection(closes)
       IN IF trend > 0 /\ volumeConfirmed THEN "OFFENSIVE"
          ELSE IF trend < 0 THEN "DEFENSIVE" ELSE "NEUTRAL"

CapOf(regime) ==
  CASE regime = "OFFENSIVE" -> OffensiveCap
    [] regime = "NEUTRAL" -> NeutralCap
    [] OTHER -> 0

Target(action, amount) == [action |-> action, amount |-> amount]

\* Mutant: in a falling market what is held may be kept.
ActionTargets_DefensiveHolds(regime, held, value, nav) ==
  LET hold == Target("HOLD", 100 * value)
      cap == CapOf(regime) * nav
  IN IF regime \in {"INSUFFICIENT", "DEFENSIVE"} \/ nav = 0 \/ 100 * value = cap THEN {hold}
     ELSE IF 100 * value < cap
          THEN {hold} \cup (IF regime = "OFFENSIVE" THEN {Target("BUY", cap)} ELSE {})
          ELSE {Target("REDUCE", cap)}

\* The actions a regime allows for a holding worth value
ActionTargets(regime, held, value, nav) ==
  LET hold == Target("HOLD", 100 * value)
      cap == CapOf(regime) * nav
      over == 100 * value > cap
  IN IF regime = "INSUFFICIENT" THEN {hold}
     ELSE IF regime = "DEFENSIVE" THEN {IF held THEN Target("SELL", 0) ELSE hold}
     ELSE IF nav = 0 THEN {hold}
     ELSE IF regime = "OFFENSIVE"
          THEN IF over THEN {Target("REDUCE", cap)}
               ELSE {hold} \cup (IF 100 * value < cap THEN {Target("BUY", cap)} ELSE {})
     ELSE IF ~over THEN {hold}
     ELSE {Target("SELL", 0)} \cup (IF cap > 0 THEN {Target("REDUCE", cap)} ELSE {})

\* One candidate per symbol with a bar, in order
Candidates(symbols, closes, confirmed, portfolio) ==
  [i \in DOMAIN symbols |->
     LET s == symbols[i]
         held == s \in DOMAIN portfolio.positions
         regime == Regime(closes[s], s \in confirmed)
     IN [symbol |-> s, regime |-> regime,
         targets |-> ActionTargets(regime, held,
                       IF held THEN portfolio.positions[s].value ELSE 0, portfolio.nav)]]

\* The records that match the request: one allowed action of every candidate
Selections(candidates) ==
  {chosen \in [DOMAIN candidates -> UNION {candidates[i].targets : i \in DOMAIN candidates}] :
     \A i \in DOMAIN candidates : chosen[i] \in candidates[i].targets}

IntentsFor(candidates, chosen) ==
  [i \in DOMAIN candidates |->
     [symbol |-> candidates[i].symbol, side |-> chosen[i].action, target |-> chosen[i].amount]]

=============================================================================
