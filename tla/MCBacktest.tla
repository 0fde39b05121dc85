------------------------------ MODULE MCBacktest ------------------------------
(* Model checking of Backtest: three symbols, two of one sector. *)
EXTENDS Backtest

MCUniverse == <<"A", "B", "C">>
MCSectorOf == [s \in {"A", "B", "C"} |-> IF s = "C" THEN "financials" ELSE "technology"]

Prices(a, b, c) == [s \in {"A", "B", "C"} |-> CASE s = "A" -> a [] s = "B" -> b [] s = "C" -> c]

\* Calm, a gap that makes two accepted buys too dear for one account, a crash to
\* prices with odd cents
MCFrames == {Prices(1000, 1000, 1000), Prices(4000, 4000, 1000), Prices(201, 201, 400)}

MCStateFrames ==
  {Prices("normal", "normal", "normal"), Prices("suspended", "limit_up", "normal"),
   Prices("limit_down", "normal", "limit_up")}

Ask(symbol, side, percent) == [symbol |-> symbol, side |-> side, percent |-> percent]

MCBatches ==
  {<<>>,
   <<Ask("A", "BUY", 15), Ask("B", "BUY", 15), Ask("C", "BUY", 15)>>,
   <<Ask("C", "BUY", 12), Ask("A", "BUY", 40)>>,
   <<Ask("A", "BUY", 1), Ask("B", "BUY", 15)>>,
   <<Ask("A", "SELL", 0), Ask("C", "BUY", 9)>>,
   <<Ask("B", "HOLD", 0), Ask("A", "REDUCE", 5)>>}
=============================================================================
