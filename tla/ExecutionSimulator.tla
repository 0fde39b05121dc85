-------------------------- MODULE ExecutionSimulator --------------------------
(***************************************************************************)
(* execution/simulator.py and the market rules it asks (rules.py,          *)
(* cn_rules.py) as operators on a simulator                                *)
(*   [pending, used, through]                                              *)
(* for one market and one account, the way the backtest runner uses it.    *)
(* Sessions are the numbers 1 .. CalendarLength; quantities and amounts    *)
(* are integers in the smallest units that occur: a quantity in its last    *)
(* supported decimal place, money in the last place of their product.      *)
(*                                                                         *)
(*   order: [id, symbol, side, quantity]                                   *)
(*   lots:  function from the held symbols to sequences of [session,       *)
(*          quantity, cost]                                                *)
(*   states: the state of each symbol's session on the China market        *)
(***************************************************************************)
EXTENDS Integers, SequencesExt

CONSTANTS
  CalendarLength,   \* sessions the trading calendar lists
  LotSize,          \* shares of a China buy lot, 100 in the code
  CostBps,          \* transaction cost in basis points
  Grain             \* the finest supported amount of cash, in the units of money
                    \* a price times the smallest quantity gives: 100 in the
                    \* code for prices in cents

ASSUME SimulatorAssumption ==
  /\ CalendarLength \in Nat \ {0}
  /\ LotSize \in Nat \ {0}
  /\ CostBps \in Nat
  /\ Grain \in Nat \ {0}

SessionStates == {"normal", "suspended", "limit_up", "limit_down"}

NewSimulator == [pending |-> <<>>, used |-> {}, through |-> 0]

IsSession(session) == session \in 1 .. CalendarLength

-----------------------------------------------------------------------------
(* Market rules *)

\* A China buy is rounded down to whole lots.
NormalizeQuantity(market, side, quantity) ==
  IF market = "CN" /\ side = "BUY" THEN (quantity \div LotSize) * LotSize ELSE quantity

\* On the China market a lot can be sold from the session after its own, if the
\* calendar lists one.
Settled(market, lot, session) ==
  market = "CN" => lot.session < CalendarLength /\ session > lot.session

SellableQuantity(market, lots, symbol, session) ==
  IF symbol \notin DOMAIN lots THEN 0
  ELSE SumFunction([i \in {j \in DOMAIN lots[symbol] : Settled(market, lots[symbol][j], session)}
                      |-> lots[symbol][i].quantity])

BlockedByState(market, side, state) ==
  market = "CN" /\ \/ state = "suspended"
                   \/ side = "BUY" /\ state = "limit_up"
                   \/ side = "SELL" /\ state = "limit_down"

-----------------------------------------------------------------------------
(* submit *)

Refused(sim, order, session) ==
  \/ order.id \in sim.used
  \/ session < sim.through
  \/ order.side \notin {"BUY", "SELL"}
  \/ ~IsSession(session)
  \/ session = CalendarLength

\* What waits of an order accepted in a session
PendingOrder(order, quantity, session) ==
  [id |-> order.id, symbol |-> order.symbol, side |-> order.side, quantity |-> quantity,
   eligible |-> session + 1]

\* Mutant: a buy of less than one lot is accepted.
Submit_EmptyLot(sim, market, order, session) ==
  LET quantity == NormalizeQuantity(market, order.side, order.quantity)
      known == [sim EXCEPT !.used = @ \cup {order.id}]
  IN IF Refused(sim, order, session) THEN [sim |-> known, status |-> "REJECTED"]
     ELSE [sim |-> [known EXCEPT !.pending = Append(@, PendingOrder(order, quantity, session))],
           status |-> "PENDING"]

\* The simulator after an order, and whether it is pending or rejected
Submit(sim, market, order, session) ==
  LET quantity == NormalizeQuantity(market, order.side, order.quantity)
      known == [sim EXCEPT !.used = @ \cup {order.id}]
  IN IF Refused(sim, order, session) \/ quantity = 0
     THEN [sim |-> known, status |-> "REJECTED"]
     ELSE [sim |-> [known EXCEPT !.pending = Append(@, PendingOrder(order, quantity, session))],
           status |-> "PENDING"]

-----------------------------------------------------------------------------
(* process_session.  An accumulator goes through the pending orders:        *)
(*   fills, remaining, cash, and what of each symbol can still be sold.     *)

\* Quantised to a supported amount
Fees(quantity, price) == ((quantity * price * CostBps) \div (10000 * Grain)) * Grain

CashChange(order, price) ==
  LET gross == order.quantity * price
  IN IF order.side = "BUY" THEN gross + Fees(order.quantity, price)
     ELSE gross - Fees(order.quantity, price)

Affordable(acc, order, price) ==
  IF order.side = "BUY" THEN CashChange(order, price) <= acc.cash
  ELSE CashChange(order, price) >= 0

CanSell(acc, order) == order.side = "SELL" => order.quantity <= acc.sellable[order.symbol]

Fill(order, status, price, session) ==
  [id |-> order.id, symbol |-> order.symbol, side |-> order.side, status |-> status,
   quantity |-> order.quantity, price |-> price,
   fees |-> IF status = "FILLED" THEN Fees(order.quantity, price) ELSE 0,
   session |-> session]

\* A cash change with more decimal places than are supported ends the order.
SupportedCash(amount) == amount % Grain = 0

\* Mutant: a fill leaves the session's cash as it was.
Execute_CashUntouched(acc, order, session, price) ==
  [acc EXCEPT !.fills = Append(@, Fill(order, "FILLED", price, session)),
     !.sellable[order.symbol] = IF order.side = "BUY" THEN @ ELSE @ - order.quantity]

Execute(acc, order, session, price) ==
  LET change == CashChange(order, price)
  IN [acc EXCEPT !.fills = Append(@, Fill(order, "FILLED", price, session)),
        !.cash = IF order.side = "BUY" THEN @ - change ELSE @ + change,
        !.sellable[order.symbol] = IF order.side = "BUY" THEN @ ELSE @ - order.quantity]

\* One pending order of a session with these opening prices and states
ProcessOrder(acc, order, market, session, opens, states) ==
  IF \/ session < order.eligible
     \/ order.symbol \notin DOMAIN opens
     \/ market = "CN" /\ order.symbol \notin DOMAIN states
  THEN [acc EXCEPT !.remaining = Append(@, order)]
  ELSE IF /\ market = "CN" => ~BlockedByState(market, order.side, states[order.symbol])
          /\ CanSell(acc, order)
          /\ SupportedCash(CashChange(order, opens[order.symbol]))
          /\ Affordable(acc, order, opens[order.symbol])
       THEN Execute(acc, order, session, opens[order.symbol])
       ELSE [acc EXCEPT !.fills = Append(@, Fill(order, "REJECTED", 0, session))]

\* Only for a session that is not before the last one processed
ProcessSession(sim, market, session, opens, states, lots, cash) ==
  LET start == [fills |-> <<>>, remaining |-> <<>>, cash |-> cash,
                sellable |-> [s \in {o.symbol : o \in ToSet(sim.pending)} |->
                                SellableQuantity(market, lots, s, session)]]
      after[n \in 0 .. Len(sim.pending)] ==
        IF n = 0 THEN start
        ELSE ProcessOrder(after[n - 1], sim.pending[n], market, session, opens, states)
      end == after[Len(sim.pending)]
  IN [fills |-> end.fills, cash |-> end.cash,
      sim |-> [sim EXCEPT !.pending = end.remaining, !.through = session]]
=============================================================================
