------------------------------- MODULE Backtest -------------------------------
(***************************************************************************)
(* A run of ChronologicalBacktestRunner (backtest/runner.py, planning.py): *)
(* at every open the orders of the last close are executed and booked, at  *)
(* every close the holdings are marked, the strategy asks, the risk engine *)
(* decides and the planned orders are submitted.                           *)
(*                                                                         *)
(* The strategy is free to answer any batch, or it is strategy A with a    *)
(* model that picks any of the actions it is offered; the market is any    *)
(* choice of opening prices, session states, closing prices and symbols    *)
(* whose volume confirms a trend.  Quantities and money are in the units   *)
(* of ExecutionSimulator: the last decimal place of a quantity, and of its *)
(* product with a price.                                                   *)
(***************************************************************************)
EXTENDS RiskEngine, ExecutionSimulator, PortfolioLedger, StrategyA

CONSTANTS
  Universe,       \* the instruments' symbols, sorted
  Sessions,       \* number of sessions of the run
  InitialCash,    \* possible opening balances
  Frames,         \* possible prices of the universe, at an open or a close
  StateFrames,    \* possible session states of the universe on the China market
  FreeBatches     \* batches a free strategy may ask for, in percentages

ASSUME BacktestAssumption ==
  /\ Universe \in Seq(DOMAIN SectorOf) /\ ToSet(Universe) = DOMAIN SectorOf
  /\ IsInjective(Universe)
  /\ Sessions \in 2 .. CalendarLength
  /\ InitialCash \subseteq Nat
  /\ Frames \subseteq [DOMAIN SectorOf -> Nat \ {0}]
  /\ StateFrames \subseteq [DOMAIN SectorOf -> SessionStates]
  /\ \A batch \in FreeBatches :
       /\ batch \in Seq([symbol : DOMAIN SectorOf, side : Sides, percent : Nat])
       /\ \A i, j \in DOMAIN batch :
            /\ batch[i].side = "SELL" => batch[i].percent = 0
            /\ batch[i].symbol = batch[j].symbol => i = j

VARIABLES
  market,        \* the market of the run
  strategy,      \* "free" or "A"
  session,       \* the current session
  phase,         \* "open", "close", "done", or "raised"
  book,          \* the ledger's replayed state
  sim,           \* the execution simulator
  priorPending,  \* identifiers of the orders accepted at the last close
  dayStartCash,  \* the ledger's cash before the open
  newNotional,   \* what the open spent on symbols not held before, in hundredths
  history,       \* the last closing prices, as many as strategy A looks back
  results        \* what the last close decided, and the prices it saw

vars == <<market, strategy, history, session, phase, book, sim, priorPending, dayStartCash, newNotional, results>>

NoResults == [closes |-> <<>>, context |-> <<>>, reduction |-> FALSE, decisions |-> <<>>,
              plans |-> <<>>, regimes |-> <<>>]

Init ==
  /\ market \in {"CN", "US"}
  /\ strategy \in {"free", "A"}
  /\ history = <<>>
  /\ session = 1
  /\ phase = "open"
  /\ \E cash \in InitialCash :
       book = ApplyEvent(EmptyBook, [BlankEvent EXCEPT !.type = "CashInitialized", !.amount = cash])
  /\ sim = NewSimulator
  /\ priorPending = <<>>
  /\ dayStartCash = 0
  /\ newNotional = 0
  /\ results = NoResults

-----------------------------------------------------------------------------
(* The open *)

LotsByHolding == [s \in DOMAIN book.holdings |-> book.holdings[s].lots]

\* Every order accepted at the last close has its terminal result, in order.
PriorOrdersTerminal(executed) ==
  /\ priorPending = [i \in DOMAIN executed.fills |-> executed.fills[i].id]
  /\ {o.id : o \in ToSet(executed.sim.pending)} \cap ToSet(priorPending) = {}

Filled(fills) == Those(fills, {f \in ToSet(fills) : f.status = "FILLED"})

\* Symbols held after the fills, counted from quantities and not from the ledger
HeldAfter(filled) ==
  {s \in ToSet(Universe) :
     LotQuantity(LotsOf(book, s)) + SumFunction([i \in DOMAIN filled |-> Net(filled[i], s)]) > 0}

OpenBatch(filled, opens) ==
  [BlankEvent EXCEPT !.type = "OpenExecutionBatchBooked", !.session = session,
     !.fills = filled, !.marks = Restrict(opens, HeldAfter(filled))]

NewPositionNotional(filled) ==
  100 * SumFunction([i \in {j \in DOMAIN filled : filled[j].side = "BUY"
                                /\ filled[j].symbol \notin DOMAIN book.holdings}
                       |-> filled[i].quantity * filled[i].price])

Open(opens, states) ==
  LET executed == ProcessSession(sim, market, session, opens, states, LotsByHolding, book.cash)
      filled == Filled(executed.fills)
      booked == IF filled = <<>> THEN book ELSE ApplyEvent(book, OpenBatch(filled, opens))
  IN /\ phase = "open"
     /\ sim' = executed.sim
     /\ IF PriorOrdersTerminal(executed) /\ booked.ok
        THEN /\ phase' = "close"
             /\ book' = booked
             /\ dayStartCash' = book.cash
             /\ newNotional' = NewPositionNotional(filled)
        ELSE phase' = "raised" /\ UNCHANGED <<book, dayStartCash, newNotional>>
     /\ UNCHANGED <<market, strategy, history, session, priorPending, results>>

-----------------------------------------------------------------------------
(* Planning: a decision becomes an order of a side and a quantity, or none. *)

NoOrder == [side |-> "HOLD", quantity |-> 0]

\* Shares worth an amount in hundredths, rounded down
Shares(amount, close) == amount \div (100 * close)

SellShares(amount, close) == [side |-> "SELL", quantity |-> Shares(amount, close)]

StrategyPlan(decision, portfolio, close) ==
  LET held == decision.symbol \in Held(portfolio)
      delta == decision.target - ValueOf(decision.symbol, portfolio)
  IN IF decision.status = "REJECTED" THEN NoOrder
     ELSE CASE decision.side = "SELL" /\ held ->
                 [side |-> "SELL", quantity |-> portfolio.positions[decision.symbol].quantity]
            [] decision.side = "BUY" /\ delta > 0 ->
                 [side |-> "BUY", quantity |-> Shares(delta, close)]
            [] decision.side = "REDUCE" /\ delta < 0 -> SellShares(0 - delta, close)
            [] OTHER -> NoOrder

\* At a drawdown of 20% every holding is halved, or sold down to a smaller
\* approved target.
ReductionPlan(symbol, decisions, portfolio, close) ==
  LET value == 100 * portfolio.positions[symbol].value
      approved == {decisions[i].target : i \in {j \in DOMAIN decisions :
                     decisions[j].symbol = symbol /\ decisions[j].status # "REJECTED"}}
  IN SellShares(value - Min({value \div 2} \cup approved), close)

\* The symbols planned for, in order: the decided ones, then the other holdings
PlannedSymbols(decisions, portfolio, reduction) ==
  LET decided == [i \in DOMAIN decisions |-> decisions[i].symbol]
  IN IF ~reduction THEN decided
     ELSE decided \o Those(Universe, Held(portfolio) \ ToSet(decided))

PlanOrders(decisions, portfolio, reduction, closes) ==
  LET symbols == PlannedSymbols(decisions, portfolio, reduction)
      Plan(i) == IF reduction /\ symbols[i] \in Held(portfolio)
                 THEN ReductionPlan(symbols[i], decisions, portfolio, closes[symbols[i]])
                 ELSE StrategyPlan(decisions[i], portfolio, closes[symbols[i]])
  IN [i \in DOMAIN symbols |->
        [symbol |-> symbols[i], side |-> Plan(i).side, quantity |-> Plan(i).quantity]]

\* The orders of the plans that have one
OrdersOf(plans) ==
  LET ready == Those(plans, {p \in ToSet(plans) : p.quantity > 0})
  IN [i \in DOMAIN ready |->
        [id |-> <<session, ready[i].symbol, ready[i].side>>, symbol |-> ready[i].symbol,
         side |-> ready[i].side, quantity |-> ready[i].quantity]]

-----------------------------------------------------------------------------
(* The close *)

PortfolioOf(b) ==
  [cash |-> b.cash, nav |-> b.nav, peak |-> b.peak,
   positions |-> [s \in DOMAIN b.holdings |->
     [quantity |-> LotQuantity(b.holdings[s].lots),
      value |-> LotQuantity(b.holdings[s].lots) * b.holdings[s].mark]]]

Marked(closes) ==
  ApplyEvent(book, [BlankEvent EXCEPT !.type = "PortfolioMarked", !.session = session,
                      !.marks = Restrict(closes, DOMAIN book.holdings)])

\* The last close of the run only marks.
CloseLast(closes) ==
  /\ phase = "close"
  /\ session = Sessions
  /\ book' = Marked(closes)
  /\ phase' = IF book'.ok THEN "done" ELSE "raised"
  /\ priorPending' = <<>>
  /\ history' = <<>>
  /\ results' = NoResults
  /\ UNCHANGED <<market, strategy, session, sim, dayStartCash, newNotional>>

\* What a free strategy asks for, as amounts
FreeIntents(batch, nav) ==
  [i \in DOMAIN batch |->
     [symbol |-> batch[i].symbol, side |-> batch[i].side, target |-> batch[i].percent * nav]]

\* What strategy A sees at a close: the closing prices so far of every symbol, the
\* symbols with a confirming volume, and the marked portfolio
CandidatesAt(closes, confirmed, marked) ==
  LET frames == Append(history, closes)
  IN Candidates(Universe, [s \in ToSet(Universe) |-> [k \in DOMAIN frames |-> frames[k][s]]],
                confirmed, PortfolioOf(marked))

Remembered(closes) ==
  IF strategy = "A" THEN LastOf(Append(history, closes), RequiredHistory - 1) ELSE <<>>

Decide(closes, marked, intents, regimes) ==
  LET portfolio == PortfolioOf(marked)
      context == [portfolio |-> portfolio, dayCash |-> dayStartCash, committed |-> newNotional]
      decisions == EvaluateMany(intents, context)
      reduction == ReductionRequired(portfolio)
  IN [closes |-> closes, context |-> context, reduction |-> reduction, decisions |-> decisions,
      plans |-> PlanOrders(decisions, portfolio, reduction, closes), regimes |-> regimes]

\* The risk decisions carry the same reduction as the portfolio's assessment.
ReductionsAgree(decided) ==
  \A i \in DOMAIN decided.decisions : decided.decisions[i].reduction = decided.reduction

SubmitNext(acc, order) ==
  LET submitted == Submit(acc.sim, market, order, session)
  IN [sim |-> submitted.sim,
      accepted |-> IF submitted.status = "PENDING" THEN Append(acc.accepted, order.id)
                   ELSE acc.accepted]

\* Submits orders one after the other; accepted are the pending ones.
SubmitAll(orders) ==
  LET after[n \in 0 .. Len(orders)] ==
        IF n = 0 THEN [sim |-> sim, accepted |-> <<>>] ELSE SubmitNext(after[n - 1], orders[n])
  IN after[Len(orders)]

Close(closes, marked, intents, regimes) ==
  LET decided == Decide(closes, marked, intents, regimes)
      submitted == SubmitAll(OrdersOf(decided.plans))
  IN /\ phase = "close"
     /\ session < Sessions
     /\ book' = marked
     /\ IF marked.ok /\ ReductionsAgree(decided)
        THEN /\ results' = decided
             /\ sim' = submitted.sim
             /\ priorPending' = submitted.accepted
             /\ history' = Remembered(closes)
             /\ session' = session + 1
             /\ phase' = "open"
        ELSE phase' = "raised" /\ UNCHANGED <<results, sim, history, priorPending, session>>
     /\ UNCHANGED <<market, strategy, dayStartCash, newNotional>>

CloseFree(closes, batch) ==
  /\ strategy = "free"
  /\ \E marked \in {Marked(closes)} :
       Close(closes, marked, FreeIntents(batch, marked.nav), <<>>)

CloseA(closes, confirmed) ==
  /\ strategy = "A"
  /\ phase = "close"
  /\ \E marked \in {Marked(closes)} :
     \E candidates \in {CandidatesAt(closes, confirmed, marked)} :
       LET regimes == [s \in ToSet(Universe) |->
                         (CHOOSE c \in ToSet(candidates) : c.symbol = s).regime]
       IN \E chosen \in Selections(candidates) :
            Close(closes, marked, IntentsFor(candidates, chosen), regimes)

Next ==
  \/ \E opens \in Frames, states \in (IF market = "CN" THEN StateFrames ELSE {<<>>}) :
       Open(opens, states)
  \/ \E closes \in Frames :
       \/ CloseLast(closes)
       \/ \E batch \in FreeBatches : CloseFree(closes, batch)
       \/ \E confirmed \in SUBSET ToSet(Universe) : CloseA(closes, confirmed)

Spec == Init /\ [][Next]_vars

-----------------------------------------------------------------------------
(* Properties *)

TypeOK ==
  /\ market \in {"CN", "US"}
  /\ session \in 1 .. Sessions
  /\ phase \in {"open", "close", "done", "raised"}
  /\ book.ok \in BOOLEAN /\ book.cash \in Nat /\ book.peak \in Nat
  /\ DOMAIN book.holdings \subseteq ToSet(Universe)
  /\ \A o \in ToSet(sim.pending) :
       o.symbol \in ToSet(Universe) /\ o.side \in {"BUY", "SELL"} /\ o.quantity \in Nat \ {0}
  /\ dayStartCash \in Nat /\ newNotional \in Nat

\* A run over a valid specification never raises: every accepted order ends at
\* the next open, and whatever the simulator fills the ledger can book, with the
\* orders of a session sharing one cash balance and one stock of shares
\* (runner.py _require_prior_orders_terminal, _book_open_batch).
RunNeverRaises == phase # "raised"

\* No sequence of batches, blocked orders and price moves leaves the account
\* with more holdings than the limit (risk/engine.py HOLDING_COUNT_MAX_10).
HoldingsBounded == Cardinality(DOMAIN book.holdings) <= MaxHoldings

\* What the orders of the last close trade and buy of a symbol, and what of it is
\* held, at the prices of that close
Traded(s, side) ==
  100 * SumFunction([i \in {j \in DOMAIN results.plans :
                              results.plans[j].symbol = s /\ results.plans[j].side = side}
                       |-> results.plans[i].quantity * results.closes[s]])

Bought(s) == Traded(s, "BUY")

Value(s) == ValueOf(s, results.context.portfolio)

BoughtSymbols == {results.plans[i].symbol :
                    i \in {j \in DOMAIN results.plans :
                             results.plans[j].side = "BUY" /\ results.plans[j].quantity > 0}}

SectorExposure(s) == SumFunction([peer \in SectorMates(s) |-> Value(peer) + Bought(peer)])

\* An approved BUY asks for less of a symbol of the sector than is held.
Lowered(s) ==
  \E i \in DOMAIN results.decisions :
    LET decision == results.decisions[i]
    IN /\ decision.side = "BUY" /\ decision.status # "REJECTED"
       /\ SectorOf[decision.symbol] = SectorOf[s]
       /\ decision.target < Value(decision.symbol)

\* The orders of one close, taken together and with what the day's open already
\* spent, respect the daily budget, and each the single-stock and the sector
\* limit (engine.py evaluate_many).  The sector limit is claimed only where no
\* BUY asks for less than is held: its target stands for the holding, which stays.
BatchWithinLimits ==
  LET context == results.context
      opened == {s \in BoughtSymbols : s \notin Held(context.portfolio)}
  IN BoughtSymbols # {} =>
       /\ opened # {} => SumFunction([s \in opened |-> Bought(s)]) + context.committed
                           <= DailyNewPositionLimit * context.dayCash
       /\ \A s \in BoughtSymbols :
            /\ Value(s) + Bought(s) <= SingleStockLimit * context.portfolio.nav
            /\ Lowered(s) \/ SectorExposure(s) <= SectorLimit * context.portfolio.nav

\* At a drawdown of 20% nothing is bought and every holding, named by the
\* strategy or not, is sold down to half its value, short of one share
\* (planning.py _reduction_plan).
ReductionHalves ==
  results.reduction =>
    /\ BoughtSymbols = {}
    /\ \A s \in Held(results.context.portfolio) : \E i \in DOMAIN results.plans :
         LET plan == results.plans[i]
             left == results.context.portfolio.positions[s].value
                       - plan.quantity * results.closes[s]
         IN plan.symbol = s /\ 2 * left < results.context.portfolio.positions[s].value
                                             + 2 * results.closes[s]

\* Whatever sequence of batches is asked for and whatever the market does to the
\* orders, the limits of risk/engine.py hold of the account and not only of one
\* decision: never more holdings than allowed (HoldingsBounded), the orders of a
\* batch together within the day's budget, the sector and the single stock
\* (BatchWithinLimits, evaluate_many), and after a drawdown every holding reduced
\* (ReductionHalves, planning.py _reduction_plan).
LimitsHold == HoldingsBounded /\ BatchWithinLimits /\ ReductionHalves

\* Strategy A's envelope survives the risk engine and the planning, whatever the
\* model picks: with the orders of a close filled at its prices, no symbol is over
\* the cap of its regime by a whole share, nothing is left of one that falls, and
\* only one that rises on volume has grown (strategy_a.py _action_targets).
EnvelopeCarriedOut ==
  \A s \in DOMAIN results.regimes :
    LET regime == results.regimes[s]
        left == Value(s) + Traded(s, "BUY") - Traded(s, "SELL")
    IN regime # "INSUFFICIENT" =>
         /\ left < CapOf(regime) * results.context.portfolio.nav + 100 * results.closes[s]
         /\ regime = "DEFENSIVE" => left = 0
         /\ regime # "OFFENSIVE" => left <= Value(s)
=============================================================================
