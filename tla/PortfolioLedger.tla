--------------------------- MODULE PortfolioLedger ---------------------------
(***************************************************************************)
(* The accounting of account/ledger.py: what a sequence of ledger events   *)
(* is worth, and which sequences PortfolioLedger accepts.                  *)
(*                                                                         *)
(* Amounts are integers.  Dividing a lot's cost is exact in the program up *)
(* to 128 digits, and exact here for the quantities and prices the         *)
(* instances use: each price and fee is a multiple of every quantity.      *)
(* Elsewhere it rounds down here; the books balance all the same, because  *)
(* what a sale does not take of a cost stays with the lot.                 *)
(***************************************************************************)
EXTENDS Integers, SequencesExt

FillTypes == {"BuyFilled", "SellFilled", "OpenExecutionBatchBooked"}
ValuationTypes == {"OpenExecutionBatchBooked", "PortfolioMarked"}

\* An event carries every field; the ones its type lacks are empty.
\*   fills : sequence of [fill_id, symbol, side, quantity, price, fees]
\*   marks : function from symbols to prices
BlankEvent ==
  [id |-> "", account |-> "", type |-> "", at |-> 0, session |-> 0, amount |-> 0,
   target |-> "", fills |-> <<>>, marks |-> <<>>]

\* What the fields of an event may be
ValidFill(fill) ==
  /\ fill.side \in {"BUY", "SELL"}
  /\ fill.quantity \in Nat \ {0} /\ fill.price \in Nat \ {0} /\ fill.fees \in Nat

ValidEvent(e) ==
  /\ e.type \in FillTypes \cup ValuationTypes
       \cup {"CashInitialized", "CashAdjusted", "PositionMarked", "EventReversed"}
  /\ e.at \in Nat
  /\ e.amount \in Int
  /\ e.type = "CashInitialized" => e.amount >= 0
  /\ e.type \notin {"CashInitialized", "CashAdjusted"} => e.amount = 0
  /\ e.fills \in Seq(ToSet(e.fills)) /\ \A fill \in ToSet(e.fills) : ValidFill(fill)
  /\ e.type \notin FillTypes => e.fills = <<>>
  /\ \A s \in DOMAIN e.marks : e.marks[s] \in Nat \ {0}

\* The elements of a sequence that are in a set, in their order
Those(seq, keep) ==
  LET those[n \in 0 .. Len(seq)] ==
        IF n = 0 THEN <<>>
        ELSE IF seq[n] \in keep THEN Append(those[n - 1], seq[n]) ELSE those[n - 1]
  IN those[Len(seq)]

-----------------------------------------------------------------------------
(* The book: cash, realized profit, high-water mark, holdings.             *)

EmptyBook == [ok |-> TRUE, cash |-> 0, realized |-> 0, nav |-> 0, peak |-> 0,
              holdings |-> <<>>]

\* The next book where a validation holds, a refused one where it fails
Checked(book, valid, next) ==
  IF book.ok /\ valid THEN next ELSE [book EXCEPT !.ok = FALSE]

LotsOf(book, symbol) ==
  IF symbol \in DOMAIN book.holdings THEN book.holdings[symbol].lots ELSE <<>>

LotQuantity(lots) == SumFunction([i \in DOMAIN lots |-> lots[i].quantity])
LotCost(lots) == SumFunction([i \in DOMAIN lots |-> lots[i].cost])

ApplyBuy(book, fill, session) ==
  LET cost == fill.quantity * fill.price + fill.fees
      lot == [session |-> session, quantity |-> fill.quantity, cost |-> cost]
  IN Checked(book, cost <= book.cash,
       [book EXCEPT !.cash = @ - cost,
          !.holdings = [s \in DOMAIN book.holdings \cup {fill.symbol} |->
             IF s = fill.symbol
             THEN [lots |-> Append(LotsOf(book, s), lot), mark |-> fill.price]
             ELSE book.holdings[s]]])

\* What a sale of quantity takes from lot i, the oldest lots first
Taken(lots, quantity, i) ==
  LET older == LotQuantity(SubSeq(lots, 1, i - 1))
  IN IF older >= quantity THEN 0 ELSE Min({quantity - older, lots[i].quantity})

TakenCost(lots, quantity, i) ==
  (lots[i].cost * Taken(lots, quantity, i)) \div lots[i].quantity

\* The lots that are not empty
NonEmpty(lots) == Those(lots, {lot \in ToSet(lots) : lot.quantity > 0})

\* Mutant: what is left of a split lot keeps the whole cost.
LotsAfterSale_SplitKeepsCost(lots, quantity) ==
  NonEmpty([i \in DOMAIN lots |->
              [session |-> lots[i].session, cost |-> lots[i].cost,
               quantity |-> lots[i].quantity - Taken(lots, quantity, i)]])

LotsAfterSale(lots, quantity) ==
  NonEmpty([i \in DOMAIN lots |->
              [session |-> lots[i].session,
               quantity |-> lots[i].quantity - Taken(lots, quantity, i),
               cost |-> lots[i].cost - TakenCost(lots, quantity, i)]])

ApplySell(book, fill) ==
  LET lots == LotsOf(book, fill.symbol)
      left == LotsAfterSale(lots, fill.quantity)
      proceeds == fill.quantity * fill.price - fill.fees
      allocated == SumFunction([i \in DOMAIN lots |-> TakenCost(lots, fill.quantity, i)])
  IN Checked(book, fill.quantity <= LotQuantity(lots) /\ proceeds >= 0,
       [book EXCEPT !.cash = @ + proceeds,
                    !.realized = @ + (proceeds - allocated),
                    !.holdings =
          IF left = <<>> THEN Restrict(book.holdings, DOMAIN book.holdings \ {fill.symbol})
          ELSE [book.holdings EXCEPT ![fill.symbol] = [lots |-> left, mark |-> fill.price]]])

ApplyFill(book, fill, session) ==
  IF fill.side = "BUY" THEN ApplyBuy(book, fill, session) ELSE ApplySell(book, fill)

\* The fills of an event, one after the other
ApplyFills(book, event) ==
  LET after[n \in 0 .. Len(event.fills)] ==
        IF n = 0 THEN book ELSE ApplyFill(after[n - 1], event.fills[n], event.session)
  IN after[Len(event.fills)]

\* Prices for some of the held symbols
Mark(book, marks) ==
  Checked(book, DOMAIN marks \subseteq DOMAIN book.holdings,
    [book EXCEPT !.holdings = [s \in DOMAIN book.holdings |->
       IF s \in DOMAIN marks THEN [lots |-> book.holdings[s].lots, mark |-> marks[s]]
       ELSE book.holdings[s]]])

\* A complete valuation names exactly the held symbols.
ApplyCompleteMarks(book, marks) ==
  Checked(book, DOMAIN marks = DOMAIN book.holdings, Mark(book, marks))

\* Net asset value and its high-water mark after an event
Revalue(book) ==
  LET nav == book.cash +
        SumFunction([s \in DOMAIN book.holdings |->
                       LotQuantity(book.holdings[s].lots) * book.holdings[s].mark])
  IN Checked(book, TRUE, [book EXCEPT !.nav = nav, !.peak = IF nav > @ THEN nav ELSE @])

ApplyEvent(book, event) ==
  Revalue(
    CASE event.type = "CashInitialized" ->
           [EmptyBook EXCEPT !.cash = event.amount, !.peak = event.amount]
      [] event.type = "CashAdjusted" ->
           Checked(book, book.cash + event.amount >= 0, [book EXCEPT !.cash = @ + event.amount])
      [] event.type \in {"BuyFilled", "SellFilled"} -> ApplyFills(book, event)
      [] event.type = "OpenExecutionBatchBooked" ->
           ApplyCompleteMarks(ApplyFills(book, event), event.marks)
      [] event.type = "PortfolioMarked" -> ApplyCompleteMarks(book, event.marks)
      [] event.type = "PositionMarked" -> Mark(book, event.marks))

\* The book after some events
Replay(events) ==
  LET after[n \in 0 .. Len(events)] ==
        IF n = 0 THEN EmptyBook ELSE ApplyEvent(after[n - 1], events[n])
  IN after[Len(events)]

-----------------------------------------------------------------------------
(* Which sequences are accepted.                                           *)

IsReversal(event) == event.type = "EventReversed"

\* A reversal names an earlier event, no opening and no reversal, and only once.
ReversalsValid(events) ==
  \A i \in DOMAIN events : IsReversal(events[i]) =>
    /\ \E j \in 1 .. i - 1 :
         /\ events[j].id = events[i].target
         /\ events[j].type \notin {"CashInitialized", "EventReversed"}
    /\ \A j \in 1 .. i - 1 : IsReversal(events[j]) => events[j].target # events[i].target

\* The ordinary events that no reversal undoes
ActiveEvents(events) ==
  LET reversed == {e.target : e \in {f \in ToSet(events) : IsReversal(f)}}
  IN Those(events, {e \in ToSet(events) : ~IsReversal(e) /\ e.id \notin reversed})

\* Identifiers of the fills of open batches, with their places
BatchFills(events) ==
  UNION {{<<i, j>> : j \in DOMAIN events[i].fills} :
           i \in {k \in DOMAIN events : events[k].type = "OpenExecutionBatchBooked"}}

FillIdsUnique(events) ==
  \A p, q \in BatchFills(events) :
    events[p[1]].fills[p[2]].fill_id = events[q[1]].fills[q[2]].fill_id => p = q

\* Mutant: a stream's clock may run backwards.
StreamValid_AnyOrder(events) ==
  /\ \A i \in DOMAIN events : events[i].type = "CashInitialized" <=> i = 1
  /\ \A i, j \in DOMAIN events : events[i].id = events[j].id => i = j
  /\ FillIdsUnique(events)

\* One opening, first; identifiers unique; the stream's clock strictly increasing
StreamValid(events) ==
  /\ \A i \in DOMAIN events : events[i].type = "CashInitialized" <=> i = 1
  /\ \A i, j \in DOMAIN events : events[i].id = events[j].id => i = j
  /\ \A i, j \in DOMAIN events : i < j => events[i].at < events[j].at
  /\ FillIdsUnique(events)

\* rebuild: does PortfolioLedger take this nonempty sequence?
Accepts(events) ==
  StreamValid(events) /\ ReversalsValid(events) /\ Replay(ActiveEvents(events)).ok

\* snapshot: the book after the events up to an instant
SnapshotAsOf(events, at) ==
  Replay(ActiveEvents(Those(events, {e \in ToSet(events) : e.at <= at})))

-----------------------------------------------------------------------------
(* What the accounting promises, stated over the events themselves.        *)

PaidIn(events) == SumFunction([i \in DOMAIN events |-> events[i].amount])

OpenCost(book) == SumFunction([s \in DOMAIN book.holdings |-> LotCost(book.holdings[s].lots)])

\* What a fill adds to the shares of a symbol
Net(fill, symbol) ==
  IF fill.symbol # symbol THEN 0
  ELSE IF fill.side = "BUY" THEN fill.quantity ELSE 0 - fill.quantity

NetShares(events, symbol) ==
  SumFunction([i \in DOMAIN events |->
    SumFunction([j \in DOMAIN events[i].fills |-> Net(events[i].fills[j], symbol)])])

\* Money: cash and the cost of the open lots are what was paid in plus the
\* realized profit.  Shares: the open lots of a symbol are what was bought of it
\* less what was sold.
Balanced(events) ==
  LET active == ActiveEvents(events)
      book == Replay(active)
      symbols == {f.symbol : f \in UNION {ToSet(e.fills) : e \in ToSet(active)}}
  IN /\ book.cash + OpenCost(book) = PaidIn(active) + book.realized
     /\ \A s \in symbols : LotQuantity(LotsOf(book, s)) = NetShares(active, s)

\* No open lot is empty or free, no holding is without lots, and the book is solvent.
Solvent(events) ==
  LET book == Replay(ActiveEvents(events))
  IN /\ book.cash >= 0
     /\ book.nav <= book.peak
     /\ \A s \in DOMAIN book.holdings :
          /\ book.holdings[s].lots # <<>>
          /\ \A lot \in ToSet(book.holdings[s].lots) : lot.quantity > 0 /\ lot.cost > 0
=============================================================================
