--------------------------- MODULE MCDurableLedger ---------------------------
(***************************************************************************)
(* Instance of DurableLedger: a dozen events of two accounts, chosen so    *)
(* that sales split lots, reversals undo what later events rest on, and    *)
(* batches conflict, overlap and repeat.                                   *)
(***************************************************************************)
EXTENDS DurableLedger

Event(id, at, type) == [BlankEvent EXCEPT !.id = id, !.account = "us", !.at = at, !.type = type]

Fill(id, symbol, side, quantity, price, fees) ==
  [fill_id |-> id, symbol |-> symbol, side |-> side, quantity |-> quantity,
   price |-> price, fees |-> fees]

Open == [Event("open", 1, "CashInitialized") EXCEPT !.amount = 24]
Buy1 == [Event("buy1", 2, "BuyFilled") EXCEPT
           !.session = 2, !.fills = <<Fill("-", "X", "BUY", 2, 4, 2)>>]
Buy2 == [Event("buy2", 3, "BuyFilled") EXCEPT
           !.session = 3, !.fills = <<Fill("-", "X", "BUY", 1, 6, 0)>>]
Buy2Dearer == [Buy2 EXCEPT !.fills = <<Fill("-", "X", "BUY", 1, 8, 0)>>]
MarkX == [Event("mark", 4, "PositionMarked") EXCEPT !.session = 4, !.marks = ("X" :> 10)]
Sell1 == [Event("sell1", 5, "SellFilled") EXCEPT
            !.session = 5, !.fills = <<Fill("-", "X", "SELL", 1, 8, 2)>>]
Sell2 == [Event("sell2", 6, "SellFilled") EXCEPT
            !.session = 6, !.fills = <<Fill("-", "X", "SELL", 2, 4, 0)>>]
Undo == [Event("undo", 7, "EventReversed") EXCEPT !.target = "buy1"]
Take == [Event("take", 8, "CashAdjusted") EXCEPT !.amount = -10]
Batch == [Event("batch", 9, "OpenExecutionBatchBooked") EXCEPT
            !.session = 9, !.marks = ("Y" :> 2),
            !.fills = <<Fill("f1", "X", "SELL", 1, 6, 0), Fill("f2", "Y", "BUY", 2, 2, 2)>>]

OpenCN == [Open EXCEPT !.account = "cn", !.id = "open-cn"]
\* An identifier of the other account's stream
BuyCN == [Buy1 EXCEPT !.account = "cn"]

MCBatches ==
  {<<Open>>, <<Open, Buy1>>, <<Buy1, Buy2>>, <<Buy2>>, <<Buy2Dearer>>, <<MarkX>>, <<Sell1>>,
   <<Sell1, Sell2>>, <<Undo>>, <<Undo, Take>>, <<Take>>, <<Batch>>, <<OpenCN>>, <<OpenCN, BuyCN>>}

Symmetry == Permutations(Writers)
=============================================================================
