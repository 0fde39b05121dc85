------------------------------ MODULE RiskEngine ------------------------------
(***************************************************************************)
(* The limits of risk/engine.py as operators: what RiskEngine decides on a *)
(* batch of intents for one portfolio.                                     *)
(*                                                                         *)
(* A weight is used only multiplied by the net asset value, so it is kept  *)
(* as that amount: every target, asked for or decided, is an amount in     *)
(* hundredths of a unit of money, exact for every percentage.              *)
(* The program's roundings are at 128 digits and always towards the limit. *)
(*                                                                         *)
(*   intent:    [symbol, side, target]                                     *)
(*   portfolio: [cash, nav, peak, positions], positions a function from    *)
(*              the held symbols to [quantity, value]                      *)
(*   context:   [portfolio, dayCash, committed], the new-position notional *)
(*              committed today in hundredths                              *)
(***************************************************************************)
EXTENDS Integers, SequencesExt

CONSTANTS
  SectorOf,      \* the instruments known to the engine and their sectors
  MaxHoldings    \* 10 in the code

ASSUME RiskAssumption == MaxHoldings \in Nat \ {0}

SingleStockLimit == 15
SectorLimit == 30
DailyNewPositionLimit == 30

Sides == {"BUY", "SELL", "HOLD", "REDUCE"}

Held(portfolio) == DOMAIN portfolio.positions

-----------------------------------------------------------------------------
(* Drawdown from the high-water mark. *)

LossAtLeast(portfolio, lossFactor, peakFactor) ==
  portfolio.peak > 0 /\ (portfolio.peak - portfolio.nav) * lossFactor >= portfolio.peak * peakFactor

BuyBlocked(portfolio) == LossAtLeast(portfolio, 20, 3)

\* assess_portfolio: whether a reduction is required; the exposures the
\* directive carries are only reported.
ReductionRequired(portfolio) == LossAtLeast(portfolio, 5, 1)

-----------------------------------------------------------------------------
(* The four limits on a BUY.  reserved holds the approved targets of the    *)
(* earlier intents of the batch, committed the new-position notional.       *)

ValueOf(symbol, portfolio) ==
  IF symbol \in Held(portfolio) THEN 100 * portfolio.positions[symbol].value ELSE 0

\* What a symbol counts for in its sector: an approved target stands for the
\* holding it is to replace.
Standing(symbol, portfolio, reserved) ==
  IF symbol \in DOMAIN reserved THEN reserved[symbol] ELSE ValueOf(symbol, portfolio)

SectorMates(symbol) == {s \in DOMAIN SectorOf : SectorOf[s] = SectorOf[symbol]}

\* What the sector has left for a symbol
SectorRoom(symbol, portfolio, reserved) ==
  SectorLimit * portfolio.nav
    - SumFunction([s \in SectorMates(symbol) \ {symbol} |-> Standing(s, portfolio, reserved)])

DailyRoom(context, committed) ==
  Max({0, DailyNewPositionLimit * context.dayCash - committed})

MetadataKnown(symbol, portfolio) ==
  {symbol} \cup Held(portfolio) \subseteq DOMAIN SectorOf

\* A slot: the symbol is held or reserved already, or one is free.
HasSlot(symbol, portfolio, reserved) ==
  LET projected == Held(portfolio) \cup DOMAIN reserved
  IN symbol \in projected \/ Cardinality(projected) < MaxHoldings

BuyTarget(intent, context, reserved, committed) ==
  LET portfolio == context.portfolio
      sector == Max({0, SectorRoom(intent.symbol, portfolio, reserved)})
      daily == IF intent.symbol \in Held(portfolio) THEN {} ELSE {DailyRoom(context, committed)}
  IN Min({intent.target, SingleStockLimit * portfolio.nav, sector} \cup daily)

-----------------------------------------------------------------------------
(* Decisions *)

Decision(intent, status, target, reduction) ==
  [symbol |-> intent.symbol, side |-> intent.side, status |-> status, target |-> target,
   reduction |-> reduction]

Rejected(intent, reduction) == Decision(intent, "REJECTED", 0, reduction)

EvaluateBuy(intent, context, reserved, committed) ==
  LET portfolio == context.portfolio
      target == BuyTarget(intent, context, reserved, committed)
      refused == \/ portfolio.nav = 0
                 \/ ~MetadataKnown(intent.symbol, portfolio)
                 \/ ~HasSlot(intent.symbol, portfolio, reserved)
                 \/ target = 0
      status == IF target < intent.target THEN "CLAMPED" ELSE "APPROVED"
  IN IF BuyBlocked(portfolio) THEN Rejected(intent, ReductionRequired(portfolio))
     ELSE IF refused THEN Rejected(intent, FALSE)
     ELSE Decision(intent, status, target, FALSE)

\* Only a BUY is limited.  Every decision says whether a reduction is required.
Evaluate(intent, context, reserved, committed) ==
  IF intent.side = "BUY" THEN EvaluateBuy(intent, context, reserved, committed)
  ELSE Decision(intent, "APPROVED", intent.target, ReductionRequired(context.portfolio))

\* Mutant: approved intents reserve nothing for the ones after them.
Reserve_Nothing(acc, decision, context) ==
  [acc EXCEPT !.decisions = Append(@, decision)]

\* What a decision leaves for the later intents of its batch
Reserve(acc, decision, context) ==
  LET next == [acc EXCEPT !.decisions = Append(@, decision)]
  IN IF decision.side # "BUY" \/ decision.status = "REJECTED" THEN next
     ELSE [next EXCEPT
             !.reserved = [s \in DOMAIN acc.reserved \cup {decision.symbol} |->
                IF s = decision.symbol THEN decision.target ELSE acc.reserved[s]],
             !.committed = IF decision.symbol \in Held(context.portfolio) THEN @
                           ELSE @ + decision.target]

EvaluateNext(acc, intent, context) ==
  Reserve(acc, Evaluate(intent, context, acc.reserved, acc.committed), context)

\* The intents of a batch, one after the other
EvaluateMany(intents, context) ==
  LET after[n \in 0 .. Len(intents)] ==
        IF n = 0 THEN [decisions |-> <<>>, reserved |-> <<>>, committed |-> context.committed]
        ELSE EvaluateNext(after[n - 1], intents[n], context)
  IN after[Len(intents)].decisions
=============================================================================
