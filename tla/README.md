# A verification of the stock agent's paper runtime

This directory holds TLA+ models of the unattended dual-market paper runtime in
`src/stock_agent` and of the verifiers beside it, the TLC runs that check them on small instances,
and proofs that TLAPS checks for every size of instance. Paths below are relative to the package `src/src/stock_agent`.

- [1 The system](#1-the-system)
- [2 Modules](#2-modules)
- [3 Runs](#3-runs)
- [4 Proofs](#4-proofs)
- [5 Disagreements between code and documents](#5-disagreements-between-code-and-documents)
- [6 Not modelled, and plan](#6-not-modelled-and-plan)
- [7 Running it](#7-running-it)

## 1 The system

A scheduled wake starts a process that, for each of two markets, refreshes point-in-time market
data, asks a language model once for a decision, passes the intents through a risk engine,
persists next-open paper orders, and later executes them and books the fills in an append-only
ledger. Everything durable is in three databases: `runtime.sqlite` (runs, leases, invocations,
orders, obligations, executions, budgets, ledger events, manifests, kill switches), the journal
of the decision provider (DuckDB), and the point-in-time bar store (DuckDB). A wake can die at
any instant and the next wake, possibly a concurrent one, must go on from the tables alone.

| component | state | operations | talks to | what is hard | what makes it correct |
|---|---|---|---|---|---|
| runs and leases (`runtime/store.py`, `state.py`) | `runs`, `run_attempts`, `market_leases` | `claim_run`, `transition_run` | every other part, through the phase | two processes, clocks read before the transaction, expiry, crash anywhere | at most one live lease; lease, attempts and run agree; a lost run is taken over |
| bounded decision (`runtime/decision.py`, `strategies/llm_provider.py`) | `decision_invocations` | `run_decision`, `mark_send_intent`, `record_decision`, `reconcile_abandon` | the journal, the transport, the Keychain | a crash between the send intent and the answer; two databases | a run's request is sent at most once; nothing abandoned is decided later |
| decision journal (`strategies/llm_journal.py`) | attempts, evidence, attestations | `append_attempt`, lookup, `append_attestation` | the provider | two threads with one request | one canonical decision per request fingerprint |
| orders and obligations (`runtime/orders.py`, `execution.py`, store) | `orders`, `risk_results`, `execution_obligations`, `executions` | `persist_risk_and_orders`, `execute`, `terminate_*` | risk engine, authority gate | separate commits, a cancel that races a fill | order sets are whole; order and obligation end in a legal pair, once |
| market data batch (`runtime/market_data.py`, store) | `provider_day_budgets`, `symbol_fetch_attempts` | `refresh` | providers, point-in-time store | budget spent by several processes, circuit, crash between claim and record | calls never exceed claims; success means stored |
| portfolio ledger (`account/ledger.py`) | events, lots, cash, marks | `append`, `append_many`, `rebuild`, `snapshot` | backtest, durable ledger | reversal of what later events rest on, split lots | money and shares are conserved |
| durable ledger (`runtime/ledger_store.py`) | `ledger_events` | `append_events`, `load_events` | portfolio ledger | validation outside the transaction, retry after an unheard commit | what is stored replays; an event is stored once |
| run-once (`runtime/orchestrator.py`, `lock.py`, store) | process lock, `kill_switches` | `run`, `set_`, `clear_kill_switch` | all of the above | a switch set during a decision; one market's failure; a lock left behind | a switch ends a market's decisions; every later wake can start |
| sessions (`runtime/clock.py`, `calendars.py`, `market/calendar.py`) | calendars | `is_session`, `has_closed`, `next_session` | run-once, simulator | time zones, closures, half days, the end of the calendar | the right session for the instant |
| reports (`runtime/reports.py`) | report files | `publish_report` | run-once | rename over a concurrent publisher | a report is whole, and lands |
| point-in-time store (`data/store.py`, `providers/ingestion.py`) | revisions | `append_bar_revisions`, `latest_bar_revision_as_of`, `ingest` | batch, snapshots, backtest | corrections, out-of-order arrival, a clock set back | no read sees the future; what was known stays known |
| snapshots (`runtime/snapshots.py`, store) | manifests | `freeze_snapshot`, `store_snapshot_manifest` | point-in-time store, decision | freezing again after a correction | a run has one manifest, rebuilt identically |
| risk engine (`risk/engine.py`) | none | `evaluate_many`, `assess_portfolio` | planning, orders | reservations within a batch, rounding at a limit | limits hold for the batch as a whole |
| simulator and rules (`execution/*`) | pending orders, watermark | `submit`, `process_session` | backtest | shared cash and shares, T+1, missing bars | fills are affordable, settled and at the next open |
| backtest (`backtest/*`) | sessions, result registry | `run`, `plan_orders` | simulator, risk, ledger | the order of the steps of a session | every fill can be booked; same input, same result |
| strategy A (`strategies/strategy_a.py`, `llm_contract.py`) | none | envelope of actions, selection, intents | backtest, model | targets fixed before risk, reservations and rounding | what is ordered stays within the envelope |
| evidence verifiers (`scripts/verify_*.py` of the repository) | evidence files | one verification each | store, backtest, journal | sources edited meanwhile, two verifiers, death between staging and replace | what a file reports was complete (about which code: section 5) |
| transport, providers, universe, audit, command line | none of their own | one call each | networks, operator | malformed or late replies | an outcome of a fixed set |

`PROJECT.json` says of each component what is modelled. The last row is not, with the reasons in
section 6; a few are modelled in part.

## 2 Modules

How the modules depend on one another:

    RuntimeRuns --implements--> RunAuthority       MarketSchedule <-- RunOnce
    RuntimeRuns <-- RunDiscovery
    DecisionInvocation                             MarketDataBatch
    OrderExecution                                 PointInTimeStore <-- BarHistory
    PortfolioLedger <-- DurableLedger                               <-- LiveVerification
    PortfolioLedger, RiskEngine, ExecutionSimulator, StrategyA <-- Backtest

Each state machine has a module `MC...` with its instance, and `.cfg` files named after module and
run. `RunOnce` has the pipeline of a market as one step that completes or raises; the four modules
above it in the table are that pipeline, one per store it goes through.

### RuntimeRuns, RunAuthority
`RuntimeRuns` has the three tables of a run, and for every worker a program counter, the clock
reading its claim was called with, and the attempt it believes in. `BeginClaim` reads the clock;
`ClaimCreated`, `ClaimRecovered` and `ClaimRefused` are the single `BEGIN IMMEDIATE` transaction of
`claim_run`, which may run up to `MaxDelay` ticks later. `TransitionRun` and `TransitionRefused` are
`transition_run` with the edges of `state.py`. `Crash` loses the worker's memory only. `Tick` moves
time. `RunAuthority` says what the claims promise: a run is unclaimed, owned by one attempt until
some instant, or over; `ImplementsAuthority` is the refinement.

### RunDiscovery
The same runs under the wakes of the orchestrator: each run key has the day of its session, `Present`
claims only the run of `today` (`_run_market` looks at the session of `now.date()`), `DayEnds` moves
on. Nothing else under `src/` claims or lists runs.

### DecisionInvocation
One action for every access of `run_decision` and of the provider's `decide`: `LookupDecision`,
`InspectInvocation`, `ReadCredential`, `MarkSendIntent`, `Send`, `Receive`, `AppendDecision`,
`RecordDecision`, the failure of each, and the operator's `Abandon`. A reply is a value or a failure
before or after the request left. The variable `shared`, chosen in `Init`, says whether one process
at a time has the journal open or several threads share it.

### OrderExecution
`BeginPersist` starts `persist_risk_and_orders` with one of the decision vectors an attempt may
present; `PersistRiskRow` is one of its autocommitted statements and `PersistOrders` the
transaction that follows. `CreateObligation`, `BlockObligationData`, `MarkObligationReady`,
`TerminateExpired` and `TerminateCancelled` are store transactions of the operator or the
scheduler. `Execute`, `RunExecutor`, `FinalizeFill` and `FinalizeRejection` are the steps of
`ExecutionAdapter.execute`, with the capability gate as the constant set `Validated`.

### MarketDataBatch
`refresh` in its two phases: `CheckCircuit`, `CheckCompleted`, `ClaimBudget`, `CallProvider`,
`Ingest`, `OpenCircuit`, `RecordAttempt`, one per store access. The variable `locked`, chosen in
`Init`, says whether a wake holds the process lock around the batch.

### PortfolioLedger, DurableLedger
`PortfolioLedger` has no variables. A book is folded over events (`Replay`) as `_replay` does it;
`LotsAfterSale` gives the first-in-first-out split of lots in closed form; `Accepts` is the
acceptance of `_commit_candidates`. `ValidEvent` is what the event classes validate of their fields.
`DurableLedger` is `append_events`: `Call` looks identities
up, `ReplayBatch` loads and replays, `Insert` is the transaction. `Reloads` is what decoding the
stored JSON does to each type of event.

### PointInTimeStore, BarHistory
`PointInTimeStore` has the operators of one symbol's bars: `AppendBarRevisions` with the checks of
a batch and of a row, the three reads (`LatestBarRevisionAsOf` orders by availability, then by
ingestion time), and `Ingest`, the whole plan of an incremental ingestion with every refusal.
`BarHistory` is what happens to them: a wake opens the bar store, ingests, freezes, and closes it
or dies; a frozen manifest may be stored later. DuckDB admits one process at a time, which the
variable `wake` shows. Sources may change, corrections arrive at any time, and where `steady` is
false the wall clock may be set back between wakes. `OwnRevisions` and `Resolve` are the
specification of a real-data backtest and the rows it resolves when it runs.

### LiveVerification
The two verifiers of the repository's `scripts/`, several at a time. `StartLive`, `FetchBars`,
`AssembleTwice` use the store's `Ingest` on two private stores; `StartFixture`, `LoadFixture`,
`RecordRun`, `ReplayRun` are the recorded run of strategy A and its replay from the journal.
`TakeDigest`, `VerifyEvidence`, `CreateStaging`, `WriteStaging`, `ReplaceEvidence` write the
evidence, `Die` ends a verifier anywhere, and `Edit` is somebody who changes the sources meanwhile.
The calls of a live verifier go through `CallsFor`, the recording provider that asks the real one only
while it has no bars. The recorded run asks on every session with a candidate but the last (`Asked`), and
the transport answers as `FixtureAnswer`: BUY on the decision date, HOLD where it may, else the first
action offered. What the strategy offers is one of `Offers`, because an edit may change it: the
committed fixture's, one without the signal, one that sells out, one without a later candidate. Fill,
NAV and the other conditions of `_assemble_evidence` are data the model has not: `ReplayRun` may
fail for them. Each verifier digests its own list of files (`DigestedParts`), a part of what it
executes, as they are when it has finished.

### MarketSchedule, RunOnce
`MarketSchedule` has the official schedules with their closures, half days and covered years
(`ValidSchedule` is what a schedule must satisfy to be constructed), and the clock. `RunOnce` is a
wake: `Wake` takes the process lock, if callers do; `RunMarket` checks the kill switches, the
session and the close by the instant the wake was given; `Decide` and `DecideFails` end the pipeline; `BeginReport` to `Cleanup` are
`publish_report`; `Leave`, `Raise` and `Crash` end the wake. Nothing under `src/` composes lock,
orchestrator and publication, so `locked` and the caller's `zone` are chosen in `Init`.

### RiskEngine, ExecutionSimulator, StrategyA, Backtest
`RiskEngine` and `ExecutionSimulator` are operators. A weight only ever multiplies the net asset
value, so the engine's targets are amounts in hundredths, and percentages are exact; the program
computes with 128 digits and rounds towards the limit. `EvaluateMany` folds a batch with the
reservations of `evaluate_many`. `ProcessSession` folds the pending orders with the cash and the
sellable shares that are left; quantities and money are integers in the last decimal place of a
quantity and of its product with a price, and `Grain` is the finest amount of cash the simulator
supports, 12 places in the code. `StrategyA` goes from the last closes to the regime, the actions
offered for each symbol and the intents of the chosen ones. `Backtest` is `_run_isolated`: `Open`
executes and books what the last close submitted; `CloseFree` and `CloseA` mark, ask, decide, plan
and submit, with a strategy that may answer any batch or with strategy A and a model that may pick
anything allowed; `CloseLast` only marks. The book is that of `PortfolioLedger`. An exception that
ends the run is the phase `raised`.

## 3 Runs

| run | question | bounds, and why they are enough |
|---|---|---|
| `claims` | can two processes own a run, or a run be orphaned? | two workers, one key, two configurations that compete for it, a lease of two ticks, a claim delayed by one tick, one crash: expiry, takeover, a late claim and a config conflict all occur |
| `discovery` | does a later wake find a run that was left behind? (no) | one worker, two sessions on two days, one crash, and the strongest fairness of wakes a schedule could have |
| `stale_holder` | does a live lease stop the worker that lost it? (no) | as `claims` with one configuration, without fairness |
| `decision` | can a crash make a run ask twice or forget that it asked; do callers, rows and journal agree? | two workers that take turns on one run, or two runs with the same request in threads that share the journal; two answers, two instants, three crashes, one for each attempt and for the recovery |
| `orders` | are order sets whole and justified by their risk rows, and terminal states final? | two workers, one of them with execution authority, two runs, one with decisions that differ between attempts, two symbols, one crash |
| `market_refresh` | are calls paid for, and successes kept? | two refreshes, two symbols, two days, a normal budget of two and a recovery budget of one, every kind of failure, a crash anywhere |
| `ledger` | does the table replay, and do the books balance? | two writers, two accounts, eleven kinds of event in fourteen overlapping and conflicting batches, with and without the lock |
| `ledger_reload` | can what is stored be loaded? (no) | one writer |
| `backtest` | can the simulator fill what the ledger cannot book; do limits hold for a batch; does a drawdown halve every holding; does strategy A stay within its envelope? | four sessions (buy, sell or add, reduce, and a last mark), either market, three symbols in two sectors, two holdings at most for the code's ten so that the slots run out, a calm market, a gap that makes two accepted buys too dear together and a lot unaffordable, and a crash beyond 20%; suspensions and both price limits; lots of ten for a hundred, so that the empty lot occurs; averages over one and two closes, with which offensive, neutral and defensive regimes all occur with and without a holding |
| `pit` | does anything rewrite what was known or decided on? | two sessions, four instants, two sources, two payloads, one manifest on its way: a baseline, a correction before and after a freeze, a late baseline and another provider all occur |
| `evidence` | is evidence whole and complete, whoever else verifies, edits or dies? | two verifiers of one live schedule and the fixture, three sessions, so that a decision follows the BUY and the last session is not asked about, four strategies, three groups of source files of which each digest covers two, one edit, a crash anywhere |
| `wake` | does a market decide on the right session, does each kill switch stop what it names, do reports land, does the lock come free? | two processes, both markets, a closure, a half day and a year without a schedule, three instants at which both, one and none of the markets may decide, callers in UTC and at +8, all five switches (everything, two markets, two accounts) of which one is set at a time (`MaxSwitches`), one report with two texts |

The properties that carry several parts are conjunctions of named ones, so that a reader finds the
parts in the module: `OrdersAgree` of `OrderSetWhole`, `TerminalPairs` and `ReportedOnce`;
`InvocationsAreTrue` of `SendIsOnRecord` and `AbandonedStaysUndecided`; `LimitsHold` of
`HoldingsBounded`, `BatchWithinLimits` and `ReductionHalves`; `RecordIsFixed` of `PastIsStable` and
`ManifestsAreFixed`; and so on.

What each claims, where it needs a condition: `SendAtMostOnce` and `AbandonedStaysUndecided` (part of
`InvocationsAreTrue`) are for journals one process at a time has open, `LockedStreamsReplay` and part of `ReportsLand` for callers that hold the process
lock, `RiskExplainsOrders` for runs whose attempts present one decision vector, `RefreezeAgrees` for
clocks that are not set back and manifests frozen after the close, `DecidesOnNewestSession` for
callers at or east of Greenwich,
and the sector limit in `LimitsHold` for batches without a lowered BUY. The hazard entries and
section 5 say what happens without the condition.

### Fairness
Weak fairness of a worker's own steps (`Work`): a process that has begun and is not killed goes on (in
`RunOnce` `Decide` included, because every wait in the pipeline has a deadline). Nothing else: no
fairness of wakes, because a wake presents only the session of its own day and nothing presents an
older run again; none of time, a crash, an operator, a provider's success or the model's answer. So
`EveryRunEnds` speaks of a run some process is in charge of, and `IntentIsExplained` of an open
intent some call is about: the one ends and the other is explained unless a process is killed,
whatever takeovers, refusals and moves under an expired lease come between. `LockIsFreed` and `KillSwitchHolds` are the
other liveness properties. Only `WakingSpec` of `RunDiscovery` has strong fairness of wakes, to show
that even those do not find a run of an earlier day. Crashes are
bounded by `MaxCrashes` where they are bounded, the delay between a clock reading and its
transaction by `MaxDelay`, attempts by `MaxAttempts`, which no behaviour within the other bounds of
`claims` reaches, edits by `MaxEdits` and a constraint on their sum, manifests on their way by a
constraint (`pit` has one at a time; the theorem `RefreezesAgree` covers any number). In `orders` one of
two processes has execution authority; two authorised fillers of one order are covered by `TablesAgree`.

`CHECK_DEADLOCK FALSE` stands where a system may stop (a backtest ends with its last session or an
exception; workers stop when their calls are done or their crashes used up; time ends) and in the
runs with a constraint.

Each property is paired in `PROJECT.json` with a mutation of a definition that breaks it, such as
a dropped check of the lease or an insert that relies on an earlier lookup. The mutants sit above
the definitions they alter.

## 4 Proofs

`RuntimeRunsProofs` proves, for all workers, keys, configurations and lease lengths:
`TypeCorrect`, `LeaseExclusion` (no two live leases on a run), `LeaseTracking` (lease and run
agree), `AttemptNumbering`, `LiveHolderOwns` (an action property) and `Refinement` to
`RunAuthority`. The inductive invariant `IInv` adds to the type invariant that every claimed run
has a lease of its current attempt, whose expiry is one lease length after some clock reading not
in the future: without the last part a delayed claim could be thought to outlive its successor.

`DecisionInvocationProofs` proves `TypeCorrect`, `JournalAgreement` and `Agreement` for both ways of
sharing the journal, from an invariant that says what a caller's memory implies about the two databases
(`LocalsInv`: an answer on its way to a caller is already canonical), and `AtMostOneSend` for a journal
that is not shared. That needs `SingleCallInv`: with one holder of the journal, a request that went out
is on record as an intent before the holder can change. With a shared journal two runs may both send the
same request; each run still decides alike. `SendsRecorded` (the first half of `InvocationsAreTrue`)
needs no condition. `RowsAreTrue` is the whole property under the hypothesis `FrozenRequests`: what a
run asks is fixed before it is first presented. The code gives a run its frozen manifest, and the
instance of `decision` has one request for each run. Without the hypothesis the property is false: a run
that dies between the journal and its row, and is then presented with another request, does not find its
answer, and is marked for reconciliation and abandoned.

`OrderExecutionProofs` proves `TypeCorrect`, `TablesAgree`, `FinalFills` (an action property) and
`RowsExplainOrders` for any number of processes, runs, symbols and crashes. `LocalsInv` says what a
process in the middle of a call remembers; `OrdersAgree` is inductive together with it, because an
order's terminal row, its obligation and the report to a caller change in one step. For the risk
rows the invariant `RiskInv` says how far they have been written: in a run whose attempts present
one vector, every symbol a writer has passed has that vector's row, whoever wrote it last.

`DurableLedgerProofs` proves `StreamsReplay`: under the process lock every stored stream is one
the ledger accepts, for all batches. The invariant is that a
batch about to be inserted is still the one its replay accepted, which fails without the lock.
`TypeCorrect` and `StoredForGood` hold without the lock too, from `StoreInv`: an identity
is stored once in all accounts together, and what a call found to be new is, with what is stored, the
whole of its batch. `PastStaysFixed` (an action property) rests on lemmas about `Those`, the events of a
sequence that are in a set: it is a recursive function, because the provers know nothing of what `SelectSeq`
selects, and the lemmas argue from the least length at which they would fail. An accepted stream is
strictly ordered in time, so what is appended is later than all that is stored, and the snapshot of a past
instant is a replay of the same events.

`BooksAreTrue`, in the same module, is about the accounting itself: whatever valid events a stream has,
if the ledger accepts it, cash and the cost of the open lots are what was paid in and the realized
profit, the open lots of a symbol are what was bought of it less what was sold, cash is not negative,
and no lot is empty or free. The argument goes up level by level: sums over finite sets do not depend on
the order (`SumRemove`); a sale takes from the lots exactly its quantity (`SaleTakesAll`) and leaves the
rest of their shares and cost in whole lots (`SaleLeaves`); a fill, a mark, an adjustment and an event
move money and shares and create none (`FillKeepsBook` to `EventKeepsBook`); so does a replay
(`ReplayKeepsBooks`), provided only its first event is an opening, which `ThosePlaces` shows of the events
left after reversals. It holds for any quantities and prices, where a split cost is rounded down: the
instance of `ledger` divides exactly. A refused book stays refused, and nothing is said about it.

`MarketDataBatchProofs` proves `TypeCorrect`, `PaidCalls`, `SuccessesAreStored` and `SettledForGood`
(an action property). What a program counter implies about the tables is `LocalsInv`: the day of a
refresh in flight has its budget row, and an attempt about to be recorded as a success is already in
the store. `PaidInv` counts, with `Cardinality`, the processes that have paid for a request and not
yet made it: they and the requests made never exceed what the budget has spent. Without that count
two paid calls could be thought to follow one claim. `FreshInv` holds under the process lock: what a
refresh is about to request or to retry has no success on record.

`PointInTimeProofs` proves every property of the run `pit`: `TypeCorrect`, `StreamsStayOrdered`,
`RefreezesAgree`, and the action properties `RecordFixed` and `SpecsStillRun`. The invariant on the store is
`StreamInv`: a session's stream has one provider, one baseline that was available at the close, and
corrections that were available when they were ingested, no two at one instant. In such a stream
availability and ingestion order the revisions alike (`SameOrder`), so an ingestion compares with
the very revision a query selects, and what it adds is invisible to queries of the past
(`ShownStays`). That is proved without `steady`: a clock set back makes an ingestion fail and never
rewrites anything. A manifest agrees with later freezes when the clock is steady, because an
ingestion after the freeze has a later instant than its cutoff.

`RunOnceProofs` proves the three invariants of the run `wake` for all markets, valid schedules, zones and
processes. `DecidesOnNewest` is about the instant the wake was given, which is all the code looks at; it
needs two facts: a process that decides had found its session closed, and
a later session, which opens on its own date in UTC, cannot have opened at an instant whose date, read at
or east of Greenwich, is earlier. For `ReportsAlwaysLand` the invariant `WInv` says which temporary
files a publishing process has. Without the lock, another process's cleanup may take one away
between two steps; a file that was renamed is whole in either case, because only whole files are renamed.

`PointInTimeProofs` also proves the invariant of the run `evidence` (`EvidenceStaysSound`), for any
verifiers, jobs, strategies and source files. `PInv` says what a verifier has established by each step:
a bar for every session (`CompleteMeansAll`: an assembly has no rows but those the provider gave), and
(`Accounted`) calls that are one for a live schedule and one for each decision of the fixture's journal.

`BacktestProofs` proves every invariant of the run `backtest`, for any universe, sectors, number of
holdings, prices, session states, lots and costs, for any batches of a free strategy and any picks of
strategy A's model: `RunTypeCorrect`, `RunsComplete`, `LimitsAlwaysHold` and `EnvelopeAlwaysCarriedOut`.

- `RunInv` is what holds between two steps: the book is sound (the lemmas of `DurableLedgerProofs` on fills
  and marks are cited here), exactly the orders accepted at the last close are pending and are due at
  this open, and (`SlotsOK`) what is held together with what they buy fits in the slots. `HoldingsBounded`
  alone is not inductive: two accepted buys could take one free slot.
- An open (`OpenKeeps`): the simulator executes all orders before the ledger books the fills.
  `SessionInv` ties the two loops together: after n orders, the cash of the simulator is the cash of the
  book with the fills so far, and what it would still sell of a symbol is no more than the book has. So every
  fill can be booked, and with China's T+1 rule the simulator only offers less.
- A batch (`BatchEnds`): `BatchInv` is what the reservations of `evaluate_many` add up to: the approved
  targets fit in the slots, in the day's budget, and in the sector's limit, where a reservation stands for
  the holding. Each approval keeps the sums of the other symbols and moves its own sector's by what it asks
  for beyond what stood there (`SectorSums`, `LimitsStayKept`).
- A close (`CloseKeeps`): `SettledOn` has what decisions and plans keep of the intents. Planning rounds
  shares down, so what is bought is never worth more than was reserved, and what is left after a sale is
  less than a share over the target. Where no BUY was lowered, a reservation is at least the holding it
  stands for, and the sector's limit holds of what is really held and bought. From it follow the limits
  (`SettledWithinLimits`), the halved holdings (`SettledHalves`) and the envelope (`EnvelopeOfSymbol`).
  `SubmitInv` says which orders the simulator accepts.

TLC finds `RunInv` true in all states of the run `backtest`.

Model-checked only: liveness (`EveryRunEnds`, `IntentIsExplained`, `LockIsFreed`, `KillSwitchHolds`; no
proof of them, or of ENABLED, is attempted). Every invariant and every action property a passing run checks is
proved, with the hypotheses named above; the three runs that show a violation are TLC's. An induction over
data cannot be stated once and used everywhere, because its statement takes an operator as a parameter. The
lemmas on sums, lots, streams, batches and the calendar make it each time anew, with a least counterexample: the
shortest prefix (`LeastExists`) or the smallest subset (`SmallestSubset`) for which they would fail.

The assumptions are those named in the modules, each as the code has it: `None` is no other value,
bounds are naturals, the processes that refresh are finitely many, runs have vectors of their symbols.
`StoreAssumption` has sessions, instants and closes as naturals, and 0 an instant. `BatchesAssumption` has
batches as nonempty sequences of one account's events (`append_events` refuses others), each with the fields
its class admits (`ValidEvent`): positive quantities, prices and marks, fees that are not negative.
`ScheduleAssumption` has schedules whose sessions open on their own date in UTC, which
`_validate_market_wall_clock` (`runtime/calendars.py:221`) implies for the two exchanges: 09:30 in Shanghai or
New York. Zones are integers. The sessions of a verification are finitely many.
`BacktestAssumption` has at least two sessions within the calendar and positive prices (`backtest/models.py`),
a finite universe without duplicates, and batches a strategy may answer: distinct symbols of the universe, and
a target of 0 for a SELL (`backtest/runner.py:708`, `domain/models.py:165`; others raise before any decision).
`StrategyAAssumption` has windows and caps as its configuration validates them. `BacktestProofs` extends
`DurableLedgerProofs` for its lemmas on books, which rest on no assumption about the ledger's callers.

## 5 Disagreements between code and documents

With a run that shows them:

- `stale_holder`: `transition_run` looks at the phase and never at the lease, so a worker that
  has lost its lease still moves the run.
- `ledger_reload`: an open execution batch or a complete valuation is stored but cannot be
  decoded, which makes the account's stream unreadable.
- `discovery`: a run left open by a crash in its day's last wake is never presented, claimed or
  listed again (`runtime/orchestrator.py:77`), against "The runtime scans durable work" (runtime
  design :394). A send intent left open that way is not marked for reconciliation either.

Observations without a run of their own (`docs` is `src/docs`):

- A run already marked for reconciliation is reported `FAILED_PRE_SEND` when it is presented again,
  after the Keychain was read once more (`runtime/decision.py:113`), although its request may have
  left (runtime design :386, :433).
- Risk rows are committed apart from the order set and can be replaced by an attempt whose orders
  are then refused (`runtime/orders.py:111`); the plan wants both "in one runtime SQLite
  transaction" (runtime plan :287).
- `execute` finalizes a fill without ledger events (`runtime/execution.py:84`), although its
  comment and the design want them in one transaction. The authority is fixed when the process
  starts (:76).
- Planning floors a quantity to 12 decimal places (`backtest/planning.py:324`, :402) and the simulator
  refuses a cash change of more than 12 (`execution/simulator.py:430`): at a price in cents the sale of
  a full-precision quantity is rejected. 2142.857142857142 shares at 7.03 are worth an amount of 14
  places. The reduction required at a 20% drawdown can be such a sale (multi-strategy design :197).
- In `evaluate_many` an approved BUY target below what is held stands for the holding in the sector
  sum (`risk/engine.py:257`), although `planning.py` then drops that BUY. The next BUY of the sector
  uses the room, and the sector can exceed 30%.
- A symbol whose fetch failed permanently is requested again by the next refresh, which looks only
  for completed symbols. The budget day is fixed when a refresh starts, also past midnight.
- `append_many` validates a batch as a whole: an overdrawing buy together with its reversal is
  accepted, and the snapshot of an instant between the two then fails.
- The process lock is taken by nothing under `src/`; the runtime has no composition root yet.
- The session of a wake is the date in the zone of the instant the caller passes
  (`runtime/orchestrator.py:77`). West of Greenwich a wake can decide a Chinese session after its next
  open, and a caller that reads Shanghai's clock never processes an American session: by the time
  it has closed, the date in Shanghai is the next.
- An exception of `decide` for one market ends the wake before the next market has its turn
  (`runtime/orchestrator.py:91`), against "Each market advances independently" (:34) and the runtime
  design :119. In `RunOnce` that is `DecideFails` and `Raise`.
- A wake judges every market by the one instant it was given, so a market whose turn comes after a
  long decision of the first may decide when its next session has opened (`runtime/orchestrator.py:91`),
  against the runtime design :399-400. A decision may of course also last past that open.
  `DecidesOnNewestSession` says only what holds at the instant the wake was given; in `RunOnce` time
  passes (`Tick`) while the first market decides.
- The digest of the sources is taken after the run (`scripts/verify_live_market_data.py:626`), so a file
  saved while a live verifier runs makes evidence current (:220) for code that never ran, against "both
  evidence records correspond to the final ... code" (ingestion contract :581). In `LiveVerification`
  that is an `Edit` before `TakeDigest`; a fixture's evidence is checked once more (`VerifyEvidence`),
  which sees only edits after its digest.
- The digests leave out sources that run: `data/providers` for the fixture
  (`scripts/verify_strategy_a_real_data.py:94`), `account`, `execution`, `domain`, `audit`, `market` and
  `strategies` for a live schedule (`scripts/verify_live_market_data.py:46`, :183). An edit of those
  leaves old evidence current. The lists are what the tests fix
  (`tests/data/providers/test_live_verifier.py:513`), and no document asks for more.

## 6 Not modelled, and plan

Not modelled, with the reason:

- LLM transport, market data providers: one request each, then decoding. `DecisionInvocation` and
  `MarketDataBatch` have their outcomes.
- Universe, domain models, audit encodings: field validation and canonical text; digests and
  identities are abstract values everywhere.
- Command line, launchd, Keychain: arguments, property lists, one system call.
- Of modelled components: prompts and evidence identities of strategy A, the JSON of events and
  manifests, attestations of the journal (no code in the package appends one), the registry that
  returns a finished backtest by its run id, several accounts in one simulator, and decimal
  precision except where section 5 names it.

Next: several accounts in one simulator, the registry of finished backtests, and the sector limit with
lowered BUYs, once `evaluate_many` gives back only what planning really frees.

## 7 Running it

`tlc -config X.cfg M` for the runs listed in `PROJECT.json`, `tlapm M.tla` for the eight modules of
proofs. The longest run takes about two minutes on two cores.
