# Trading agent: specification and proofs

A TLA+ development of `trading_agent`, a Python program that trades one spot
symbol: it backtests, runs a forward "shadow" simulation on live candles, and
runs a testnet cycle that may submit SELL orders to an exchange. Paths below are
relative to `src/trading_agent/` unless they start with `src/`.

What can lose money silently is the testnet cycle: one process that starts,
talks to an exchange whose answers may be lost, writes two SQLite stores and a
journal, and may die between any two of these steps. It is modelled first, and
most of the theorems are about it. The shadow cycle, whose record is meant to be
evidence of how the strategy would have traded, and the delivery of its
notifications come next, and then the stored history and the manifest of its
gaps, on which all research rests. The last layer is the research itself: the
simulated run that every claim about a strategy comes from, the figures reported
of it, and the protocol that keeps its tests on candles nobody has looked at.

## 1. The system

| Component | State it keeps | Operations | Meets |
|---|---|---|---|
| Testnet cycle `execution/live_runner.py` | nothing of its own; a cycle's memory | seed the books, reconcile, form a signal, gate, record, submit, book, save | everything below |
| Startup reconciliation `execution/startup_reconciliation.py`, `reconciliation.py` | none | query each unresolved order, apply what it learns, compare balances | store, adapter, journal |
| Order outcome `execution/order_outcome.py`, `fees.py`, `portfolio/state.py` | `PortfolioState`, applied columns of a row | compute an application, buy and sell transitions, commission buckets | store |
| Execution store `persistence/execution_store.py` | `portfolio_state`, `pending_orders` | `create_pending`, `save_portfolio`, `apply_order_result_atomically` | runner, reconciliation |
| Risk state store `persistence/risk_state_store.py` | one row: day, counters, cooldown, peak equity | load, save | runner |
| Risk engine, kill switch `risk/` | a flag file | gates for every order and for BUYs | runner, backtest, shadow |
| Journal `journal/` | event rows | record, duplicate query | runner, backtest, shadow |
| Testnet adapter `execution/testnet_adapter.py` | clock offset | signed GET and POST | exchange |
| Sizing and filters `sizing/`, `execution/order_validator.py` | none | quantity, lot and notional filters | runner, backtest |
| Shadow engine `shadow/engine.py`, `store.py`, `lock.py`, `bootstrap.py` | trades, equity, journal, run state, lock file | bootstrap once, one cycle per candle | candles, backtest engine, outbox |
| Notifications `shadow/notifications/` | outbox rows, last daily summary | enqueue, flush, manual retry | Telegram |
| Backtest engine `backtest/engine.py` | position, equity, day, cooldown, peak, pending signal | roll over, fill the pending signal, protect, mark, signal | sizing, risk gates, reward-to-risk policy |
| Reward-to-risk policy `backtest/risk_reward.py` | none | plan an entry, plan its stop and target again after the fill | backtest engine |
| Metrics `metrics/` | none | figures of a finished run | backtest engine, reports |
| Market data `data/` | candles, gap manifest, audit checkpoint | fetch, validate, detect, audit and recover gaps | exchange, every reader of candles |
| Research `research/` | one frozen record per candidate | evaluate in windows, score, freeze, check before the next test | candles, backtest, the code on disk |
| Strategies, reports, config, CLI | none or derived | pure | all |

How they meet: a person or a scheduler starts a process; the process runs one
cycle and exits, so nothing is shared in memory between cycles and everything
that survives is on disk or at the exchange. Calls are synchronous. Three parties
act on their own: the exchange (fills, closes, delays, completes its history), the
owner (kill switch, `notification-retry`, the gap and research commands, edits of
the code) and whatever kills a process.

Hard behaviours, and what has to be true of them:

* an order is recorded before it is sent, so that no crash leaves an order
  nobody knows of (`NoUnrecordedOrder`);
* an order whose answer was lost is asked about, not sent blindly; nothing is
  sold twice (`NeverOversold`);
* cumulative reports are applied as differences, once, however they were cut,
  repeated or reordered (`BooksFollowAccount`, `BalancesFollowRow`,
  `BooksEveryFillOnce`);
* a row is closed only when nothing of its order is left to book
  (`ResolvedFullyBooked`), stays closed (`RowsOnlyAdvance`), and is closed
  eventually (`SubmittedIsResolved`);
* cost, profit and the "estimated commission" flag survive partial exits
  (`BookValueConserved`, `EstimateFlagged`);
* a commission that had to be estimated leaves the books richer than the account by
  no more than what the exchange charged above the configured rate
  (`QuoteNotOverstated`), and a sell starts only from books that equal the
  account (`SellOnlyFromTrustedBooks`);
* the journal says only what is committed (`JournalTruthful`);
* the shadow record is that of one run, each hour in it once, whatever crashed,
  overlapped or came late (`RowsFollowOneRun`), with enough history behind every
  hour (`ScoredWithHistory`), complete where there are no gaps
  (`EveryHourScored`, `EntryAccounted`) and announced (`EveryTradeAnnounced`);
* a notification is attempted (`PendingIsSettled`), repeated by a flush only after a
  failure or a failed connection, and once for each (`RepeatsNeedFailures`,
  `AmbiguousNotResent`, `SettledStays`),
  never claimed delivered when it is not (`SentIsDelivered`), and the daily
  summary survives its two commits (`SummaryNotLost`);
* an audit of gaps says of an hour only what is true of the exchange, however its
  requests failed (`VerdictsSound`), and exactly that when none did
  (`QuietAuditExact`); every row is answered for its own hours, not those of an
  older gap (`EveryRowAnswered`); only complete hours are rebuilt
  (`RebuiltIsComplete`), and storing them leaves exactly the rows of what is still
  missing (`UndisturbedRecoveryExact`);
* a simulated run accounts for every unit of money (`BooksBalance`), buys only
  what it can pay (`PlansAreAffordable`), obeys its own limits in the order the
  code checks them (`DrawdownLatches`, `CooldownRespected`, `EntriesWithinDay`),
  and loses no more at a stop than was planned (`LossesPlanned`);
* what is reported of a run is true of it, although each figure is computed in a
  pass of its own (`ReportReconciles`);
* the windows research trades lie before the cutoff, overlap nowhere and leave
  nothing out (`WindowsSound`); candidates that are compared trade the same dates
  (`DatesIdentical`); and a frozen candidate is tested only on candles that its
  freezing never saw (`TestsAreUntouched`).

`PROJECT.json` lists every component with its status and every hazard at its
line, with the properties that would notice it.

## 2. The modules

| Module | Models | How it corresponds to the code |
|---|---|---|
| `OrderApplication` | `compute_order_application`, commission buckets, `apply_buy`, `apply_sell`, `apply_partial_fill_increase` | pure operators; `Accepted` is "does not raise", `NewPortfolio` and `NewRow` are the two results |
| `OrderObservation` | one order of either side, filled at several prices and observed in any order | `Observe` is the transaction of `apply_order_result_atomically` on any answer the exchange ever gave |
| `TestnetCycle` | `run_testnet_cycle` with reconciliation, stores, journal, risk state, kill switch and the exchange | one action per stretch of code between two commits, calls or journal writes; `pc` names the place |
| `FillLedger` | what the store promises: each execution booked once, orders closed only when booked | abstract specification; `TestnetCycle!Ledger` maps `exch.total`, `rows.exec`, resolved rows and the base balance to it |
| `ShadowCycle` | `shadow-bootstrap` and `shadow-run`: candle store, recomputed run, mark, recorded rows, lock | one action per commit; the run is the function `Held` of the hours and the filters |
| `NotificationOutbox` | the outbox, its flush, the daily summary, `notification-retry`, the notification switch | one action per commit or post; `reached` is what Telegram delivered, `sends` counts the posts of the flushes, `backoffs` the failed connections they post again after |
| `CandleHistory` | `fetch-data`, `research-gap-audit` and `research-gap-recover` over the candle store, the gap manifest and the checkpoint file | one action per transaction, per audited gap and per read; `run[r]` is the memory of a command |
| `EntrySizing` | sizing, exchange filters, order validation, the simulated fills, the BUY gates and the reward-to-risk policy | pure operators; one per function or check, in the order of the code |
| `BacktestSegment` | `run_segment` with both sizing policies | `phase` is the place in the body of the loop: `NextCandle`, then a pending signal is resolved, then protection, then `Mark` |
| `BacktestReport` | `compute_performance_report`, `compute_extended_diagnostics` and the split labels of `run_backtest` | operators over the final state of a run, and the properties that relate them |
| `ResearchWindows` | segments, equal blocks, blocks of fixed duration, shared schedule, holdout windows | pure operators on sets of candles |
| `Scorecard` | `score_candidate` | pure operators on the outcomes of blocks |
| `ResearchProtocol` | the three research commands with freezing and the checks before a next test, beside fetches and edits | one action per evaluation, clock reading and file write; `command` is the memory of the process |
| `MC*` | model values of the runs | |
| `TestnetCycleProofs` | theorems about `TestnetCycle` | |
| `OrderObservationProofs` | theorems about `OrderObservation` and the operators of `OrderApplication` | |
| `ShadowCycleProofs` | theorems about `ShadowCycle` | |
| `NotificationOutboxProofs` | theorems about `NotificationOutbox` | |
| `CandleHistoryProofs` | theorems about `CandleHistory` | |
| `BacktestSegmentProofs` | theorems about `BacktestSegment`, `EntrySizing` and `BacktestReport` | |
| `ResearchProofs` | theorems about `ResearchProtocol` and `ResearchWindows` | |
| `Induction` | induction over naturals, along an interval and over the subsets of a finite set, stated of sets instead of predicates, and with it sums over finite sets, their maxima, and the existence of functions defined by recursion, for the proofs about data of any length | |

The testnet cycle's path through the code, with the action for each stretch:

1. `BeginCycle`: server time, candles and filters are fetched; a failure here
   returns or raises before any state is touched and is not an action.
2. `SeedPortfolio` or `RefuseColdStart`: first run only.
3. `QueryPending`, `SettlePending`, `JournalSettled` per unresolved order, oldest
   first; `BlockOnUnknown` ends the cycle on a failed query or on a status
   without a name; `NoPendingLeft` goes on.
4. `CheckBalances`: `reconcile_balances` and the rollover of the risk state.
5. `NoOrderThisCycle` (HOLD, a suppressed BUY, a rejected EXIT) or `ApproveExit`.
6. `CreatePending`, `JournalSubmitted`, then the POST: `PostAnswered`,
   `PostUnanswered` or `PostFails`; after no answer `QuerySubmitted`,
   `QueryNotFound` (one retry under the same id) or `QueryUnknown`.
7. `BookOrder`, `JournalBooked`, `SaveRisk`.

`Crash` can follow any of them: memory is lost, disk and exchange stay. It also
stands for an exception that leaves the cycle, such as a report the store
refuses.

Abstractions. Quantities are lots and money is whole quote units. A portfolio
keeps entry cost and entry commission as one number, because the code allocates
both by the same ratio. A client order id is the candle of its signal. The
strategy is a free choice between EXIT and anything else. The `1e-7` balance
tolerance is equality. A query's answer is the exchange's present record; older
answers are in `OrderObservation`. What the exchange charges and what the program
takes it for are two numbers: each execution is charged at any rate of `FeeDens`
(external), while an estimate is the notional times the configured `taker_fee_pct`
(`execution/fees.py:66`), here a part `1 / FeeDen`. `acct.above` adds up by how much
the real commissions exceeded that; no action reads it. The order status EXPIRED stands for CANCELED
and REJECTED too, which the program treats alike; `OddStatus` holds statuses the
code has no name for.

The shadow cycle goes `BeginCycle` (lock and bootstrap verified), `StoreCandles`,
`ReadState`, then `SkipCycle` or `RecordCycle`, then `Deliver`. `StoreCandles` and
`RecordCycle` are separate commits, as in the code; `ReadState` reads candles and
mark, which only the lock keeps current until the record. Several processes may
be in a cycle as far as the module goes: that just one is, is the work of
`LockFree`. What the backtest engine does with an hour is reduced to what the
record tells apart: a candle may be missing, and an hour may enter a position,
leave one, or enter and be stopped within itself. Signals, prices and risk gates
of an hour depend on the hours before it only, so an hour's `market` value stands
for all of them; "small" is an entry that passes only the looser of two exchange
filters. An hour past a gap is never re-fetched, so an hour belongs to one
segment for good. Trades carry their two hours, which is what their keys and
events are made of. Exceptions swallowed while an event's text is built are left
out, and would lose that event.

A flush in `NotificationOutbox` lists the pending events (`ListPending`), then
sends and marks them in any order (the code's order is by creation time, which
does not matter to any property). One `send_message` posts up to `MaxPosts` times
(`max_safe_retries`, three in the code): `SendNext` is its first post and `SendAgain`
each later one, after a ConnectionError (`telegram_client.py:106`), with the place
"backoff" in between, where a crash or a broken flush may strike as anywhere else.
`RetrySend` is the same loop of the owner's command. A post is delivered or not,
freely, and the client's verdict depends on the answer, so `Outcomes` allows every
reply but SENT in either case: a connection that fails may have been refused, or
reset after the request was transmitted. `FlushBreaksOff` is the `except` of the flush, `Crash` the
end of the process or the `except` of the daily summary. The owner runs one
`notification-retry` at a time.

A gap command in `CandleHistory` is `Start` (manifest and checkpoint are read,
the checkpoint perhaps cleared), then per row `AnalyzeGap`, which ends with the
write of the checkpoint, or `ReuseCached`, then `ReadExisting` and
`StoreRecovered`: the code reads all candles and writes in a transaction of its
own, so anything may come in between. `Leave` is an interruption, a crash, the
audit command, or a recovery without `--confirm` or without anything to store.
The memory of a command holds the whole file as it was at its start and is
written back whole, so one of two commands may undo the other's entries. What a
fetch of minutes can see before it breaks off is `BreakingPoints`: its start, or
the place after a full page. Every failure looks the same to what follows, so
exhausted retries and an exhausted time budget are one case. `CrossChecks` are
the hours whose native kline is obtained; only for `OddHours` does that change
the verdict. One-minute klines at the exchange do not change, but hourly ones may
be added later (`Backfill`, external); an hour it serves has all its minutes.
`fetch-data` with `--limit` is the fetch of a range that ends with the last hour.
Two commands write their checkpoint through one temporary file; the write is
taken to be atomic. Hours from the cutoff on have all their minutes, since
nothing reads them.

`BacktestSegment` EXTENDS `EntrySizing`, `BacktestReport` EXTENDS both, and
`ResearchProtocol` composes `ResearchWindows` and `Scorecard`. The backtest is
exact where the code computes with 28 digits: prices count ticks, quantities lot
steps, rates parts of `D`, and every value is kept at the power of `1/D` at which
no product rounds, so that the only roundings are those the code performs (the
quantity down to the lot, the target up to the tick). The market is any sequence
of `Shapes`, which need not join, so gaps through a stop are among them. The
strategy may signal whatever its position allows; that covers every candidate of
the registry. A day starts with candle 1 and every `BarsPerDay` candles, which is
the code's UTC date for a segment that begins at midnight. What the engine
collects for display (distances, average exposure) and its journal entries are
left out. Where `apply_buy` raises, the run is `aborted`: the code has no handler.

In `ResearchProtocol` what a block's simulation comes to is any of `Results`; the
backtest modules say what it can be. `code` holds a version per part: `Covered`
parts are hashed into a fingerprint, `Uncovered` ones decide results and are not.
Configuration, registry entry and exchange filters have fingerprints of their own
and are parts of `Covered`. `EvaluateOnSchedule` takes any series, since nothing
in the function ties the schedule to the series it was built from. The clock may be
behind by `ClockLag`. `validate_future_paper_test` is called by no command, only
by tests; `Accepted` is the check a next test has to make by
`research/freeze.py`'s own account.

Operators marked `Fault:` are faulty variants of the definition next to them (a
dropped guard, a forgotten column, a swapped order). They are not part of any
specification. Each is substituted once for the original, and TLC then refutes
the property listed with it under `mutants`, so every property is known to be
able to fail.

## 3. The runs

| Run | Question | Result |
|---|---|---|
| `order_observation` | are balances, cost and profit exact however an execution is cut and observed? | holds |
| `testnet_core` | do books, rows, journal and exchange stay consistent through crashes and lost messages, with odd lots, commissions in another asset or above the configured rate and unknown statuses, and implement `FillLedger`? | holds, 514,156 states |
| `testnet_late` | with requests that arrive after they were given up on: is more sold than asked, and is every order resolved eventually? | holds |
| `shadow_cycle` | with two processes, crashes, late cycles and gaps: is the record that of one run, with history behind every hour and both events of every trade? | holds |
| `shadow_steady` | without gaps: is every hour scored eventually, and every announced entry kept? | holds |
| `outbox` | with crashes, broken flushes and failing connections over two dates: what is repeated, lost or sent again, and is every event settled? | holds, 1,529,106 states |
| `outbox_retry` | with three posts per message and the owner's retries beside the cycle: is SENT true? | holds, 1,651,326 states |
| `candle_history` | with fetches beside two gap commands, failing requests and interrupted audits: are verdicts true, rebuilt hours complete, and is no missing hour hidden by a recovery? | holds |
| `gap_forgotten` | does the manifest keep every confirmed gap until it is filled? | refuted |
| `backtest_segment` | over every series of five candles and every sequence of signals, under both policies: do the books balance, do the limits hold, are losses those planned, and is the report true? | holds, 214,414 states |
| `research_protocol` | over gappy stores, fetches, edits and killed commands: are windows proper, compared dates identical and next tests untouched? | holds, 355,650 states |
| `freeze_drift` | do the fingerprints cover everything that decides a frozen candidate's results? | refuted |

Bounds. `MaxCandle = 2` gives two signals, hence two client order ids: enough for
one order to be unresolved while the next candle comes, for a rerun on the same
candle, and for a row of an earlier order to be disturbed. More orders add no
new interplay, since a new one starts only when no earlier one is unresolved;
the theorems remove the bound for the invariants they cover. In `testnet_core`
`MaxLots` is 5 with a step and a minimum of two: a sell executes in two parts, and
an odd lot is left as dust, before the first run or after a sell. Commissions are
taken in the quote asset or in another one, where the estimate is wrong; one in
the base asset makes the books differ until a person corrects them, and is left to
`order_observation`. `FeeDens = {5, 10}` has the exchange charge the configured tenth
or twice as much, execution by execution; a lower rate only makes an estimate too
cautious. With the higher one books that claim more quote than the account has are
reached, so the `acct.above` of `QuoteNotOverstated` is needed. `EXPIRED_IN_MATCH` is the unknown status. `testnet_late` has
two lots and a step of one. A single price in the testnet runs suffices because
prices only enter cost and profit, which `order_observation` checks with two
prices. `UnitCost = 12` against a price of 10 makes every sell a loss, so the
cooldown is started. `MaxApiErrors = 2` lets the limit be reached; `errors` cannot
grow past it because no request is made then. `Cooldown = 1` and `CandlesPerDay =
2` give a day rollover at candle 2 and a cooldown to run down. Commissions are
rounded down, and not zero. `order_observation` uses 3 lots,
so that three partial executions fit, and turns deadlock checking off because an
order that is observed and ended has no step left. `backtest_segment` turns it off
because a run ends, and the research runs because time and edits are bounded and
the owner need not start another command. In all others the next cycle can always
start, and deadlock is checked. `testnet_late` keeps the limit at one error and has
no cooldown, because it also checks liveness over its states.

`shadow_cycle`: with `Settle = 1` and `Required = 2`, five hours hold a scored
segment with a trade, a gap, and a later segment that has to gather its history
before it is scored; `PageSize = 3` lets a late cycle fetch less than all there
is. Two processes are enough to overlap; the lock admits one, and the mutant that
ignores it is caught. `shadow_steady` has no missing candle and no entry that a
filter decides: with either, `EntryAccounted` is false, for the reasons that
section 4 gives. A store with the position of an
earlier segment is reached in `shadow_cycle`, whose `RowsFollowOneRun` speaks of
the newest scored segment only. `outbox` uses one trade event
and two dates, hence three events, two failures and two posts per message: one event
can be posted six times, or the summaries of both dates be interrupted. `outbox_retry`
uses one date and one failure, since the owner's steps multiply the states, and the
three posts of the code; `RepeatsNeedFailures`, checked in `outbox`, is a theorem for
any number of posts and with the owner's retries.

`candle_history`: five hours of two minutes. A gap of three hours with the cutoff
inside it is possible, and so are two gaps at once and a gap that shrinks from
either end; with pages of three minutes a page ends inside an hour. Two commands
overlap in every way, or follow each other over one checkpoint. One failure, at
the hourly fetch or in an audit, is enough for each of the wrong verdicts the
mutants give; two would only let both commands have one. Hours 0, 3 and 4 are
served from the start, which bounds the initial states. `gap_forgotten` needs no
failure and leaves hour 3 out of what is served, so that a gap has three hours.

`backtest_segment`: five candles of four shapes (quiet, through the stop, to the
target, a gap down that recovers) hold an entry, its exit for each of the three
reasons, a loss with its cooldown and a second entry, and a gap through the stop.
With four candles per day the last falls on a second day, which a position or a
cooldown can span. The limits are set so that the gates with a memory (drawdown, the
day's loss, the day's trades, cooldown) each refuse in some run; those on balance
and position size only look at the moment and refuse in none. Rates are
twentieths; with the lot and the tick of this size every rounding matters.
`WindowSize = 1` gives the two trades of a run a rolling window each. TLC's integers allow no finer
rates; the theorems hold for all of them.

`research_protocol`: three stores of nine candles, with one candle missing at
different places, before a cutoff at 10: a gap with a block on each side, one whose
second segment is too short for a block, and one that cuts off the last block of
the others' schedule. Two candidates of different warm-up make the anchor differ
from one of them. Time 11 leaves room for candles from the cutoff on. Two edits
allow a code to change and change back. A clock one interval behind is behind the
last candle. Equal blocks and the verdicts are checked on the block results of
`BlockResults`, which reach all three verdicts.

Fairness in `testnet_late`. `WF(Cycle)`: the scheduler keeps
invoking the command and a running process keeps running. `SF(QueryPending)` and
`SF(SettlePending)`: `GET /api/v3/order` does not fail every time it is tried,
and crashes do not strike every time at the transaction that applies its answer;
weak fairness would not do, as each crash disables the step. `WF` per order on
fill or close: a MARKET order ends at the exchange. No fairness is assumed of
crashes, the owner, or late requests. The run takes no unknown status: with one,
the code blocks until a person acts, and the property is false by design.

Fairness in `shadow_steady`. `WF` on the ticks, the bootstrap and the cycle: time
passes and the scheduler keeps invoking `shadow-run`. `SF` on `StoreCandles`,
`ReadState` and `RecordCycle`: crashes and failing requests do not strike at the
same step every time. In `outbox` `WF(Cycle)` suffices, because crashes and
broken flushes are bounded by `MaxFailures`: without a bound a flush may break
off for ever, and nothing in the code prevents it. `PendingIsSettled` asks only
of behaviours in which notifications stay enabled from some time on, as a
disabled flush attempts nothing by design.

## 4. What the refuted claims show

Each is a disagreement between a document or comment and the code; the quotes
are under `findings`.

* A fetch of a shorter range replaces the row of a longer gap with the same first
  hour. What is still missing past the new end is in no row, and no audit looks
  at it again until a fetch covers it.

* The reward-to-risk policy decides size, stop and target of every research
  candidate, and its module is not among those a fingerprint covers
  (`research/fingerprint.py:63`): edited after a freeze, it changes what the frozen
  candidate does without a conflict.

Read in the code while modelling, without a run of their own:

* A cycle that dies after its order was sent never counts the trade: the next
  cycle books it in startup reconciliation without touching `trades_today`
  (`execution/startup_reconciliation.py:77`).
* `-2013` closes a row for good though the request may still be on its way
  (`execution/startup_reconciliation.py:47`); its execution is then never booked,
  and balances differ until someone corrects them. An order that arrives late while
  the next one is in hand also makes its books wrong, so `SellOnlyFromTrustedBooks`
  and `ResolvedFullyBooked` are checked without late delivery only.
* Base below the minimum lot at the first run is left out of the books
  (`execution/live_runner.py:116`), and `reconcile_balances` counts it: such an
  account never passes the comparison.
* Nothing but a sent order resets `api_errors`, and at the limit no order is sent
  (`risk/engine.py:70`): a person has to end it. The same is true of an unresolved
  order whose status has no name (`execution/reconciliation.py:46`).
* `cooldown_bars_remaining` is decremented once per invocation
  (`execution/live_runner.py:201`); `src/RISK_POLICY.md:27` says completed candles.
* An hour that a shadow cycle stored and died before recording is never scored
  when a gap follows before the next cycle, since only the newest segment is run
  and the mark moves to its end (`shadow/engine.py:421`, `:482`);
  `shadow/store.py:13` says such a crash "is always safe to retry". The same holds
  of an open position: its entry was announced and no exit ever is.
* A gap whose audit ran out of time or retries is checkpointed like any other
  (`data/gap_recovery.py:897`), so the hours whose detail says "re-run to resume"
  (`:795`) are taken from the file by the next run; only `--reset-checkpoint`
  asks for them again.
* An hour cut by a page after which the fetch broke off is reported
  PARTIALLY_RECOVERABLE although the exchange may have all its minutes
  (`data/gap_recovery.py:784`). `VerdictsSound` therefore says nothing of "partial",
  and `QuietAuditExact` speaks of runs without failures.
* `fetch-data` never deletes a row, so rows of gaps it has filled stay
  (`data/storage.py:98` says it need not). Through such a row a recovery rebuilds
  an hour that is stored already, and overwrites the exchange's own candle.
* `UndisturbedRecoveryExact` excludes a write between the recovery's read
  (`data/gap_recovery.py:991`) and its transaction; without the exclusion it is
  false.
* The kill switch is read once, while the risk context is built
  (`execution/live_runner.py:267`); `src/RISK_POLICY.md:14` says that engaging it
  halts all order submission.
* A sell refused for a base-asset commission (`portfolio/state.py:201`) is booked
  one cycle later by a query whose answer lists no commission, with an estimate;
  `src/RISK_POLICY.md:254` says rejected rather than guessed at.
* The shadow run is recomputed with the exchange filters of the day
  (`shadow/engine.py:447`), so it is not a function of candles and strategy alone.
  `RowsFollowOneRun` fails when `FilterChanges` and `"small"` are allowed together.
* `notification-retry` accepts a pending event without a lock
  (`shadow/notifications/sender.py:134`) and can turn it ambiguous while a flush
  holds it in its list; `AmbiguousNotResent` fails when `Retries` is TRUE.
* A `ConnectionError` is taken for a request that "never reached the wire"
  (`shadow/notifications/telegram_client.py:116`; `src/ARCHITECTURE.md:661` says so
  too), and the message is posted again. `requests` raises it also when a connection
  is reset or aborted after the request was transmitted, so one `send_message` may
  deliver a message up to three times, and then record it as FAILED. A read timeout,
  the other way of not knowing, is never retried. `RepeatsNeedFailures` counts each
  such post in `backoffs`.
* FAILED covers answers that do not rule out a delivery
  (`shadow/notifications/telegram_client.py:134`), so a retry of a FAILED event may
  repeat a message, although its docstring says it is known not delivered.
* The baseline quantity reserves neither slippage nor fee
  (`sizing/position_sizer.py:121`): with `max_position_pct` near one `apply_buy` raises
  out of the run. `AbortBuy` is that step, and `PlansAreAffordable` says that the
  reward-to-risk policy never takes it.
* The check of a reward-to-risk plan after its fill is called "a real,
  always-checked fail-closed safety net" (`backtest/risk_reward.py:419`), but repeats
  on the same numbers what was checked before it: `SignalsAccounted` includes that
  it never refuses.
* `metrics/extended_report.py:206` says that no EXIT signal occurred where one was
  rejected or is still pending, and `:233` that the drawdown gate "remained
  continuously latched" also where a cooldown or a day's limit refused the last entry.
* The report of a validation split without a candle fails its own accounting
  identity (`backtest/engine.py:565`), as it takes the snapshot of an earlier one;
  `SplitsReconcile` speaks of splits with candles.
* The source that is fingerprinted is read from disk when a survivor is frozen
  (`research/fingerprint.py:101`), not when it is evaluated. `TestsAreUntouched` is
  false when `EditsDuringRun` is TRUE.
* A record is overwritten whenever the compared fingerprints agree, its freeze
  boundary and its result included (`research/freeze.py:35`, `:95`), so a second
  `research-backtest` moves the boundary of a candidate that was frozen before;
  `TestsAreUntouched` survives that because the new boundary covers all that the
  later run has read.
* A record torn by a crash (`research/freeze.py:239`) can neither be read nor
  overwritten by a later freeze, and the conflict of one candidate ends the loop
  before the survivors after it are frozen (`cli/main.py:862`).
* A schedule applied to a series with fewer segments ends in an IndexError rather
  than in the error written for it (`research/fixed_duration_evaluation.py:592`). It
  is as closed a failure; `DatesIdentical` does not tell them apart.

## 5. The theorems

`TestnetCycleProofs` proves, for every value of the constants allowed by
`ConstantsAssumption`, `FeeDenAssumption` and `OddStatusAssumption`:

| Theorem | Statement | Argument |
|---|---|---|
| `TypeCorrect` | `Spec => []TypeOK` | inductive as it stands, given lemmas that `NewPortfolio` and `NewRow` keep their types |
| `OrdersAreRecorded` | `Spec => []NoUnrecordedOrder` | `RecordedInv` adds that the order in hand has a row from `announce` on: without it the POST could precede the row; no step removes a row |
| `ClosedRowsAreBooked` | `~LateDelivery => (Spec => []ResolvedFullyBooked)` | `ResolvedInv` adds, per order, how row and exchange relate before the row exists, while it is open and once it is closed; that one row at most is unresolved and none is when an order is approved; that an order about to be sent is unknown to the exchange, so it is accepted once; and that the answer in hand never claims more than the exchange has, and all of it when it is terminal. The last is what lets a row be closed by an answer fetched earlier |
| `BooksAreExact` | `~LateDelivery /\ "base" \notin FeeAssets => (Spec => []BooksFollowAccount)` | `BooksInv` adds to `ResolvedInv` that nothing is unresolved before the books are seeded, and that the difference of books and account is the unbooked part of each unresolved order, of which there is at most one |

The assumptions are needed: with late delivery an order may execute after its row
was closed (section 4), and a base commission takes base from the account which
the books only learn of from the exchange's direct answer.

Three more conclusions rest on `ResolvedInv`, all without late delivery and for
commissions in any asset:

| Theorem | Statement | Argument |
|---|---|---|
| `RowsAlwaysAdvance` | `~LateDelivery => (Spec => RowsOnlyAdvance)` | `RowsStep`: a step creates a row that does not exist, applies an answer to an unresolved one, or leaves all alone; an accepted answer reports no less than is applied |
| `SellsFromTrustedBooks` | `~LateDelivery => (Spec => []SellOnlyFromTrustedBooks)` | `TrustInv` adds that books and account are equal from the comparison to the first request: the exchange moves the account only under an open order, and there is none in between |
| `StoreImplementsLedger` | `~LateDelivery => (Spec => BooksEveryFillOnce)` | refinement of `FillLedger`: a request or an open order is `Execute` of the one unresolved order or a stutter (`LedgerExecutes`), an applied answer is `Book` of what is new in it, and closes only when nothing is left (`LedgerBooks`). `LedgerInv` adds that nothing is held before the store is seeded, so seeding stutters |

And three that need invariants of their own:

| Theorem | Statement | Argument |
|---|---|---|
| `NothingOversold` | `Spec => []NeverOversold` | no assumption at all, late delivery included. `LotsInv`: an order asks for every whole step the account holds, and what it executes comes off the account, so balance and the rest of the order stay within one step of each other. Once a part has executed, a second arrival under the same id cannot be funded |
| `JournalAlwaysTruthful` | `~LateDelivery => (Spec => []JournalTruthful)` | `JournalInv` adds to `ResolvedInv` that the exchange's statuses and the answer in hand mean what they say (`MeantInv`, `AnswerMeant`), and that between commit and journal the row bears out the status about to be written (`BornOut`). A closed row stays and an open one only executes further, so what was born out still is (`StillBornOut`) |
| `QuoteNeverOverstated` | `~LateDelivery => (Spec => []QuoteNotOverstated)` | the exchange may charge any rate, which nothing ties to the configured one. `QuoteInv` counts how far the account, with `acct.above`, is ahead of the books: by at least what the unresolved order was paid and the books have not, less one commission on it, and while an answer is in hand by what it adds and what executes after it. `FloorSum` is the arithmetic: commissions rounded down part by part never exceed one rounded down over the sum, so an estimate at a rate no lower than the real one never claims too much, and `Excess` is the rest of it |

`OrderObservationProofs` proves, under the assumptions of `OrderApplication` and
`OrderObservation`, for an order of either side and any quantity, price, commission
and sequence of observations:

| Theorem | Statement | Argument |
|---|---|---|
| `ObservationTyped` | `Spec => []TypeOK` | from `BooksInv`, the conjunction |
| `BalancesAlwaysFollowRow` | `Spec => []BalancesFollowRow` | `BooksInv` adds the types and `PositionInv`, that a position is held exactly while its base is positive, so the branch of the code that is taken fits the balance. `BuyEffect`, `SellEffect` and `RowEffect` say what the operators add to balances and row: the same |
| `BookValueAlwaysConserved` | `Spec => []BookValueConserved` | `WholeShare`: the share of the cost that a full exit allocates is all of it; a partial one moves cost to profit as it allocates it |
| `EstimateAlwaysFlagged` | `Spec => []EstimateFlagged` | a consequence of `PositionInv` |

`ObservationAssumption` asks that a sell starts from a position (`Held > 0`): the
testnet cycle decides on an exit only while it holds one.

`ShadowCycleProofs` proves, under `ShadowAssumption`, for any number of processes and
hours and any market:

| Theorem | Statement | Argument |
|---|---|---|
| `ShadowTyped` | `Spec => []TypeOK` | `ShadowInv`: one process holds the lock, so what it read of candles and mark is still so when it decides, and nothing is recorded past the mark |
| `ScoredAlwaysWithHistory` | `Spec => []ScoredWithHistory` | from `ShadowInv`; candles come behind no newer one, so a segment once scored keeps its beginning (`FirstStays`) |
| `RowsAlwaysFollowOneRun` | `SteadyFilters => (Spec => []RowsFollowOneRun)` | `RowsInv` names the run: with the first filters, from the first hour scored of the mark's segment. `HeldDefined` shows by induction that the recursion over the hours defines a function; `HeldAgrees` and `TradesAgree` that it depends on no later hour, so a longer run extends what is recorded (`TradesExtend`); `SameOrLaterSegment` that a cycle continues the segment of the mark or begins past it |
| `EveryTradeAlwaysAnnounced` | `SteadyFilters => (Spec => []EveryTradeAnnounced)` | `HeldPastMark`: an entry behind the mark that a run past it still holds is the recorded position, which was announced with it |
| `EntryAlwaysAccounted` | `SteadyFilters /\ NoGaps => (Spec => []EntryAccounted)` | `HeldUntil`: a run holds a position until the hour that exits it, and without a gap it is always the same run |

`SteadyFilters` says that the filters do not change, or that no signal is one that a
change matters to. It and `NoGaps` are the conditions under which the statements are
true at all: section 4 says what happens without them.

`NotificationOutboxProofs` proves, under `OutboxAssumption`:

| Theorem | Statement | Argument |
|---|---|---|
| `SentMeansDelivered` | `Spec => []SentIsDelivered` | `DeliveryInv` adds that a verdict SENT still in memory, of the flush or of the owner's retry, is about a delivered event; nothing undoes a delivery, so either may write last |
| `SummaryIsKept` | `Spec => []SummaryNotLost` | `SummaryInv` adds that the summary whose date is about to be recorded is enqueued; no step takes an event out of the outbox |
| `AttemptedStaysAttempted` | `Spec => SettledStays` | `StepGrows`: a step either enqueues an event that is not, or writes a verdict |
| `NoAmbiguousResend` | `Retries = FALSE => (Spec => AmbiguousNotResent)` | `QueueInv`: while a flush runs, all it has listed is still pending. With retries it is false (section 4) |
| `RepeatsAlwaysNeedFailures` | `Spec => []RepeatsNeedFailures` | `RepeatInv` bounds the wasted posts, those that no recorded status accounts for: all of an event still to be sent, all but one of an event whose status is written or about to be. A failure wastes the post whose verdict is in hand, a connection that fails before the last attempt the one just made (`OneMoreWasted`), nothing else wastes any (`NoMoreWasted`), and the repeats map one to one into them |

`CandleHistoryProofs` proves, under `HistoryAssumption`:

| Theorem | Statement | Argument |
|---|---|---|
| `HistoryTypeCorrect` | `Spec => []TypeOK` | `TypeInv` is `TypeOK` with the shape of a command's record spelled out; the lemmas say that verdicts, rows and reports keep their types |
| `VerdictsAreSound` | `Spec => []VerdictsSound` | `SoundInv` adds that the memory of each command is sound too: it is what the command writes back, over whatever the file has become. `SeenEnough` is the arithmetic: an hour that begins before the place where a fetch stopped, and has minutes, shows some of them, because a fetch stops at its start or right after a minute it has read. `VerdictsTruthful` draws the conclusion for each branch of the classification |
| `RebuiltAreComplete` | `Spec => []RebuiltIsComplete` | from `HistoryInv`, the conjunction: what is stored comes from a report, which is sound |
| `RecoveryLeavesExactGaps` | `Spec => UndisturbedRecoveryExact` | what a recovery deletes is all there is, and what it adds is computed from what is stored after it |
| `QuietAuditsAreExact` | `Spec => []QuietAuditExact` | `QuietInv` adds that the memory of each command is as exact as the file, since a later command starts from one and writes back the other. `UnbrokenIsExact`: a fetch that was not broken off ends no earlier than any hour it classifies |
| `RowsAreAnswered` | `Spec => EveryRowAnswered` | `AnswerInv`: a command at rest has no rows left. `KeyIdentifies`: an entry of the checkpoint with the key of a row is about that very row, so the types give its hours |

`HistoryAssumption` allows any number of commands, any page size, any number of
minutes in an hour and any cutoff.

`BacktestSegmentProofs` proves, under the assumptions of `EntrySizing` and
`BacktestSegment` on rates, limits and shapes, for a segment of any length and any
lot, tick and price:

| Theorem | Statement | Argument |
|---|---|---|
| `RunIsTyped` | `Spec => []TypeOK` | `SegmentType`, with the shapes of position and trades; products of naturals need the lemmas at the head of the module |
| `BooksAlwaysBalance` | `Spec => []BooksBalance` | inductive with the types and `PendingFits`: an EXIT is pending only while a position is open. `Close` returns what the entry cost plus its profit; `LossPositive` and `StopOf` give the stop its sign |
| `ShutdownLatches` | `Spec => []DrawdownLatches` | `Latched`: after a shutdown the run is flat, so its equity is constant, and its peak is one at which the gate still refuses. The peak only grows, so it goes on refusing |
| `CooldownHolds` | `Spec => []CooldownRespected` | `Cooling`: while flat after a loss, the counter is at least what is left of the cooldown, counted from the exit |
| `PlansAlwaysAffordable` | `Spec => []PlansAreAffordable` | `QuotientFits`: a quotient times its divisor is no more than what was divided, here cash by the price with slippage and fee |
| `LossesAlwaysPlanned` | `Spec => []LossesPlanned` | `PlanInv`. `EntryPlanned`: what the open position loses at its stop is within the share of the equity it was sized for, and with a fixed policy its target is as far as the ratio asks; `WithinRisk` and `RiskBounds` draw it from the quotients the sizing takes least of, `LossNoHigher` from the stop of the fill being no lower than the one it was sized for. `RealizedKept`: that equity is still known when the position is closed, because what is realized is the sum of the trades. `PositionMonotone`: a position earns strictly less at a lower level, so losing more than planned and being sold below the stop are the same, which `GapsCounted` counts. `TradePlanned` is what a closed trade keeps of it |
| `EntriesAlwaysWithinDay` | `Spec => EntriesWithinDay` | `DayCounted`: the counters of the day are the number and the profit of that day's trades; a new day starts both from nothing, a close adds the same to each side |
| `ReportAlwaysReconciles` | `Spec => []ReportReconciles` | `ReportInv`, with `PlanInv`: what the run has kept says enough at every candle. `ToldInv`: each trade carries the fees and the profit that its two prices give, so that adding the costs back gives the gross of the breakdown (`CostsAddBack`). `CurveInv`: at each point of the curve the equity is the cash and the position at its mark, and what it has gained since the start is what the trades closed by then have realized and what the position open then had not (`Accounted`); a later exit keeps this because it closes after the point. `SignalInv`: signals, fills, refusals and blocks are counted together, and no plan is refused after its fill, because one approved at the unslipped price holds at the slipped one (`PlanSurvivesFill`). Once the run is done, `MoneyHolds`, `SplitsHold` and `SignalsHold` add up sums over the trades. `FiguresHold` first needs that the loops over curve and trades define functions at all (`RecursionDefined`), then follows them candle by candle: `WatchTells` says what the time-underwater loop knows, and `DipsFromPeak` that a drought still open began at the last peak |

`ResearchProofs` proves, under `WindowAssumption`, `ProtocolAssumption` and
`LongestWarmUp` (a registry is finite, so one candidate has the longest warm-up):

| Theorem | Statement | Argument |
|---|---|---|
| `DatesAlwaysIdentical` | `Spec => []DatesIdentical` | `TradedIsSchedule`: in a series on which every window is found completely and warmed up, the candles found are the window, and a segment's index names one segment only, because segments are finite in number and differ in their starts. `Scheduled` adds that no candidate is evaluated before the schedule exists |
| `TestsAlwaysUntouched` | `~EditsDuringRun => (Spec => []TestsAreUntouched)` | `BoundaryKept`: the boundary is no earlier than the end of the candles the command has read, whatever the clock says; `CodeKept`: the code on disk at the freeze is that of the running command; `FrozenKept`: so every record, torn or whole, carries both |
| `WindowsAlwaysSound` | `Spec => []WindowsSound` | `WindowsInv`: what a command has traded is the windows of the series it read. `WindowsAreProper` says of those, for any series, that they are inside their segments, apart, and warmed up; `FixedCover` and `EqualBlocks` are the arithmetic of blocks of fixed and of equal length, `SharesFit` that of the holdout. `PredictedIsCount`: the prediction of the audit, a sum over the segments, is the number of windows cut, by induction over the sets of segments |

Only model-checked are `SubmittedIsResolved`, `PendingIsSettled` and
`EveryHourScored`, which are liveness. Every invariant and every action property of
the passing runs is a theorem.

Liveness and ENABLED are out of the prover's reach, as are the library's induction
theorems, whose parameter is a predicate, and RECURSIVE operators. Where a proof
needs induction over data, as the recomputed run of the shadow engine does, it is
done over a set of numbers instead, and sums over a finite set by induction over its
subsets (`Induction`); recursion is written as a recursive function, whose existence
is a lemma where a proof evaluates it.

## 6. What is not modelled

* Of the testnet cycle: peak equity and daily realized loss, which only the BUY
  gates read, and testnet BUYs are suppressed; minimum notional and stale data,
  which are further ways to reach `NoOrderThisCycle`; trades the owner makes by
  hand; `max_qty`; the rounding of Decimal at its 28th digit; two invocations at
  once, which `src/SCHEDULING_DESIGN.md` excludes until there is a lock.
* Floating-point strategies and indicators, annualised ratios, calendar tables and
  the bootstrap, rendering, configuration parsing, HTTP, signing and hashing:
  outside what TLC can check, or without state.
* Of the backtest: `compute_buy_quantity`, which only tests call; a minimum
  quantity that is no multiple of the lot step; the statistics collected for
  display and the journal entries.
* Of the research: `post_mortem.py`, `sensitivity_comparison.py` and
  `round3_report.py`, which arrange the results of evaluations for display and decide
  nothing; the candidates' own signals.
* The testnet health check and the shadow report: sequences of reads with a text at
  the end, nothing of which is kept or acted on.
* Of the gap commands: the prices of a rebuilt candle and its provenance, minute
  klines that are not aligned to minutes, a checkpoint file damaged by hand, and
  the counts that the report prints.

## 7. Plan

Done, in order of what matters most: the testnet cycle with its stores, order
outcome and exchange; the shadow cycle and its notifications; the stored history;
the backtest with its policies and reports; the research windows, scorecard and
protocol.

What would come next:

1. The composition of `ShadowCycle` with `BacktestSegment`, so that the hours of a
   run are those the engine gives, and with filters that change.
2. Two testnet invocations at once, if the lock that `src/SCHEDULING_DESIGN.md`
   plans is written.
