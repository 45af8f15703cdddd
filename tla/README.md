# Verification of the memecoin trading system

TLA+ models of the trading bot under `src/app`, the TLC configurations that
check them, and TLAPS proofs of what matters most. The bot is one asyncio
process: a trading loop scans DexScreener, decides on buys, watches prices and
sells; a web dashboard pauses, resumes, closes positions and stops everything;
in live mode swaps go through Jupiter to Solana, in paper mode through an
in-memory simulator.

## 1. The system

### Components, state, operations

| Component (src/app/...) | State | Operations | What makes it correct |
|---|---|---|---|
| `risk/circuit_breaker.py` | state, four failure counters | `record_*`, `manual_pause`, `emergency`, `resume`, `record_success`, `can_trade` | a pause is lifted only by the operator; a breaker that allows trading has not used up a failure budget |
| `execution/orchestrator.py` | per-token locks, in-flight set, recent signals, id counter | `process_buy_signal`, `process_price_update`, `close_position_now`, `emergency_close_all` | one operation per token; a position is sold once and recorded once; limits hold across the awaits |
| `portfolio/positions.py` | open positions | `open_position`, `close_position`, `update_price` | every due exit is found; same content as the executor's book |
| `risk/exposure.py`, `portfolio/pnl.py` | capital per position and total; closed trades | `add/remove_position`; `record_trade`, daily summary, loss streak | totals are exact; one trade per position |
| `execution/transaction.py` | one record per swap | `create`, `transition` | the table of legal transitions |
| `execution/live.py`, `buy.py`, `sell.py`, `jupiter.py` | records, tracked balances | `execute_buy`, `execute_sell`, retries, broadcast, confirmation | bounded; a reported fill is confirmed; a record that is not signed was not sent |
| `execution/paper.py` | cash, positions, last prices | `update_market`, `buy`, `sell` | no money created; a sale at or below entry loses |
| `portfolio/balances.py` | cash, realized profit, position value | `record_buy`, `record_sell`, `update_position_value` | equals the simulator's cash |
| `workers/trading_loop.py` | prices, snapshots, watchlist | `_scan_cycle`, `_new_launch_cycle`, `_position_cycle`, `stop` | every position is eventually closed |
| `workers/reconciliation_worker.py` | last report | `reconcile` | reports real differences |
| `api/routes.py`, `api/state.py` | event log | pause, resume, close, emergency, status | commands take effect whatever the loop is doing |
| `risk/risk_engine.py`, `risk/position_sizing.py`, `risk/rug_detector.py` | none | `evaluate`, `calculate`, `analyze` | limits are respected at every boundary |
| `strategy/*`, `scanner/filters.py` | none | scoring, filters | what is ordered passes every filter and veto on the snapshot the order is based on |
| `api/security.py` | failures per client, sessions | login limiter, sessions, CSRF | a dead session never authenticates again; the limiter counts exactly |
| `main.py`, `workers/health_worker.py` | tasks, signal, HTTP clients | preflight, start, shutdown | a signal always ends the process; no client is closed under its user; a clean exit leaves nothing behind |
| `scanner/dex_screener.py` | HTTP client | list and batch requests with retries | a scan ends and hands the task back to the open positions |
| `backtest/`, `database/`, `blockchain/`, `monitoring/`, `config/` | | offline replay, CRUD, RPC, metrics, settings | not modelled, section 7 |

### How they interact

`AppRuntime` (main.py) builds one `TradingLoop`, which builds the orchestrator
with its breaker, position manager, exposure tracker, P&L calculator, executor
and balance tracker, and publishes them in `AppState`; the dashboard's request
handlers and the reconciliation worker call the same objects. There are no
threads: asyncio switches tasks only where one suspends. The orchestrator
suspends where it awaits its executor (`analyze`, `execute_buy`,
`execute_sell`). With the paper simulator those awaits never suspend; with the
live executor, or any other injected one, they do, and every other task may run
in between.

### What is hard

* Interleaving: the loop's exit and a dashboard close of the same token;
  a pause, an emergency stop or a resume while a buy is in the executor.
* State read before an await and used after it: the position being sold, the
  open-position count, the breaker.
* Partial failure: a sale that fails, a task cancelled at an await, a broadcast
  whose answer is lost, an except clause that itself raises.
* Several books of the same facts: simulator, position manager, exposure
  tracker, balance tracker and two price tables.
* Several filters with different bars, applied to different snapshots of the same
  token, and caps that meet roundings.
* Retries and time-outs: bounded attempts, a confirmation that comes too late.
* Liveness: exits are skipped while a token is busy, and they share their task
  with the scans, whose requests retry and whose batches may be many.
* Tables that look at the clock only when they are asked: failed logins, sessions.
* Shutdown: six awaits in a row, with everything not yet stopped still running
  and free to reopen a client; a time-out that leaves a sale behind.

`PROJECT.json` lists every hazard at its line with the properties that cover it.

## 2. Modules

| Module | Models |
|---|---|
| `CircuitBreaker` | the class as operators from breaker to breaker |
| `BreakerAlone` | the breaker driven by all its methods in any order |
| `Orchestrator` | the trading core: loop task, dashboard requests, locks, books, breaker |
| `MCOrchestrator` | definitions for TLC instances of the core |
| `TokenLifecycle` | abstract specification of the core: free, buying, held, selling |
| `Transaction` | swap states and the transition table |
| `Swap` | executor calls: Jupiter, broadcast, confirmation, chain, paper walk |
| `PaperTrading` | paper money: simulator, exits, balance tracker, reconciliation |
| `Scoring` | scorers, strategies, the loop's risk heuristic, as operators |
| `Screening` | token filters and rug detector, as operators |
| `RiskSizing` | risk engine and position sizer, as operators |
| `BuyPath` | one token from snapshot to order: both cycles, watchlist, vetoes, rejections |
| `MCBuyPath` | snapshots and books for TLC |
| `Sessions` | login limiter and session store of the dashboard, with a clock |
| `ControlPlane` | `BreakerAlone` composed with `Sessions`: dashboard actions on the breaker behind session and CSRF |
| `MCControlPlane` | symmetry for TLC |
| `Runtime` | the process: start-up, tasks, scanner requests, signals, shutdown |
| `Sums` | the sum over a set of keys that `Orchestrator` and `PaperTrading` use |
| `*_proofs` | the theorems about the module of that name; `Swap_proofs` also holds those about `Transaction`, `Orchestrator_proofs` the refinement, `ControlPlane_proofs` those about `BreakerAlone` and `Sessions`; `Sums_proofs` has the laws of sums |

### Orchestrator

A step is the code between two suspension points. `BeginBuy` is
`process_buy_signal` up to `analyze`; `DeclineBuy`, `BlockBuy` and `ExecuteBuy`
continue from there (no signal or zero size, breaker tripped meanwhile, order
sent); `BuyFails` and `BuyFills` are the executor's answers. `BeginSell` is
shared by `PriceUpdateExit` (the loop), `CloseRequest` and `EmergencyClose`
(dashboard); `SellFails` and `SellFills` finish it. `EmergencyRequest` trips the
breaker and freezes the list of tokens to visit, as the handler does with
`list(...)`. `StopLoop` cancels the loop task at whatever await it is in.
`WindowExpires` and `Midnight` are the clock. Handlers that return early without
a change are stuttering steps.

What decides a buy beyond the limits (market data, strategy, sizing) is a free
choice. `late_opens` is a history variable: positions opened since the breaker
left NORMAL. The code's failure counters grow without bound and are only compared
with their limits, so the modelled ones stop there: one value stands for the
limit and all above it. The breaker's type asks only for natural numbers, and no
property says that a counter ends at its limit.

`TokenLifecycle` says the same without locks, tasks, breaker and books; the
refinement mapping derives a token's phase from its position and the in-flight
set.

### Swap

`stage` names the await a call is suspended in: the quote that checks the price
impact, the quote and the transaction asked of Jupiter, the broadcast, the
confirmation polling. Transition calls between two awaits run as one step, with
the except clauses as the code has them: a refused transition raises, the record
becomes FAILED, the caller is told of a failure. `SendArrives` and
`ChainDecides` are the node and the ledger, external to the repository. `Cancel`
is a cancelled task, at any await. Amounts are left out. `buy.py` and `sell.py`
differ in the mints they pass and share the actions. The balance request that
follows a confirmed answer (live.py:215) is not a suspension point of the model,
since no live call gets there while CONFIRMED is refused.

### PaperTrading

The simulator never suspends, so each handler runs to its end once its data is
there; `phase` says which one has the event loop, `due` what it has still to
visit. Money is in cents, prices in ticks, quantities scaled by 1000, and
divisions round down where the code has floats; the formulas for slippage, fee,
quantity and proceeds are the code's. `feed` is `state.prices` (0 when a
snapshot has no price), `market` the simulator's own table, which keeps the last
positive price. `by_hand` is a history of dashboard sales. Which tokens are
tried and how much is staked is a free choice. The trailing stop is left out
because no caller configures one.

### BuyPath

The other side of the core's free choice: how a token gets from the feed to an
order. `Scan`, `ScanOthers` and `LaunchScan` are the two cycles, with the
watchlist and the memory of launches already seen; an attempt then runs through
the strategy (`Analyze`, `PassOver`), the rug detector (`RugCheck`), and
`process_buy_signal` (`Skip`, `BreakerRejects`, `RiskApproves`, `RiskRejects`,
`AlreadyOpen`, `Decline`, `PlaceOrder`). `stage` says how far it has come:
nothing there suspends, so no other handler comes in between. Whether the breaker
rejects, the window skips or the executor fails is free. The decisions themselves
are operators of `Scoring`, `Screening` and `RiskSizing`, with the code's
thresholds and with ratios cross-multiplied; the sizer's result is the set of the
whole cents within half a cent of the unrounded size. The pair's age in minutes
stands for `pair_created_at`, on a host in UTC, and does not grow while an
attempt lasts; the detector is on (`RUG_CHECK_ENABLED`). `turned` is a history
variable: turned away since a filter last let the token in.

### Sessions and ControlPlane

The clock counts whole steps. `failures` is the limiter's deque as a set; a
failure carries a number, since two may fall on one instant. `guesses` is a
history variable that never forgets a failed login before the next success, and
`LimiterIsExact` compares the two: lazy pruning loses nothing that still counts
and keeps nothing that does not. `sessions` holds the expiry of each token. A
CSRF token is named by the session it belongs to, so a request is a pair of
names. `ControlPlane` joins this with the breaker: `FromLoop` is any call the
trading side may make at any time, `Admit` is `require_auth_csrf`, and
`PauseRequest`, `ResumeRequest` and `EmergencyRequest` are conjunctions of
`Admit` with a method of the breaker. `request` is a history variable: what the
last step carried. Wrong passwords are the environment's choice. A login while
no password is configured, a request without a cookie and a query that finds
nothing are stutters.

### Runtime

`main` says at which await `run` is: preflight, first balance of live mode,
waiting for a signal, then the awaits of `shutdown` one after the other. The
tasks are the loop, the two workers and the web server, each of which ends only
where it awaits. `cancelled` is the set of tasks `cancel()` was called on. The
loop's task walks through the phases of its cycle; within the two scan phases
`fetch` is the scanner's request: the list, the batches, their attempts. `open`
is the set of HTTP clients; any user that waits for an answer and was not
cancelled may reopen one (`OpenClient`, the code's `_get_client`).
`handling` is a dashboard sale, which runs in a task of its own that neither
`shutdown` nor the server's cancellation reaches; `abandoned` remembers that the
server went away and left one behind. Back-offs and intervals have no length.

## 3. What is checked

Passing runs:

| Run | Question | Size |
|---|---|---|
| `core_books` | exclusion, books, accounting, limits, refinement, who re-enables trading; 3 tokens, loop and 2 requests, 3 positions | 207 thousand states, tokens and requests symmetric |
| `core_liveness` | operations end; positions are eventually closed; exposure total with two sizes, loss checks on | 52 thousand states; 2 tokens, 1 request, no symmetry |
| `control` | who lifts a pause, dead sessions, exact limiter, failure budgets; 2 login clients, 2 sessions | 1.1 million states, clients and sessions symmetric |
| `runtime` | shutdown ends, no client pulled away, clean exit, the loop comes back to its positions; every configuration | 208 thousand states |
| `swap` | records settle, unsigned means unsent, fills are confirmed, calls end; 3 retries, 30 polls as in the code | 42 thousand states |
| `buy_path` | liquidity, fraud signs and caps of what is ordered, size against score, rejected tokens; 423 snapshots, 9 books | 38 thousand states |
| `paper_money` | matching books, cash identity, drift, due exits, emergency, no profit at or below entry | 1.3 million states |

Violations, each a disagreement between the code and what the repository says
of it (`findings`):

| Run | What TLC finds |
|---|---|
| `emergency` | with a suspending executor an emergency stop ends with a position open: a buy in flight fills afterwards, or the sale fails |
| `loss_limits` | the daily-loss and loss-streak limits never trip the breaker, because the loop calls `process_price_update` without `portfolio_risk` |
| `swap_confirm` | a live swap seen on the chain is recorded FAILED: `CONFIRMED` is requested straight from `SUBMITTED` |
| `exposure_cap` | an order takes the positions above MAX_TOTAL_EXPOSURE_USD: the exposure is computed as value minus cash |
| `paper_cash` | after a dashboard close the balance tracker's cash is wrong for good, and reconciliation reports it |

Each property of a passing run has a mutant in its module, a plausible bug in
the code the definition models, that TLC finds with the same configuration.

### Bounds

* `MaxPositionIds` caps the positions of a behaviour at 3 (2 for liveness): a
  token can be bought, sold and bought again while another is open.
* `MaxOpenPositions` 2, with 3 tokens, so the limit is reached and pressed.
* Breaker limits in the core and in `control` are lowered to 2, 1, 1, 1 failures,
  so that one trip needs a repetition and the others do not; the theorems about
  the breaker hold for all limits.
* `control`: two clients and two sessions, so that one can interfere with the
  other; a limit of 2 failures in a window of 1 and a time to live of 2 in a clock
  that runs to 3, so that a block begins and drains, a second one follows, and a
  session is renewed, expires and is used again. `SYMMETRY` is sound since no
  property of that run is a liveness property.
* `runtime`: `MaxRetries` is the code's 3, `MaxBatches` 2 (a batch given up with
  another still to come); one dashboard sale at a time; all eight combinations of
  live mode, new-launch scanner and web UI. `--port` and the wallet key are free
  choices, as is every outcome of a request.
* Two dashboard requests, besides the loop, are enough for two tasks to race for
  a token the third is working on. One in the runs with larger data.
* Two executor calls, on equal or different tokens. `MaxRetries` and `MaxPolls`
  are the code's values.
* `PaperTrading`: no buy after `MaxTrades` fills; two tokens; a price below the
  stop loss, one above the take profit and none; liquidity zero and deep. The
  starting cash pays for two positions at once, and the third fill of a behaviour
  can still be a buy, after a sale. The
  percentages are the settings' defaults.
* `BuyPath`: one token, since tokens meet only in the books, which are free. A
  snapshot differs from a good one in at most two of 30 respects, each at or next
  to a threshold (liquidity, volumes, trades, price changes, capitalisation, age,
  price, name, venue); each check looks at one or two figures, so every check
  alone and every pair of checks is decided either way. The books are full,
  nearly empty, and at and next to each limit. Settings are the defaults; the
  violation raises the position size to 4 dollars so that two positions reach the
  exposure cap.
* `CHECK_DEADLOCK FALSE` only in `Swap`, where a behaviour stops when its calls
  have ended, and in `Runtime`, where it stops when the process has.

### Fairness

Safety runs assume none. `OperationsEnd` uses weak fairness of a task's
continuation: the event loop runs what can run, HTTP calls have time-outs and
polling stops after 60 s. `PositionsEventuallyClose` also assumes of the
environment that the feed keeps pricing an open token (its holding limit then
makes every later check an exit, so the loop's exit is tried again and again:
strong fairness, because dashboard requests may keep taking the token) and that
a token offered again and again is sold in the end. Without the latter the code
gives no guarantee: it retries a failing sale forever. `CallsEnd` uses weak
fairness per executor call; the chain owes nothing.

`Runtime` assumes weak fairness of `main`, the loop, its unwinding and the two
workers: asyncio runs every task that is ready, and each await in them is
bounded (HTTP time-outs, a sleep, the ten seconds given to the server). That a
position phase ends is what `CallsEnd` says of its executor calls. Nothing is
assumed of the dashboard, its requests, the server or the signals, so
`ShutdownEnds` holds with a sale that never ends. One await has no bound of its
own: the scanner sleeps a `Retry-After` of any length (section 5);
`LoopKeepsWatching` holds because it is finite, and says nothing about how long.

## 4. What is proved

For every number of tokens, requests, calls, sizes and limits, with TLAPS:

* **Core.** `CoreInvariant` proves `IInv` inductive. Mutual exclusion, the
  accounting and the limits are not inductive by themselves: the open-position
  limit is checked when a buy starts and the position appears two awaits later,
  so `IInv` carries that the running buy has room and its token no position;
  that only the loop buys; and that a dashboard task is idle or selling.
  Exclusion gives that only the holder of a token's lock changes its position
  (`OnlyHolderChangesPosition`), hence `ReadPositionIsCurrent`; hence the
  trade recorded is that of the position removed; hence each id is open or
  settled, once. The breaker theorems rest on `BreakerKinds`, which says for
  every step how it can move the breaker.
* **Totals and statistics.** `ExposureTotalCorrect`: the running total, which is
  only ever added to and taken from, is the capital of the open positions; a
  sale takes out what is filed under the id it looked up, and `BooksAgree` says
  that this is the position's capital. `StatisticsExact` says how a step moves
  the day's net and the loss streak: a trade once, by its own profit, and a
  break-even trade ends the streak. `LossChecksTrip`: the loss checks do trip the
  breaker when the loop passes `portfolio_risk`, so what `loss_limits` finds lies
  in the missing argument (and in the dashboard's sales, which never check).
* **Sums.** Both totals need that a sum changes by the one item that is added or
  removed (`SumAdd`, `SumRemove`), whatever order the fold takes. That is an
  induction over finite sets, and the induction theorems of the library take a
  predicate as parameter, which the provers cannot instantiate. `Sums_proofs`
  argues by a smallest counterexample instead: the subsets for which a law fails
  form a set, strict inclusion is well-founded on the subsets of a finite set,
  and a smallest failing subset is refuted (`SmallestSubset`). The same argument
  shows that the recursive function inside the fold exists (`SumExists`) and is
  unique (`SumUnique`).
* **Refinement.** `CoreImplementsLifecycle`: every step of the core maps to a
  step or a stutter of `TokenLifecycle`.
* **Breaker.** Types, counters below their limits when trading is allowed, and
  that only `resume` leaves a pause for NORMAL.
* **Control plane.** `ControlImplementsBreaker`: the composition is a behaviour of
  `BreakerAlone`, so what was proved of the class carries over. `LimiterExact`
  needs that what is kept of a client lies between its recent guesses and all its
  guesses, and that guesses are numbered without gaps, so that two of the same
  instant are counted twice. `DeadStayDead` and `PauseLiftedByLiveSession` hold
  for any time to live and any number of sessions.
* **Process.** `ShutdownInvariant` says for every await of `main` which tasks
  exist, which are cancelled or have ended, and that a client closed already has
  no user left: the order of the awaits is what makes `CleanExit` and
  `ClientsOutliveUsers` true, and both name the one exception, an abandoned sale.
* **What liveness rests on.** Fairness is out of the prover's reach, but that a
  process which takes its steps cannot go round in circles is not.
  `OperationsAreBounded`: a busy token has a task that waits for an answer about
  it, an operation is over after at most two answers, and an emergency stop only
  works its list off. `CallsAreBounded` gives every executor call a budget of at most 3 `MaxRetries`
  + `MaxPolls` + 2 which each of its steps lowers and which is zero exactly when
  it has ended. `ShutdownIsNeverStuck`: `main` waits only for tasks that exist and
  were told to stop, and moves forward through at most twelve stages;
  `StoppedStaysStopped`: such a task does nothing but end. `CyclesAreBounded`: each
  step of the loop uses up an attempt of its phase, goes to a later phase or is
  back at the positions; its invariant `BatchesLeft` bounds what a scan may still
  ask for. With the fairness of section 3, which TLC adds, these are the reasons
  for `OperationsEnd`, `CallsEnd`, `ShutdownEnds` and `LoopKeepsWatching`.
* **Transactions and swaps.** Facts of the table (an open state may always fail;
  terminal states are final; CONFIRMED only from CONFIRMING or UNKNOWN), and
  from an invariant that ties the record to the await: settled records, unsigned
  means unsent, confirmed fills. `RecordsAreMonotone`: over any number of calls a
  record only moves forward, and a terminal one is left alone. `NoLiveFill`
  states the consequence of the missing CONFIRMING step: the live executor, as
  written, never reports a fill.
* **Paper mode.** Matching books, the tracker's exact drift, agreement of the two
  price tables, completeness of position cycles and emergency stops, and
  `NoFreeLunch`: for all prices, sizes and liquidities a sale at or below the
  entry price books a loss. `MoneyConserved` is the cash identity for all of
  them, negative proceeds at zero liquidity included. The invariant needs,
  besides the books, that every position was filled at no more than its cost
  (`FairlyFilled`) and what a handler has already dealt with
  (`VisitedAreSettled`).
* **Buy path.** For all settings, snapshots and books: a rejected token does not
  linger; an order respects every cap of the sizer, up to the half cent that
  rounding adds (`RoundedBound` carries the arithmetic, `HighestBound` that the
  scores are numbers at all); a critical sign excludes the order. An order finds
  the liquidity minimum if MIN_RISK_SCORE is above 55 and MIN_LIQUIDITY_USD at
  most 100000: a thin pool leaves the loop's heuristic at 55 at most, and nothing
  else looks at the minimum again. `LowerScoreBuysNoMore` follows the risk score
  through the scorer, the strategy's size and the sizer's caps and rounding, each
  of which is monotone in it (`BaseMonotone`, `SizesMonotone`, `SomeSize`); it
  asks that the weight of the risk score is not negative, as its default 10 is.
  The code accepts any weight, and a negative one would reward risk. The
  invariant says what each stage has passed (`PastSignal`, `PastRugCheck`,
  `PastEngine`) on the snapshot still in hand.

Assumptions: those named `...Assumption` in the modules (TLC evaluates them).
They exclude zero limits and sizes, and make the null value different from
records.

Only model-checked: liveness (`OperationsEnd`, `PositionsEventuallyClose`,
`CallsEnd`, `ShutdownEnds`, `LoopKeepsWatching`), since fairness and ENABLED are
out of the prover's reach, and the counterexamples. Every invariant and every
action property of a passing run is stated by a theorem.

Only proved: `TradeForEveryExit`, `StatisticsExact`, `LossChecksTrip` and
`FeedAndMarketAgree`; what liveness rests on (`BusyTokensAreWorkedOn`,
`OperationsMoveOn`, `CallsAdvance`, `RecordsMoveOn`, `WaitsForTheStopped`,
`MainMovesOn`, `StoppedTasksEnd`, `CycleAdvances`); and the facts about the
breaker's class alone, whose module `control` runs as a part.

## 5. Observations that no run covers

* The risk engine uses the defaults of `PortfolioRiskData`, not the settings
  (trading_loop.py:836), so raising a limit in the settings does not raise it there.
* Neither cycle passes on whether a mint or freeze authority exists, so those
  vetoes of detector, engine and strategies never fire (trading_loop.py:680, 719).
* `TRADING_ENABLED` is read by nothing that trades.
* The order of a new launch has "sniper-specific sizing" (trading_loop.py:500)
  only in name: it goes through the momentum strategy again and the common sizer,
  and NEW_LAUNCH_MAX_POSITION_USD has no reader. Its liquidity minimum of 500 is
  moot, since the engine requires half of MIN_LIQUIDITY_USD.
* A launch's age drops the time zone of `pair_created_at` (trading_loop.py:464)
  and is wrong on a host that is not in UTC.
* Trailing stops and the new-launch stop and take-profit settings are never
  passed to a position.
* `record_unknown_tx_state` and `record_abnormal_slippage` move a paused breaker
  down to WARNING, which the next success clears; nothing calls them today.
* A failed balance request leaves the SOL balance at zero, and the loop then
  pauses trading for a low wallet (trading_loop.py:279).
* At zero liquidity the simulator fills orders instead of rejecting them, and
  pays negative proceeds (paper.py:25, tasks.md:227).
* Nothing of the trading state is persisted: a restart forgets the open positions,
  in live mode also those on the chain. The repositories that could keep them are
  not called by the loop.
* A swap that timed out while confirming is answered as a failure and may be
  sent again after the duplicate window; no reconciliation runs in between.
* The reconciliation worker announces an exposure check
  (reconciliation_worker.py:28) that its code does not make.

* `Retry-After` is slept in full inside the loop's task (dex_screener.py:60): a
  rate-limited scan keeps the open positions waiting for as long as the server
  says. `_min_interval` is 1/55 of a second, not of a minute
  (dex_screener.py:30), and retries are not spaced by it.
* With the default empty search query a scanner outage never reaches the loop:
  `_get_trending_solana` returns an empty list for every error
  (dex_screener.py:163), so `scanner_unavailable` (README.md:199, tasks.md:356) is
  not emitted and the scan is counted as completed. One malformed pair discards a
  whole trending scan (dex_screener.py:157).
* The graceful shutdown cancels the loop at whatever await it is in, also inside a
  trade, although main.py:140, tasks.md:439 and prd.md:1685 say that operations in
  flight are finished; `Swap`'s `Cancel` models the effect.
* An exception of the web server ends `shutdown` before any client is closed
  (main.py:161 catches only time-outs and cancellation), and a port that is taken
  makes uvicorn exit and takes the bot down with it.
* `start` runs outside the `try` of `run` (main.py:193): a bad `--port` or a missing
  key ends the process without `shutdown`.
* A dashboard sale that outlives the ten seconds, or a second SIGINT, may reopen the
  Jupiter client after it was closed (`abandoned`).
* `check_rpc` answers at worst "degraded" (health.py:78), so live start-up never
  aborts for an unreachable RPC node, which health.py:28 calls an error.
* A request with a wrong CSRF header still renews its session. `purge_expired` and
  `destroy_all` have no caller, so expired sessions stay in the table until used.
* `retry_after` is truncated to whole seconds (security.py:50): a client that comes
  back exactly then is still refused.

## 6. Plan

Done: `CircuitBreaker`, `TokenLifecycle`, `Orchestrator` with refinement and
proofs; `Transaction` and `Swap` with proofs; `PaperTrading` with proofs;
`BuyPath` and its operator modules with proofs; `Sessions`, `ControlPlane` and
`Runtime` with proofs. The class alone (`BreakerAlone`) is now run as a part of
`control`, and the action properties of the core are in `core_books` and
`core_liveness`.

Left:

1. A composition of `BuyPath` with the core, so that what decides a buy there is
   no longer free: the two share the breaker, the duplicate window and the books.
2. Lengths of time in `Runtime` (intervals, `Retry-After`), to bound how late an
   exit may come.
3. Proofs: that the work left in a position cycle and in an emergency stop of
   `PaperTrading` shrinks with every step, as shown for the core, `Swap` and
   `Runtime`; a refinement of `Runtime`'s shutdown by an abstract one.

## 7. Not modelled

* `backtest/`: a batch replay in one sequential function, outside the trading
  process. It calls the pricing, filters and exits modelled here, but despite its
  claim of the same pipeline it consults neither the breaker nor the loss limits.
* `database/`: schema and CRUD; the loop never calls it, so nothing survives a
  restart and there is no recovery to model.
* `blockchain/`: thin RPC and key-file I/O; the chain is external to `Swap`, and
  `ReconciliationService` has no caller.
* `monitoring/`, `config/`, `api/schemas.py`, static files, the status and event
  endpoints: they only read.
* `scanner/discovery.py` and `scanner/market_data.py`: nothing starts them. The
  search-query path of the scanner: no caller sets a query.
* A wall clock that is set back: sessions and limiter use `time.time()`, the model's
  clock only moves forward.
* Notifier calls: the system passes no notifier.
