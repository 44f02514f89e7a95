# Verification of the Bitget trading bot

TLA+ models of `src/app`: of the worker process (`python -m app.main`) the
parts that decide whether an order leaves, what the tables say about it, and
who may trade at all; of the research around it what is written while other
processes, threads or the market may interfere. TLC checks them on small
instances; TLAPS proves every safety property of the passing runs for every
value of the constants.

Paths are relative to `src/`. "The worker" is `app/main.py:main`, one thread
that runs a cycle for ever.

## 1. The system

### 1.1 One cycle of the worker

Before the first cycle `WorkerLockManager.acquire` takes the lock row, or the worker
stands by until it does.

1. News.
2. Market data of the symbols that were active at startup (without any the cycle is
   over), indicators, regime, one `Signal` per symbol.
3. `_label_matured_observations`: the triple-barrier labeler labels old observations.
4. `PositionManager.sync_open_positions`: in live mode asks the exchange for the
   positions and closes those without protection.
5. `PortfolioAllocator.allocate` and `RiskManager` select signals for free
   symbols within the position slots.
6. For each selected signal `PaperTrader.open_position` or
   `ExecutionEngine.execute`.
7. `PositionManager.monitor`: `PaperTrader.monitor` in paper mode, another sync
   in live mode; then one more sync.
8. `WorkerLockManager.heartbeat` renews the lock row; nobody looks at its answer.
   `_reconcile_paper_if_due`, reports, backups, sleep.

Any exception goes to one handler (main.py:767) that logs, counts an API
failure, sleeps and starts the next cycle.

### 1.2 Components

| Component | State | Operations | Talks to | What makes it correct |
|---|---|---|---|---|
| Single-worker lock `worker_lock.py` | row `active_worker_lock` of `bot_state` (instance, heartbeat time) | acquire, heartbeat, release, status | database; polled by main | at most one instance trades; a fresh lock is respected |
| Live execution `execution_engine.py` | `blocked_symbols`; writes `execution_intents`, `trades` | execute, `_place_stop`, `_place_take_profits` | Bitget client, database, execution safety | the intent precedes the order; one unresolved order at a time; no forgotten unprotected unit; rows say what happened |
| Execution safety `execution_safety.py` | none | emergency_close_with_retry, reconcile_pending_executions | client, database | a close is retried and its failure reported |
| Position manager `position_manager.py` | none | sync_open_positions, monitor | client, paper trader | an unprotected position is closed |
| Bitget client `bitget_client.py` | rate limiter | request with three tries, orders, plans, positions | HTTPS | the tries of one order carry one client order id |
| Paper trader `paper_trader.py` | `positions` by symbol (stop, tp1_hit) | open_position, monitor, load_open_positions_from_db | database | memory and table agree; a trade is opened once and closed once |
| Paper reconciler `paper_reconciler.py` | none | reconcile (worker, and `research_lab reconcile-paper`) | database | closes rows by label or by age, leaves the others alone |
| Database `database.py` | Postgres or SQLite tables | one transaction per call | everybody | each call is atomic; two calls are not |
| Main loop `main.py` | times of the last periodic jobs, `STOP_REQUESTED` | the cycle, startup, the handler | everybody | order of the steps, survival of errors |
| Labeler `labeler.py` | table `signal_labels` | label of an observation from candles, save once | main loop, database | the label the market gave; none is left without one |
| Allocator `portfolio_allocator.py` | none | allocate | signals, positions | slots, one trade per symbol, correlation groups |
| Risk manager `risk_manager.py`, `order_manager.py` | api failure counter, losing streak, cooldowns | validate, sizing, breakers | database, account | loss limits stop trading; margins within limits |
| MFE/MAE tracker `mfe_mae_tracker.py` | table `signal_path_metrics`, buckets seen | register, probe, update | main loop, database | each metric ends once and agrees with its path; limits hold |
| Rate limiter `utils.py` | times of the recent calls | wait | every thread with a client | at most N calls per window |
| Data vault `data_vault.py` | lock of the process, archives on disk | export, prune | background thread, health server | one export at a time; a valid archive stays |
| Trade collectors `labs/bybit_trades_ws_persistent_v10_43c.py` | lock file, `trades.csv`, ids seen, buffer | acquire, session, flush, release | exchange, other collectors | one row for each trade; nothing is lost in silence |
| Dashboard watcher `labs/research_dashboard_v10_43c.py` | lock file | acquire, release | other watchers | one watcher |
| Autopilot, reports, training pulse | flags of background threads, counters | report | files | - |
| Feature logger, duplicate guard | table of observations | record, audit | database | - |
| Signal engine, regime, news, meta model, edge guard | none between cycles | scores | - | numeric |
| Event store, candle files, strategy registry, laboratories | files and research tables | append, rewrite, report | - | never reach the order path |
| Health server, dashboard, Telegram, configuration | views, messages, values | - | - | - |

`PROJECT.json` lists every component with its status.

### 1.3 What is hard

- **Two instances.** The lock is read, decided on and written in three
  transactions, and a failed read looks like a missing row.
- **The exchange.** The answer to an order may be lost; an order may be taken
  although the client saw a timeout; a limit order may fill later; a stop may
  be refused.
- **Crashes.** The worker may die between any two calls. Only the tables
  survive; `reconcile_pending_executions` counts the unresolved intents and
  repairs nothing.
- **Two writers of `trades`.** The trader writes from memory, the reconciler
  from the table, the command from another process.
- **Failing calls.** Each database call may raise, and where the exception is
  caught decides what is skipped.
- **Stale reads.** The selection loop opens several positions on what it read
  before the first; a label is given from a candle that is still forming.
- **Files between processes.** Lock files are read, judged and replaced in
  steps; archives are listed by one thread while another rewrites them.

## 2. The modules

| Module | Models | Abstract specification |
|---|---|---|
| `WorkerLock` | lock row, its readers and writers, standby, crash | - |
| `LiveExecution` | steps 4-7 of the cycle in live mode, tables `execution_intents` and `trades`, the exchange | `IntentLatch` |
| `PaperTrading` | steps 3-8 in paper mode, startup, the command `reconcile-paper` | `TradeBook` |
| `RiskGate` | steps 5-7 in both modes: allocator, risk manager, checks of the paper trader, the amounts | - |
| `PathMetrics` | the MFE/MAE metrics of steps 2 and 5, and their updates | - |
| `Labeling` | step 3: candles, observations, labels | - |
| `RateLimiter` | `SimpleRateLimiter.wait` | - |
| `Backups` | export and prune, by the thread of the worker and by the health server | - |
| `TradeCollector` | collectors of public trades that share one file | - |
| `WatchLock` | lock file of the dashboard watchers | - |
| `MCLiveExecution`, `MCPaperTrading`, `MCRiskGate` | instances for TLC | |
| `MCLocks` | `WorkerLock`, `RateLimiter`, `WatchLock`, `Backups`, `TradeCollector` in one run | |
| `MCResearch` | `PathMetrics`, `Labeling` (two sizes), `TradeCollector` in one run | |
| `LiveExecutionProofs`, `PaperTradingProofs`, `RiskGateProofs`, `BackupsProofs`, `TradeCollectorProofs`, `WatchLockProofs` | theorems about one module | |
| `LocksProofs`, `ResearchProofs` | theorems about `WorkerLock` and `RateLimiter`, and about `PathMetrics` and `Labeling`, and about the compositions `MCLocks` and `MCResearch` | |

The parts that `MCLocks` and `MCResearch` put together share no state in the
program. Each behaviour picks one of them (`part`) and leaves the others as they
began, so the states are the sum of the parts and not their product. The specification
of the composition implies that of each part, which is how `LocksProofs` and
`ResearchProofs` carry the theorems of the parts over.

The models with steps inside a call have a program counter (`pc`, `at`, `until`)
for each thread or process, and one action for each database transaction or
call to the exchange, because these are the points where something else may
happen. Code between two calls belongs to the action of the call before it.

### 2.1 WorkerLock

`row` is the row of `bot_state`: an instance and the time of its heartbeat.
`acquire`, `heartbeat` and `release` are each split in a read, a decision and a
write, as the code is (three separate connections). `seen` is what the instance
read, `stamp` the time it writes. `cause` is a history variable: the reasons why the lock may be wrong
(`failed_read`: `_read` swallowed an error and returned no row; `stale_write` and
`stale_delete`: the write or the delete was carried out on a row that had changed
since it was read; `lapsed_takeover`: the ttl passed under a live holder and
another instance took the row). `OwnedUnlessDisturbed` says that these are the
only reasons. `Tick` moves the clock; `MaxTime` bounds it.

### 2.2 LiveExecution

The bot: `pc`, `op` (the client order id of the call in progress), `todo`
(selected signals), `known` (what the sync of this cycle saw), `toClose`,
`syncs`, `blocked`, `tries`, `stopOk`. The tables: `intents`, the status by
client order id, and `trades`, the set of row statuses recorded for the order.
The exchange: `accepted`, `resting`, `filled`, `stops`, `tps`, `reused`.

| Code | Action |
|---|---|
| `sync_open_positions`: read, then one protective close after the other | `Sync`, `CycleFails`, `CloseUnprotected`, `SyncDone` |
| allocator and risk manager: signals, free symbols, slots | `Plan` |
| guards at the top of `execute` | `Refuse`, `Begin` |
| margin and leverage | `Prepare` |
| `record_execution_intent` | `RecordIntent` |
| `place_order`, three tries with one client order id | `PlaceOrder` |
| status SENT, UNKNOWN, CONFIRMED, FAILED | `MarkSent`, `MarkUnknown`, `Confirm`, `MarkFailed` |
| `_place_stop`, one action for each of its three attempts | `PlaceStop` |
| `_place_take_profits` | `PlaceTakeProfits` |
| `emergency_close_with_retry`, one action per attempt | `PanicClose`, `TpClose` |
| `record_trade` with its five statuses | `RecordCritical`, `RecordPanicClosed`, `RecordTpClosed`, `RecordOpen`, `RecordError` |
| handlers of `BitgetAPIError` and `Exception` | `ApiError`, `OtherError`, `AbortCycle` |

The exchange is external and is modelled from the calls the code makes:
`Accept` (a market order fills, a limit order rests), `FillLimit`, `Trigger`
(a stop or target closes the unit), and `Reconcile`, the person who settles an
intent. The code has no call that settles one; `Reconcile` is enabled only for an
order with nothing left on the exchange, which is what a careful review finds.
When a position is gone, the plans placed for an order that still rests may vanish
with it or stay (`Emptied`). A position counts as unprotected without a stop or
without a take profit, as with the options require_stop_loss and
require_take_profit on. Left out: an order that is cancelled or expires
unfilled on the exchange, and partial fills.

### 2.3 PaperTrading

Prices are five levels seen from a position: at the stop, between stop and
entry, entry to TP1, TP1 to TP2, beyond TP2. That is all `monitor` tells
apart. `key` is symbol, side and entry within the tolerance of
`find_label_for_paper_trade`; `latest` is the result of its query: the newest
label among the operated observations of the same key.

| Code | Action |
|---|---|
| `_label_matured_observations` | `Label`, `LabelDone` |
| `open_position`: checks and `record_trade`; the dictionary; what main does next | `RecordTrade`, `OpenFails`; `InsertPosition`; `MarkOperated`, `MarkRaises`, `OpeningRaises` |
| `monitor`: a symbol at a time | `MonitorStart`, `MonitorNoPrice`, `MonitorStop`, `MonitorHold`, `MonitorRaises`, `MonitorDone` |
| `reconcile`: read the open rows, then one row after the other | `ReconcileStart`, `ReconcileReadFails`, `ReconcileClose`, `ReconcileLeave`, `ReconcileDone` |
| `positions.clear()` and `load_open_positions_from_db` | `Reload`, `LoadAtStart` |
| the command, in a process of its own | `CommandStart`, `CommandRow` |
| death of the process, new process | `Crash`, `Restart` |

Here a label may come at any time with any barrier; when and which is the
matter of `Labeling`.

A database call that raises has no effect on the tables; a commit whose answer
is lost is not modelled. With `DbFails = FALSE` no call raises. A
handler that itself raises ends the process, which is `Crash`.

### 2.4 RiskGate

Amounts are whole USDT; a cap that the code computes as a product is rounded
down, a floor up. `mode` is fixed at startup. `positions` is the dictionary of the
paper trader, or what the exchange holds; `mem` is the margin the dictionary
says, `real` the one of the rounded order.

| Code | Action |
|---|---|
| sync, `allocate`, the two sums of profits, `news_decision.reduce_risk` | `Plan` (`Allocate`, `Admit`) |
| refresh of the balance, `validate_signal`, the checks of `open_position` | `OpenPosition` (`Preflight`, `Affordable`, `Rounded`, `PaperAdmits`), `Skip` |
| monitor and reconciler close a paper trade | `PaperClose` |
| a stop or target is hit on the exchange | `LiveClose` (nothing writes its profit) |
| end of the cycle, with the reload of the reconciliation or without | `EndCycle` |
| the handler of main.py and its counter | `CycleFails` |
| a new process | `Restart` |

`known`, `pnl` and `todo` are the locals of the loop, read when it began and
used to its end; that is where the hazards are. A signal is only as good as its
score (`grade`) and any ranking may come. Risk per trade, leverage, notional and minimum sizes
refuse more signals and are part of `Skip`, which may refuse any. The
paper trader refuses on the original `STARTING_CAPITAL_USDT`, live mode on the
equity of the account. `halved` is a history variable: the
balance was halved by `reduce_risk` at an opening since the account was last flat.

### 2.5 PathMetrics and Labeling

`PathMetrics` is the table by key, with one barrier on each side and returns in
steps of 0.25 %: `Register`, `RegisterUnchecked` (the check before the insert
raises and the insert follows all the same), `ProbeStart`, `ProbeNext`,
`ProbeEnd` for the market probes, `UpdateStart` and `UpdateRow` for
`update_active`, `MetricsRestart`. The keys a pass still has to treat are a set
(`todo`); updates take the oldest (`Older`), probes come in any order. The key of a probe holds its time bucket. `ended` is
`matured_at`, which an upsert does not clear.

`Labeling` has the market: `bar` is the candle that is forming, `path` the
barriers each candle after an observation has touched so far, `dropped` the symbols
that are downloaded no more; `Touch`, `NextBar` and `Drop` are its moves. The bot
downloads a frame of the symbols it can get (`Fetch`), records observations of them
(`Observe`), reads the oldest without a label (`ReadPending`) and labels or
passes over one at a time (`LabelOne`), the latter also when the download has not its
symbol. `Outcome` is the scan of the candles. A
label remembers the first candle it looked at and what the deciding one had
touched (`from`, `seen`), which are the two ways for it to differ from what the market said
in the end: the first candles had left the frame, or the last one had not closed.

### 2.6 RateLimiter, Backups, TradeCollector, WatchLock

`RateLimiter`: a thread that holds the lock and sleeps is `until > 0`; the
deque is `granted[first..n]`, the end of the history of grants. The limiter
bounds when calls are let through. When they are sent is up to the threads,
which may be delayed between the two.

`Backups`: an archive is `torn` until its writing ends and named after the
second of its start, so two exports of one second share a name, and each
export writes its archive twice (the second has the size in its manifest). A
prune lists, judges the latest valid archive, looks at the lock once and
deletes one file after the other. `MakeDirs` is the step between taking the
lock and the `try` that gives it back: when it fails, no backup is made until the process ends.
The search for the latest valid archive passes over those whose reading raises, also a
valid one (`Judge`; `unread` remembers them); a listing may raise as well
(`PruneRaises`), and so may the deletion of a file, which then stays. `rewritten` and
`unread` are history variables.

`TradeCollector`: trades are numbered as published; a subscription replays the last
`Replay` of them, a new process knows the ids of the last `TailRows` rows. The writer
lock is read (`AcquireRead`), then replaced (`AcquireWrite`), refreshed by each flush without a look
(`Refresh`), read and unlinked in the end. `cause` says how it failed to keep
a second writer out, `gone` which trades were missed or lost with a buffer.

`WatchLock`: `Acquire`, `Exists`, `Unlink`, `Create` (exclusive), `Fill` are the
steps of acquire; a file without its owner yet reads as nobody's. The check for a
living owner may be wrong: a reading that raises tells nothing, and a late `tasklist` or
a signal that may not be sent makes the owner look dead. `Misled` are the processes to
whom that may happen. `robbed` is a history variable: who lost the file to a process
that had not seen them watch, because it read the file before they were at work or took
them for dead.

## 3. The runs

| Run | Question | Instance |
|---|---|---|
| `worker_lock` | are a failed read, a stale decision and a lapsed ttl the only ways to two traders; do the other four locks of the program keep what they promise? | 2 workers; 2 calls per window of 3 ticks; 3 watchers, all of them misled at times; 2 threads and 3 archive names; 2 collectors and 2 trades; crashes and failing calls |
| `live_safety` | do tables and exchange agree through lost answers, failed writes and a crash; is the order path the latch; is the first unprotected position handled in the end? | 2 orders of one symbol, 1 crash, fair |
| `live_slots` | do the position limit and one order per symbol hold on the exchange? | 3 orders of 2 symbols, 1 slot, positions without protection left to themselves |
| `paper_book` | do memory and table agree; is the table a book of trades? | 2 symbols, 2 trades, 2 slots, 1 crash, no failing call |
| `paper_failures` | if any call may raise, is a closed, untracked row final, and is every open trade closed in the end? | 1 symbol, 2 trades, 1 crash, fair |
| `paper_concurrent` | are status and reason one write, with a command beside the worker? | 1 symbol, 2 trades, 1 command, any call may raise |
| `risk_gate` | what do slots, correlation, margins and losses come to, when every check works on what the cycle read at its beginning? | 3 symbols in 2 groups, 2 slots, 5 trades over 2 days of one week, both modes |
| `research` | is what research is done on true, and does nothing wait for ever? | 3 metrics, 1 active, 2 bars; 2 observations of 2 symbols, or 4 candles; 1 collector; one failing call or restart each |

Four more runs end in a counterexample (section 4). Most passing runs take
seconds, `research` and `worker_lock` a few minutes.

### 3.1 Bounds

- Orders. Two of one symbol are the least for a duplicate. A third matters:
  a limit order that rests without units of its own gets its stop from the units of
  another order of the symbol, is confirmed and stays invisible to the next sync, so
  that only a third order shows it. `live_slots` has three; the proofs
  of section 5 have any number.
- Symmetry: in `live_slots` the two orders of the first symbol are
  interchangeable; the run checks no liveness.
- Crashes: one. A crash forgets all of memory and leaves the tables, so what a
  second one finds is what some first one finds. The proofs have no bound.
- Trades: two rows are the least for a stale label and for a second row of a
  symbol. One command gives every order of two writers on a row.
- Labels: the barriers that labels name are all four, but one
  (`LabelBarriers`) in `paper_failures`: its properties tell only open from closed
  and one writing of a row from the next. Its crash lets a row be lost from
  memory (`LoadAtStart` fails) while a second trade of the symbol is opened.
- Amounts: a capital of 40, margins of 16, losses of 4 and a rounding of 1, so
  that two positions just fit, a third never does, one loss reaches the limit of
  the day and two the one of the week, and rounding decides. `MaxApiFailures` is 1 (3 in the
  code): the counter only matters at its limit.
- Metrics: one slot and three keys make the limit bind and leave one probe out;
  a batch of one makes the order of the rows matter.
- Labels: two observations with a batch of one, or one observation with
  more candles than the frame holds. The first of them has two symbols, which are enough
  for an observation that nobody labels any more to keep another one out; to stay small
  it has one candle less and no target to touch.
- Backups: `Keep` is 1 (2 by default), so that two archives already make a prune
  delete; three names allow two exports of one second, and an older archive. One fault is
  enough for either way to lose the last valid archive; with two the run passes as well, in
  twice the time, and the proof has no bound.
- Collectors: `Replay` and `TailRows` are 1 and the buffer holds 2; two trades
  are the least for one to be missed or to come twice.
- Limiter: 11 ticks let the window pass three times; at the bound a new process
  begins (`LimiterRestart`). The proof has no bound.
- Clock of the lock: `Ttl` 1 and `MaxTime` 3, so that a lock can lapse
  and be taken, and lapse again.

### 3.2 Fairness

`LiveExecution.FairSpec`: the main loop goes on (weak fairness of its steps);
`Sync` and the protective close that the exchange accepts are tried again in every cycle, and
a call repeated for ever is answered some day (strong fairness of those two).
Nothing is assumed of the market, of the owner or of crashes. The accepted
close is only asked for while its client order id is unused.

`PaperTrading.FairSpec`: the worker goes on; cycles without a selected signal
keep coming and some of them reach `MonitorStart` with no call failing; the
reconciler, which is on by default (`LIGHTWEIGHT_PAPER_RECONCILE_ON_START`, config.py:528), runs every 30
minutes and reads its rows some day; a trade gets old; the write that closes a
row succeeds some day; a symbol has a price some day. No fairness on
the level of the price, on labels or on the command. The monitor has one symbol
in this run: its row is written some day, and then the cycle goes on.

`PathMetrics.MetricsFairness`, `Labeling.LabelFairness`: the main loop goes on, and in
`Labeling` so does the clock; the number of failing calls is bounded
(`MaxMetricFaults`, `MaxLabelFaults`). `TradeCollector.Fairness`: a running collector flushes what is due and ends
its flush. Nobody is obliged to find signals, to publish trades or to start a
process. `MCResearch` restates these conditions for the part that runs.

### 3.3 Properties

Lock: `OwnedUnlessDisturbed`, `FreshLockRespected`.

Live. `WrittenOff(s)` says that the exchange took an order of symbol `s` whose
intent is FAILED: the handler of `execute` gave it up. That is the one hole of
the order path (section 4), and the properties say that there is no other:

- `WriteAhead`: no order on the exchange without an intent row.
- `NoOrderWhileUnresolved`: an order is accepted only while no other intent is
  unresolved, in any cycle or process.
- `NakedIsAccounted`: a unit without a stop has an unresolved intent, which
  stops further orders, or its symbol has an order written off.
- `OpenRowIsProtected`, `PanicRowIsFlat`: a row LIVE_OPEN or
  LIVE_PROTECTION_FAILED_CLOSED is true, or the symbol has an order written off.
- `DuplicateOnlyAfterFailed`, `SlotsUnlessFailed`: one live order per symbol,
  and the slots, until an order was written off.
- `FirstNakedIsHandled`: a position without a stop is closed or protected, as long as
  the client order id of the protective close is unused.
- `LatchSpec`: the refinement of `IntentLatch`, with `open` the unresolved intents
  and `sent` the accepted orders.

Paper: `MemoryIsTable`, `UntrackedIsFinal`, `ReasonMatchesStatus`,
`OpenIsEventuallyClosed`, and `BookSpec`, the refinement of `TradeBook`.

Risk. The checks do not promise what a reader of the configuration expects;
the properties say what they do come to:

- `WithinSlots`, `CorrelatedPairs`: the slots, and one excellent signal among two
  correlated positions, also when they were opened in different cycles.
- `PaperMarginBounded`: the cap of the paper trader, but for the rounding that
  a reload brings into memory.
- `FreeMarginKept`: a live account keeps its floor of free margin, but for one step
  of rounding, whatever one loop opens, because the balance is read anew for each
  signal. When bad news halved the balance of an opening, the floor is that of half the
  equity: with a capital of 100, four slots, 45 % per trade, margins of 40 and a floor of
  35, three positions opened under such news leave 22.
- `LossesBounded`: the trades opened on a day lose at most the limit and one loss for each slot.
- `DailyLossSuffered`: a calendar day may lose twice that excess, since the sum
  goes by the day of opening.

Locks: `WindowBounded`, `WatcherOwnsFile`, `PruneKeepsAValid`, `RowsUnique`,
`StoredOrLost`. The code has holes here, and the properties say which and that there
are no others:

- `WatcherOwnsFile`: a watcher is displaced only by a process that read the file before
  it was at work, or took it for dead. A process that saw it alive never displaces it, and
  neither does a watcher that was displaced itself, one that dies or the release of another.
- `PruneKeepsAValid`: the last valid archive goes only when its reading raised while a
  prune judged, or when an archive a prune relied on was rewritten under the same name and
  that failed; and in both cases only if what the prune judged valid is no newer.
- `RowsUnique`: two collectors that start together, or whose lock lapses, both write.

Research: `ActiveBounded` (only a signal whose check raised exceeds the limit),
`PathConsistent`, `PathOnlyGrows`, `LabelIsDeserved`, `DeliveredIsSettled`,
`EveryMetricEnds`, `EveryObservationIsLabelled`. The last one excuses two cases,
both of them for ever: the symbol of the observation is downloaded no more, or as many
older observations of such symbols wait as a batch holds (200 in the code).

Each has a mutant, a definition beside the one of the code with a plausible
mistake (the comment says which), under which TLC finds it violated.

## 4. Where code and documents disagree

Each is a run that TLC ends with a counterexample.

| Run | What happens |
|---|---|
| `live_at_most_once` | All tries of an order time out although the exchange took it. The intent becomes FAILED, which blocks nothing; the next signal sends a second order. The runbook asks for at-most-once. |
| `live_tp_closed` | Take profits fail, the close fails three times, and the row still says `LIVE_TP_FAILED_CLOSED`. |
| `paper_break_even` | A reconciliation that closes one trade reloads the others with their original stop, after the move to break-even was announced. |
| `risk_loss_limit` | Nothing writes the profit of a live trade to its row. The sums of the day and the week stay zero, and the loss limits of the README never block a live account. |

Five more have a property and a configuration here, to be run by hand:

| Command | What happens |
|---|---|
| `tlc -config WorkerLockSingle.cfg WorkerLock` | Two instances read the missing row before either writes it: both acquire, both trade. |
| `tlc -config LiveNaked.cfg MCLiveExecution` | The protective close always has the client order id `codex-protection-<symbol>`; from the second time on the exchange refuses it. |
| `tlc -config PaperCommand.cfg MCPaperTrading` | The row the command closed is set to `PAPER_OPEN` again by the next look of the worker's monitor. |
| `tlc -config WatchSingle.cfg WatchLock` | A second watcher looks before the first has written its name, removes the file later and watches as well; `tests/test_researchops_v10_43c_dashboard_watch.py:127-142` expects it to be refused. No check goes wrong here (`Misled` is empty). |
| `tlc -config TradeOneWriter.cfg TradeCollector` | Two collectors read the missing lock file before either writes it, and both collect. |

Seen while modelling, without a run:

- `find_label_for_paper_trade` matches symbol, side and entry but not the
  observation, so a label of an earlier trade may close a fresh one with the old
  result (database.py:2267; `LabelFor` shows it).
- `load_open_positions_from_db` swallows a database error (paper_trader.py:54),
  after which the trader takes a symbol for free that has an open row;
  `paper_failures` shows that such a row is still closed in the end.
- The api failure counter is raised by every failed cycle and reset by nothing
  but a restart (risk_manager.py:74).
- `_future_window` falls back on the candles it was given when none is later than the
  observation (labeler.py:122); only the test of its caller (main.py:1351) keeps a
  label from being given for the past.
- Observations of a symbol that is no longer downloaded stay among the 200
  oldest for ever, and 200 of them end all labelling (main.py:1343-1349,
  database.py:2778). `EveryObservationIsLabelled` excuses exactly that (`Blocked`);
  without the excuse `research` fails with a batch of one.
- With a horizon longer than the frame no label says TIME; `LabelingAssumption` leaves
  that out.
- `latest_valid_backup` swallows an error of reading (data_vault.py:630), so a prune may
  delete the only valid archive because it could not be read for a moment
  (`PruneKeepsAValid` names it).
- A trade is written twice when the rows read back at the start of a collector
  are as few as the trades a subscription replays: with `Replay` 2, `TailRows` 2
  breaks `RowsUnique` and 3 does not; `TailRows >= 2 * Replay - 1` is what the proof
  needs. The program reads back 150000.
- `last_msg_ts` of the trade collector survives a session, so a new session may
  look stale before its first frame.

## 5. The proofs

Every invariant, action property and refinement of the passing runs is a
theorem. None uses fairness. Each module states what it needs of its constants in a
named assumption, which TLC evaluates in the runs.

`LocksProofs` on `WorkerLock`, for any set of instances, any ttl and any length of time
(`WorkerTypes` first):

- `Ownership` (`OwnedUnlessDisturbed`). The invariant alone is not inductive:
  an instance between its read and its write may own nothing. `LockInv` adds
  what is known at those points: as long as `cause` is empty, a pending write
  was decided on the row that is still there. `CleanWrite` is the lemma about the write.
- `FreshLock` (`FreshLockRespected`), from the same invariant.

`LiveExecutionProofs`, for any symbols, orders, slot limit and number of
crashes, under `LiveAssumption` (the types of the constants; the symbols are finite):

- `TypeInv` (`TypeOK`), with `ControlOK`: an order is in progress exactly
  inside `execute`, and a sync in progress is one of those still to be made.
- `WriteAheadAlways`, `OneOrderAtATime`, `ImplementsLatch` from `LatchInv`.
  `WriteAhead` says nothing of the order about to leave; `LatchInv` adds that
  inside `execute` no intent but its own is unresolved, that its own is absent
  before it is recorded and unresolved from then to the outcome. The same step
  lemma shows that every step is one of the latch or a stutter.
- `NakedAlwaysAccounted`, `NoDuplicateUnlessFailed`, `OpenRowsProtected` and
  `PanicRowsFlat` from `StopInv`. They are inductive only together: a second
  order is kept off by the sync; the sync sees a confirmed order because it is
  filled; it is filled because the exchange takes a stop only for a position;
  and the position is its own because there is no second order. `StopInv` is `ExchangeOK`
  (resting and filled orders are accepted), `RowsOK` (what is true where a row is written
  and stays true), `SeenOK` (a live confirmed order is known to the selection
  and not selected) and the property itself. `Persistence` says once for all
  actions what no step undoes; `NewRows`, `NewPoints` and `NewSelection` say which steps
  write what the invariant speaks of; `DuplicateStep`, `RowsStep` and `SeenStep`
  combine them.

- `SlotsKept` (`SlotsUnlessFailed`) from `SlotInv`. A live order may be one more
  than the sync saw, so the slots are counted on what may still be opened in this
  cycle: `Claimed` holds the symbols of confirmed orders, of the selection and of
  the order in progress. `Plan` makes it fit, every later step shrinks it, and
  an order that arrives is one of it, because by `LatchInv` no other is unresolved.

`PaperTradingProofs`, for any finite set of keys and any bounds, under `PaperAssumption`:

- `TypeInv` and `ReasonsAreTrue` (`ReasonMatchesStatus`), with failing calls,
  crashes and commands. `ShapeOK` says what the parts of a call leave in memory
  at each point, `LabelsOK` that the newest label of a key belongs to an operated
  trade of that key, and `ReasonsOK` that a reason names a labelled trade. `OldestIsARow` shows that the query for
  the oldest row of a set finds one.
- `UntrackedRowsFinal` (`UntrackedIsFinal`) without a command, from `AloneOK`:
  the rows a reconciliation has read and not yet treated are open.
- `MemoryAgrees` (`MemoryIsTable`) and `ImplementsBook` (`BookSpec`) without
  commands and failing calls, from `MemoryOK`: dictionary and open rows differ by at most
  the trade being opened, or by the rows a reconciliation has closed and
  `Reload` will forget. The conditions matter: `PaperCommand.cfg` refutes
  what a command would break.

`LocksProofs` on `RateLimiter`, for any limit and period: `LimiterTypes` and `Windows`
(`WindowBounded`). The deque alone does not imply the window; the invariant adds that
grants are ordered, that what left the deque is older than the period, and that a sleeper
outsleeps the head of a full deque.

`TradeCollectorProofs`, for any number of collectors, replay, tail and buffer:

- `NothingLostInSilence` (`StoredOrLost`), from `KeptOK`: no session is ahead of what
  was delivered, and every id a collector has seen is in the file, in a
  buffer or counted as gone. Without the second part a replayed trade could be
  taken for known and dropped.
- `WritersAlone`: the lock lets one collector work as long as none of the three
  recorded failures (`raced`, `lapsed`, `unlinked`) happened.
- `NoTradeTwice` (`RowsUnique`), under `TailCoversReplay`. From `UniqueInv`: rows are not in
  the order of the trades, but none stands a replay or more behind a later trade
  (`RowsOK`), so whatever may be replayed is among the last `2 * Replay - 1` rows
  (`TailReaches`), and a collector that has read them, or has been in session since,
  knows all of it (`KnowsReplay`). The bound is tight (section 4); a tail of 150000 rows
  is far beyond any replay.

`BackupsProofs`, for any threads, requests, number of archives to keep and failures:
`BackupTypes` and `ValidArchiveKept` (`PruneKeepsAValid`), from `BackupInv`. A prune
judges one archive the latest valid and deletes others on the strength of it; in
between an export may rewrite archives and another prune delete. `DoomOK` says what
holds until the last deletion: the names doomed are past, the judged archive is not among
them, and either an archive as new as the judged one was passed over unread or rewritten
(`Excused`, the excuse of the property), or nothing doomed is valid, or something valid
and not older than the judged one is there and not doomed. `DoomStays` and `Calm` say which steps leave that alone;
`JudgeKeeps`, `DeleteKeeps` and `WritingKeeps` are the ones that do not.

`RiskGateProofs`, for any signals, groups, limits, percentages and days, under
`ConstantsAssumption`, all from `RiskInv` (`TypeInvariant`, `RiskInvariant`):

- `SlotsNeverExceeded` (`WithinSlots`) from `SlotsOK`: positions and signals still to
  open fit the slots together, while positions only leave. `Allocate` is a fold
  over a ranking; what it returns is proved as an invariant of its steps.
- `CorrelationControlled` (`CorrelatedPairs`): also the signals still to open are compatible
  with each other and with what is open, since the loop goes on with
  what the allocator compared.
- `MarginNeverExceeded` (`PaperMarginBounded`) from `MarginOK`: the bound holds for every
  subset of the open positions, in memory and in the rows, because trades close
  in any order and a reload swaps the two.
- `FreeMarginInvariant` (`FreeMarginKept`) from `PositionsOK`: a loss is never more than the margin
  of its position, so what closes frees more than it costs.
- `LossesInvariant` (`LossesBounded`) and `DailyLossInvariant` (`DailyLossSuffered`)
  from `PnlOK`, `RiskOK` and `SufferedOK`: a day, or a week, is judged as if all its
  open positions had closed with the largest loss.

Sums over positions are folds. What they are for every finite set is proved from
`SubsetInduction`, induction with the set of the good subsets given as a set and
not as a predicate, which needs no theorem with an operator as parameter.

`WatchLockProofs`, for any set of processes: `WatchTypes` and `WatcherKeepsFile`
(`WatcherOwnsFile`). The lemma behind it is `ReadersSeeRobbed`: whoever gets
past the first reading saw at work only watchers that had lost the file, or the owner it
took for dead, so that its removal takes nothing from one it saw alive (`EarlyOK`).

`ResearchProofs` on `PathMetrics`, for any signals, probes, limits, bars, batches and
failures, from `MetricsInv`: `MetricsTypes`, `ActiveMetricsBounded`
(`ActiveBounded`), `PathsConsistent`, `PathsOnlyGrow` (`PathOnlyGrows`). `SoundRow` says of a row what
`PathConsistent` says and, to be inductive, that a key without a row knows nothing and that
an active one has bars left. `TodoOK` keeps ended rows out of a pass of updates, which is
what makes them final; `OrderOK` gives every pass an oldest row (`OldestIsTreated`). `CountOK` counts the
active metrics with those let in unchecked.

On `Labeling`, for any number of observations, horizon, frame, batch and
failures, from `LabelInv`: `LabelTypes` and `LabelsDeserved` (`LabelIsDeserved`). The property
compares a label given once with a market that went on. `FrameOK` says what the
download shows of a waiting observation of one of its symbols: the market as it was, but for its newest
candle, which may touch more later. `LabelOK` says of a label that nothing was touched before
its candle, and that a candle untouched when it was given was the last of the horizon.
`OutcomeIs` is the lemma about the scan, used for the label given and for the one deserved;
`LaterMarks` says that the market only adds to what both speak of.

The compositions. `LocksSpec` and `ResearchSpec` imply the specification of each part
(`WatchPart`, `VaultPart`, `TradesPart`, `PathsPart`, `LabelsPart`, `CollectorsPart`), hence
`PartsTypes`, `WatchersApart`, `ArchiveKept`, `TradesStored`, `OneRowEach`,
`ResearchTypes` and `ResearchKeepsItsPromises` follow from the theorems above, for the very
definitions the runs check.

TLC checked `ControlOK`, `LatchInv`, `StopInv` (with three orders of one symbol and
with three orders of two), `AloneOK`, `MemoryOK`, `MetricsInv` and `LabelInv` as
invariants before they were proved.

Only model-checked: the liveness properties `FirstNakedIsHandled`,
`OpenIsEventuallyClosed`, `DeliveredIsSettled`, `EveryMetricEnds` and
`EveryObservationIsLabelled`; the proof system has no rules for fairness here.

## 6. Not modelled

By far most of the repository is research: some three hundred files of
laboratories, adapters and reports that read tables or files, compute in floating
point and write a report nobody in the program reads back. They keep no state between two
runs and meet no other process, so there is nothing for a model checker in
them; the same holds for the pages of the dashboard and of the health server and for
Telegram. `PROJECT.json` gives the reason for each part.

Also left out:

- Indicators, scores and sizes (floating point without state between cycles);
  signing and parsing of requests; the database schema.
- Of `execute` the paper and dry-run branches, which insert a row and return.
- Of the risk manager the refusals by risk per trade, leverage and minimum
  sizes, cooldowns and losing streaks: `Skip` may refuse any signal.
- Of the backups restoring, uploading, downloading and the commands of the data vault, which run in
  processes with a lock of their own and may prune beside the worker.
- The event store and the strategy registry: files of research candidates. Only
  tests register a candidate; the commands read.
- Of the trade collector the health file and the parsing of frames. A crash in the middle of a
  row is a failed append.
- Of the labeler a second target and the amounts.

## 7. Plan

Done: `WorkerLock`, `LiveExecution`, `PaperTrading`, in the order of what a
mistake costs; `RiskGate`; `RateLimiter`, `PathMetrics`, `Labeling`, `Backups`,
`TradeCollector`, `WatchLock`; the proofs of every safety property of the runs.

1. A theorem on how far the holes reach that the runs with a counterexample show: what
   `AtMostOneLiveOrder` and `TpRowIsFlat` come to when no answer is lost and no close fails.
2. The commands of the data vault beside the worker, in processes of their own.
3. The candidate registry of the event store, should anything but tests write it.
