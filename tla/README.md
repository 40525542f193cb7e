# Verification project for golang-stock-trading

TLA+ models of the stateful parts of this repository, the TLC runs that check
them on small instances, and TLAPS proofs of the main theorems for all
instances. Paths below are relative to the repository's root.

The program trades for one holder on the Vietnamese exchanges: a Go service
(`cmd/app`) with a Telegram bot, a daily cron process that sells out of positions
(`cmd/exit-evaluator`), tools started by hand or cron (`cmd/tools`), and Python
jobs (`ml-service`), all of them on the same PostgreSQL tables. What can go wrong
is rarely in one function. It is in what two writers of `positions` do to one
row, in a run that dies between an order and its record, in a message that
arrives after the state it is meant for has changed, and in a counter or a
capital kept over days.

## 1. Inventory

| Component | State it keeps | Operations | Hard behaviour | What makes it correct |
| --- | --- | --- | --- | --- |
| **Exit evaluator** `cmd/exit-evaluator/main.go`, `internal/position/exit_engine.go`, `internal/trading/exit_executor.go`, `internal/vn/vn_index_monitor.go` | columns of `positions`; in a run: the rows as read, the threshold, the decision | read open rows, quote, floor counter, decide, sell, update the row | no lock and no transaction around a run; runs overlap; calls fail between order and update | each tranche sold once, rows never turn back, shares add up, every run ends |
| **Position ledger** `internal/service/telegram/bot_service_positions.go`, `internal/service/position/position_service.go`, `internal/db/repository/position_repository.go`, `db/migrations/000010`, `000013` | `positions`, `position_entries`, trigger `update_position_average_cost` | `/buy`, `/addposition`, close, import by SQL script | check-then-act; two transactions per command; NULL dates that cannot be scanned | one open row per ticker, what is confirmed is recorded, the row shows the log |
| **Settlement (T+2)** `internal/vn/settlement.go`, `internal/jobs/settlement_update.go`, `internal/service/position/stop_loss_validator.go`, `internal/risk/locked_risk.go`, `internal/signals/settlement_validator.go` | status, purchase date, sell date, locked and liquid capital of each row; snapshots | daily update, purchases, entries, sales, check of a stop | job missed for days, run again, one row failing, stale copies of rows, entries that do not move the purchase date, `MAX()` of an empty table | nothing is free too early, nothing stays locked for good, the budget covers what is locked |
| **One-time passwords, restart** `internal/service/telegram/bot_service.go`, `cmd/app/main.go`, `internal/service/otp`, `internal/service/auth`, `internal/redis` | `waitingOTP`, `isRestartOTP`, channels, trading token in memory and in Redis | log in, look for a cached token, ask, answer, timeout, `/restart`, exchange, cache | an answer racing a timeout; two waiters for one answer; two exchanges at once, or one while a cached token is looked up | a password is used once, the cache holds the token, start and restart end |
| **Import** `internal/service/telegram/bot_service.go` | one `importState` for all chats, files under `/tmp`, keyboards | `/import`, upload, press | any order of commands, documents and presses | a document is imported for the symbol it was asked for |
| **Alerts** `internal/service/monitor/service.go`, `internal/service/position/monitor_service.go`, `internal/service/telegram/alert_service.go` | `lastAlerts`, cached quotes, session | check, cool down, send | cooldown recorded although the send failed, or there was nothing to send | alerts are a cooldown apart, and what goes on is told again |
| **Stops and position tracker** `internal/position/stop_engine.go`, `stop_rules.go`, `tracker.go`, `managed_tracker.go`, `alerts.go` | tracked positions, their stops and highest prices, the file | update, evaluate, apply, partial exit, close, save, load | pointers used after the lock is released | shares add up; a stop only goes down by a race |
| **WebSocket client and live scanner** `internal/websocket/client.go`, `internal/service/scanner` | connection, topics, handlers, watched symbols, bars, detections | connect, start, stop, refresh, bar, detect, save, announce | callbacks between and after the steps of an unsubscribe; an unsubscribe that fails; a universe read without the lock; contexts that are cancelled | topics, handlers and watched symbols agree |
| **Portfolio risk** `internal/risk/portfolio_manager.go`, `dynamic_limits.go` | snapshot, capital, peak, streak, limits | calculate, check, add | check-then-act between callers | an addition no other overtook stays in its limits |
| **Trade plan and score** `internal/risk/position_sizing.go`, `stop_loss.go`, `targets_*.go`, `internal/scoring` | the plan | stop, size, targets, trail; score | roundings, caps and multipliers in an order | the size fits the budget; a better setup risks no less |
| **FTD regime** `internal/regime/ftd`, `db/migrations/000016` | one row a day | ingest, number the days, find the follow-through | missed and repeated jobs, backfills of any date | a rally counted on unchanged rows is counted without a gap |
| **Market regime** `internal/regime` | regime, history | classify with hysteresis | overlapping thresholds | no whipsaw |
| **Signals** `internal/signals`, `internal/service/scanner/data_provider_adapter.go` | the scan and its findings | scan a symbol, rank | providers that deliver less than detectors use | a scan ends |
| **Weekly analysis** `internal/analysis`, `internal/data` | window of bars, cached weekly bars | add a bar, analyze | cache filled under the read lock | the cache is never old, two aggregations agree |
| **Backtest** `internal/backtest` | cash, pending proceeds, positions, trades | day, buy, settle, finish | fees, replacements and dates | no money appears or disappears |

The rest (market data service, broker clients, Python manager, indicators, HTTP,
reports, `ml-service`, `news-parser`) is in section 8.

### How they interact

```
 Telegram --> bot loop --> /buy, /addposition --> positions, position_entries <-- SQL script
    ^  |          |                                   ^   ^          ^
    |  +--> OTP, /restart --> broker, Redis           |   |          '-- settlement tool
    |  +--> /import --> importer                      |   '-- stop monitor (reads)
    |                    cron --> exit evaluator: read ... update
    +-- alerts <-- price monitor, stop monitor, live scanner <-- WebSocket
```

Only the database is shared between the processes; inside `cmd/app` the bot handles
one update at a time, while the start of `main`, the monitors, and the scanner
run beside it. `main` starts `PriceMonitor` and `LiveScanner` only with a
Telegram bot, and never calls `wsClient.Connect`: with this `main` the scanner
watches nothing. `LiveScanner` has a constant `Connecting`; the runs set it TRUE
to see the connection at work.

Several packages have callers only in tests or in their own package:
`PortfolioManager`, the analyzer of one symbol, the position tracker, the trade
scorer, `SettlementTracker`. They are modelled for the callers their API admits.

`ml-service/position_manager/manager.py` is meant to be one more writer,
but the repository's own connection (`ml-service/db/connection.py`, `row_factory=dict_row`)
returns dictionaries where the manager indexes tuples (`row[0]`, `ticker, price, qty = row`): every
operation that reads a row fails and is rolled back. Rows with targets
enter the models as `ml-service/scripts/insert_vci_position.sql` writes them.

## 2. Plan

| # | Module | Status | Composition |
| --- | --- | --- | --- |
| 1 | `ExitEvaluator` (+ `ExitLadder`, the abstract specification it implements) | checked, proved | `positions` is shared by several runs and the holder |
| 2 | `PositionLedger` | checked, proved | exits and closes by other writers are actions of it |
| 3 | `VnMarket`, `Settlement` | checked, proved | the job beside purchases, entries and sales |
| 4 | `StopEngine`, `StopTracker`, `AlertMonitors` | checked, proved | one set of stop rules, used by the tracker and by the stop monitor |
| 5 | `OtpFlow`, `ImportFlow` | checked, proved | bot loop, start of the application and restart |
| 6 | `LiveScanner` | checked, proved | listener, starter, refresher and detections |
| 7 | `PortfolioRisk`, `TradePlan`, `TradeScore`, `FtdRally`, `Regime`, `Signals`, `WeeklyAnalysis`, `Backtest` | checked, proved | callers of shared objects, and sequential machines against a reference |
| 8 | `Desk` | checked, proved | puts 3 to 7 under one specification |

Every safety property that a passing run checks is also a theorem (section 6); liveness
stays with TLC. Rules for modules to come:
parameters are CONSTANTS with named assumptions, one action
per operation, invariants are conjunctions of named parts, and no RECURSIVE
operators in a module that is proved about.

## 3. ExitEvaluator

### State and actions

| Model | Code |
| --- | --- |
| `positions` | rows of `positions`; columns as in `Row`. `filled` is the set of targets with `targetN_filled = TRUE` |
| `queue[r]` | the slice returned by `GetOpenPositionsWithExitTracking`, one copy per run, never read again |
| `tightened[r]` | `EmergencyThreshold` 15.0 instead of 30.0 after a critical VN-Index drop |
| `runDay[r]` | `today`, taken once when the run starts |
| `order[r]`, `phase[r]` | the `ExitDecision` in hand and how far `evaluateOne` is with it |
| `booked`, `tranches`, `floorSeen`, `overlapped`, `faults` | history, read by properties and bounds only |
| `GetOpenPositionsWithExitTracking`, `ScanFails`, `QueryFails` | start of `main`, up to the loop; the last two end in `log.Fatalf` |
| `EvaluateOne` | `evaluateOne` up to the decision: `CheckFloorHit`, `UpdateFloorCounter`, `EvaluatePosition` |
| `GetSymbolInfoFails` | the early return of `evaluateOne` |
| `ExecuteExit` | `ExecuteExit` and `placeSellOrder`, which simulates a broker that fills everything |
| `UpdateExitTracking`, `UpdateExitTrackingFails` | the `UPDATE` and the CHECK that may refuse it |
| `Crash`, `Finish` | the process dies or comes to its end |
| `OpenPosition`, `ClosePosition`, `NextDay` | the environment: script or bot, the holder's sale by hand, the calendar |

A quote is what the code compares: at the floor or not, 0, 1 or 2 targets cleared, and a
risk of at most 15, at most 30 or above 30. Target 3 is a stub in the code that
never decides anything, and so it is in the model. A decision for no shares (30%
of three or fewer) is an error of `ExecuteExit` that leaves the row alone.

Steps are as fine as the database sees them: read, counter write, order, update. A
run can be overtaken, or die, between any two of them. The write of the counter and
the decision are one step because nothing else in the run happens between
them that another process could see. The clock is read
after the table and one network call later; the model reads both at once, and a
run that starts in the last seconds of a day gets the day of its read. Two runs of the same process may be alive
together: cron starts the process again, by hand or while a run hangs, and
nothing stops it. The variable `overlapped` tells properties that need a lone run from
those that do not.

### Runs

| Run | Instance | Shows |
| --- | --- | --- |
| `exit_daily` | one process, rows of 10 and 3 shares and a bot row with NULL targets, 2 days, 1 fault | `EachTrancheSoldOnce`, `LadderRefined`, `RunEnds` |
| `exit_floor` | one process, one row, 5 days, 2 faults | `FloorCounterSound`, `EmergencyHeeded` |
| `exit_overlap` | two interchangeable processes, one row of 10 shares, 3 days, 1 fault | `TypeOK`, `LedgerBalanced`, `FloorCounterSound`, `RowsOnlyAdvance` |
| `exit_null_targets` | as `exit_daily`, 4 days, no fault | **violated:** `EveryRunReachesTheLoop` |
| `exit_weekend` | one process, trading days {0, 3} | **violated:** `FloorCountsTradingDays` |
| `exit_full` | one process, one row, no fault | **violated:** `FullExitCloses` |

Why the bounds are enough. Ten shares give tranches of 3 and 2, three shares give the
empty tranche, and NULL targets give the fatal read. Days matter to the floor
counter only: three consecutive hits, a gap and a restart of the count fit into five days.
One fault is enough to lose an update after its order; two let the retry of the next
run fail as well. Two processes produce every stale read, since what a run relies
on is one snapshot and one order of its own. The theorems of section 6 remove
these bounds for all safety properties.

`ExitLadder` is the abstract specification: 30% of what is held, then 30% of what
is left, then nothing, each tranche at most once and in order, and closing out at any
time. `LadderRefined` says that the books follow it as long as no two runs were
alive together. With overlapping runs they do not: two runs can both sell target
1, and each takes its tranche off the row. `RowsOnlyAdvance` and
`LedgerBalanced` are what is left then, and they hold for any overlap.

### Fairness

`FairSpec` assumes weak fairness of `Step(r)`: a process that is alive takes its next
step, and a process that is not is started again. That is the operating system's
scheduler and cron. Nothing is assumed of failures, days, the holder or
the broker. `RunEnds` therefore says that the loop is finite and no step waits for
something that need not come; `EmergencyHeeded` that an emergency whose
counter is stored survives the death of the run that stored it.

### What the violated runs show

1. `exit_null_targets`: the bot creates rows with NULL targets, and
   `GetOpenPositionsWithExitTracking` scans them into `float64`
   (`cmd/exit-evaluator/main.go` 329-337). One such row ends every run in `log.Fatalf` before any position
   is evaluated, although l. 111 promises "the full evaluation loop across every open position".
2. `exit_weekend`: `CheckFloorHit` compares calendar days; Friday and
   Monday do not count as consecutive, against "Consecutive trading day" (`internal/position/exit_engine.go` l. 231).
3. `exit_full`: an emergency exit sets `quantity = 0` (`main.go` 411-422), which
   `chk_positions_quantity_positive` (`db/migrations/000010`, l. 15-17) refuses. The row stays open and the shares
   are sold again by every later run.

A fourth disagreement needs no run: `InitialShares` is `quantity AS initial_shares`
(`main.go` l. 299), the shares left after target 1, so the second tranche is 21% of the
initial position, where `exit_engine.go` l. 164 says "30% of initial position". The model computes it as the code does.

## 4. PositionLedger

One user (`/addposition` writes for user 1, `/buy` for the user of the chat, who is taken
to be the same), one ticker. `positions` holds the rows, `entered` the sum of
`position_entries`; `asked` and `confirmed` are history. The handler's phases are
the steps between which another process can write: look up (`GetBySymbol`), create the
row (`Create`), append the entry with its trigger (`CreateEntry`,
`UpdatePositionAverageCost`), answer (`Confirm`). Failures: the lookup
(`GetBySymbolFails`), each INSERT (`WriteFails`), the process (`Restart`). Other
writers: `InsertByScript`, `UpdateExitTracking`, `Close`.

A row has `dated = FALSE` until its first entry fires the trigger. `FirstEntryDate` and
`LastEntryDate` are plain `time.Time` (`internal/db/repository/types.go` l. 47-48), so an
open row that is not dated makes `GetBySymbol` return a scan error. `/buy`
gives up on it; `/addposition` drops it (`bot_service_positions.go` l. 94) and creates a second row. `blind`
counts these.

| Run | Instance | Shows |
| --- | --- | --- |
| `ledger` | 3 interchangeable row ids, lots of 1 and 2, 4 shares asked, 1 script row, 2 faults | `TypeOK`, `DuplicatesExplained`, `ConfirmedIsEntered`, `RowShowsLog` |
| `ledger_duplicates` | the same without faults | **violated:** `NoDuplicates` |

Four shares allow a failed first purchase, a repetition and a later one; three
rows allow a duplicate and a closed row beside it. Deadlock is not checked in
these two runs: when the bounds on purchases and faults are used up and every row
is closed, nothing is left to do.

`ledger_duplicates` is the comment "internal logic prevents duplicates"
(`bot_service_positions.go` l. 79): a script row without entry dates is enough for `/addposition` to open
a second one.

What the model makes visible and no property forbids, because the code states
no intent: the trigger adds up all entries of the ticker, those of closed
positions too, so a re-buy after a sale shows the shares of both.

Left out: prices, averages and fees (no property here reads them), edits and
deletions of entries, `PartialExit` of `position_service.go` and the repository's `Update` and `CreatePositionWithSettlement` (nothing calls them), and more than one ticker (the statements of one command
touch one ticker).

## 5. The desk

### Composition

`Desk` extends the modules of this section and gives them one specification. They
are processes, goroutines and calculations that share no variable, so an
interleaving of two of them has no behaviour, seen by either, that the one does
not have alone. A behaviour of `Desk` therefore picks one `machine` of `Machines`
and follows it to its end; the others are parked. Where components do share code
or state they are one machine: the stop rules are extended by the tracker and by
the stop monitor, the message loop and the start of the application are processes
of `OtpFlow`, and the daily job, purchases, entries and sales write the same
rows in `Settlement`. `Settlement` has the settlement columns of `positions`, the
ledger and the evaluator the others; the evaluator reads no settlement column and
the job no target, so each meets the other only as a sale of shares or
a close, which are actions of all three.

### State and actions

| Module | Model | Code |
| --- | --- | --- |
| `VnMarket` | `IsTradingDay`, `CalculateSettlement`, `GetCanSellDate`, `CountTradingDaysBetween`, multipliers | the calendar and rules of `internal/vn` |
| `Settlement` | `lots` are rows, `agenda` the rows the job has read, `updater` where it stands, `tracked` the age of the latest snapshot, `bought` and `added` the latest purchase of a row and whether it was an added one (history); `UpdateRow`, `RecordSettlementTracking`, each with its failure, `CrashUpdate`, `Create`, `CreatePositionWithSettlement`, `AddEntry`, `Sell`, `Tick` | one `UPDATE` and one `INSERT` per row, on copies; the columns and their defaults in `db/migrations/000014`; what an entry writes to its row in `000013` |
| `OtpFlow` | `loop` and `startup` are the two goroutines, `inbox` the updates of Telegram, `memory` and `cached` the token, `parted` what excuses their difference (history); `SetRestartHandler`, `Login`, `LookUpToken`, `UseCachedToken`, `HandleMessage`, `Dispatch`, `RestartReads`, `StartupReads`, `Timeout`, `LeaveRequest`, `CrashApp` | `Start`, `handleRestartCommand`, `RequestSmartOTP`, the start of `main` (l. 161-204) in four steps and its loop of attempts; `/restart` is accepted as soon as `main` has set the handler (168), so it may be served between the read of Redis (188) and the assignment (191); a token is read back from memory in a step of its own, because the exchange writes it without a lock |
| `ImportFlow` | `importState`, `paths` and `onDisk`; one action per command, upload and press | `handleImportCommand`, `handleFileUpload`, the two callbacks |
| `StopEngine` | one operator per rule, a set of at most one level | `internal/position/stop_engine.go` with the defaults of `stop_rules.go` |
| `StopTracker` | `heap` of objects, `positions` by id, `callers` between two critical sections | `UpdatePositionWithStopManagement` in three steps: price, evaluation, application; `ClosePosition` in two |
| `AlertMonitors` | `sinceAlert` is `lastAlerts`; `sinceSent` and `told` what reached the trader; `Told` the alerts there is a message for; one action per check, and `CheckFails` for one whose reads fail | three services with a cooldown per kind |
| `LiveScanner` | `ws`, `scanner`, and `starter`, `refresher`, `listener`, `detections` as goroutines; `switching` is what the holder of the scanner's lock has still to do, one step each: unsubscribe, remove handler and symbol, clear bars; subscribe, register, watch | `WatchSymbol`, `unwatchSymbol`, `RefreshUniverse`, `Stop`; `onBarUpdate`, which takes the lock of the bar cache twice and no other, so that its two steps fall between any of those; detection, `saveSignal` |
| `PortfolioRisk` | `book`, `pm`, `snapshot`; `adding` is what a caller was cleared for | `CalculateRisk`, `CanAddPosition`, results, limits by regime |
| `TradePlan`, `TradeScore` | `stage` of a plan, inputs as records; `verdict` of a setup | stop, size, targets, trailing stop, with ticks of 10, 50 and 100 dong by price; five components, risk and summary |
| `FtdRally` | `bars`, `regimes` by day, `stale` the days numbered on rows that have changed since (history); `SyncDailyData(d)`, `UpdateState(d)` for any day that has closed | one turn of the loop over `from`..`to`, and the tracker's update for a date; the row before that cannot be read is passed over |
| `Regime` | `regime`, `history`; `DetectRegime` | scores, hysteresis, transition, market regime |
| `Signals` | `scan` symbol by symbol, `found`, `ranked` | the four detectors on three data providers, ranking by exchanges of neighbours |
| `WeeklyAnalysis` | `series`, `weeklySeries`, `readers` | `AddBar` under the lock, `Analyze` under the read lock, `AggregateToWeekly` and its ISO-week twin |
| `Backtest` | `cash`, `pending`, `open`, `trades`, `report` | simulator, position and capital tracker, metrics |

Indicators (averages, ATR, RSI, volume percentiles) enter as readings: they are
floating-point formulas over bars, and what follows from them is the control
that is modelled. Prices, percentages and ratios are whole numbers in a
unit the header of each module names, chosen so that what the code compares is exact.

### Runs

| Run | Instance | Shows |
| --- | --- | --- |
| `desk_live` | settlement, OTP, import and alerts, with fairness | `NeverFreeTooEarly`, `LockedTooLongIsMissed`, `SellDateIsLiquidDate`, `LockedRiskCovered`, `LotsBecomeLiquid`; `PasswordUsedOnce`, `CacheHoldsTheToken`, `DeskStartupEnds`, `RestartEnds`; `ImportedAsAsked`; `AlertsSpaced`, `AlertsDelivered` |
| `desk_rules` | the other ten machines | `SharesAddUp`, `StopLoweredByRaceOnly`; `WatchedIsStreamed`, `OnlyWatchedDetected`; `AddsWithinLimits`; `SizedWithinBudget`, `BetterRisksNoLess`; `RallyUnbroken`; `NoWhipsaw`; `WeeklyIsCurrent`, `WeeksAgree`; `CapitalAccounted`, `MetricsMatchTrades` |
| `settlement_added` | one row, bought in pieces on different days, no failure | **violated:** `SettledFromMostRecent` |
| `scanner_panic` | signals, with the provider of the live scanner | **violated:** `SeriesNotUsed` |

`desk_live` also checks `DeskTypeOK`. Deadlock is not checked: every machine
ends when its days, commands and faults are used up.

Bounds, and why they are enough:

- Settlement: two interchangeable rows, a holiday on a Friday so that a weekend
  and a holiday meet in one settlement, seven days, one failure. Two rows are what it
  takes for one to fail and the other to go on. A second failure would only
  repeat the first. The tool does not keep a second one from running; the model has one at a time.
- OTP: two chats, two attempts instead of three, two passwords, two `/restart`,
  one failure. Two of each is what a race for one password takes; the last attempt
  differs from the others only in being the last. Redis is empty or holds the token of an earlier run at first.
- Import: two documents and three commands, so that a keyboard can outlive two commands.
- Alerts: a cooldown of two checks and one lost message; an alert can be early, in time
  and late. A restart of the process, which forgets `lastAlerts`, is not modelled: after one an alert may come early.
- Tracker: two callers and two objects, so that a stale evaluation can meet a newer one
  and a loaded file an object in use.
- Scanner: two symbols, three bars, two bars for a detection instead of 50, scores below and above the
  limits of a signal, one refresh, one failure: a late bar before, during and after an unsubscribe, and an unsubscribe that fails.
- Portfolio: two callers, three positions under limits of one to three by regime, three events of the rest of the desk.
- Rally: five days, one fault, which is a day without its sync, a day synced again, or a row that cannot be read; a backfill after a missed day and
  any number of updates of any day are free; regime: four days, readings for every score
  from -7 to 10; weekly: seven bars over two weeks with one closed Friday, a window of four;
  backtest: five days, three trades, two symbols.

### Fairness

- Settlement: weak fairness of `Tick`, of the steps of the job and of a start without
  `-force`. The tool is meant to be started daily, and a live process takes its
  next step. Failures and crashes stay possible at every step until their
  bound. `LotsBecomeLiquid` is about rows with a purchase date and a
  table that has a first snapshot: without one, `MAX(created_at)` is a NULL that cannot be
  scanned, and every start without `-force` ends there.
- OTP: weak fairness of the message loop and of the main goroutine. Both are
  runnable whenever they do not wait for a channel or a call, a request ends after two
  minutes, and HTTP calls have a timeout of 30 seconds. Nothing is assumed of users.
- Alerts: strong fairness of a check during a session (for the account: of a check). Sessions
  last hours and checks come every few minutes. A lost message is not excluded, only
  bounded, and so is a check whose reads fail.

### What the runs make visible

- `scanner_panic`: `data_provider_adapter.go` (l. 48, "Not using Series struct") leaves
  `DailySeries` nil. The pullback detector asks it for support levels, `Len` locks
  a nil receiver, and the goroutine of the detection has no recover.
- `settlement_added`: migration 000014 (l. 63) calls `purchase_date` the "Date of most recent purchase (used for settlement
  calculation)". An added entry updates its row through the trigger of migration 000013 (l. 84-95), which
  leaves that date and the status as they are, so the added shares are LIQUID by the clock of the first purchase. `NeverFreeTooEarly`
  is therefore about rows without further entries.
- Settlement: only `CreatePositionWithSettlement` sets `purchase_date`, and nothing calls it;
  rows of the bot stay LIQUID from their default. The exit evaluator does not look at the status.
- OTP: `main` sets the handler of `/restart` (l. 168) before it reads the token of Redis (188) and keeps it (191). A `/restart`
  exchanged in between leaves the older token in memory and the newer one in Redis, with no failed call. A pending `/restart`
  takes the password the start waits for, and the start then asks again; two exchanges at once share `tradingToken`.
  `CacheHoldsTheToken` excuses these overlaps by `parted`, which a crash ends, and speaks of no others.
- Import: a newer `/import` of any chat redirects the keyboards of documents before it; two
  documents of one symbol in one second share a file.
- Alerts: a raised stop is announced and never stored
  (`monitor_service.go` 200), so it is announced again after the cooldown. One row that cannot be scanned silences the
  stop monitor; `AlertsDelivered` holds for what is due to it. A position near its last target is recorded as told, but
  `notifyTargetApproaching` sends nothing when no target is above the price (`alert_service.go` 246-248): `AlertsDelivered` is about alerts there is a message for.
- Scanner: between the removal of a symbol and the clearing of its bars (`live_scanner.go` 209-210), and between the registration of a handler and
  the entry in `watching`, a bar can still start a detection; `OnlyWatchedDetected` names these two moments. A failed Unsubscribe (207) is
  ignored and leaves a topic streamed that nobody handles. A read error ends the connection for good (`client.go` 146), `isRunning` of the
  scanner stays TRUE after a universe that failed to load (`live_scanner.go` 137), and every further bar finds the same signal again.
- Rally: the CHECK of migration 000016 refuses the empty strength the program writes,
  so with `StrengthChecked = TRUE` no row is ever stored. The runs take FALSE, a table
  without that CHECK, to see the tracking. A repeated ingestion resets the rally of its day, a backfill
  inserts a row between numbered ones, and only a sync or update for their own day corrects the rows after it. `IsFTD` is only ever set: updated again on
  other rows, a day can be a follow-through on day 1 of an attempt or outside of one. `RallyUnbroken` excuses the rows that were counted
  through a changed or unreadable row (`stale`), and no others. Neither job has a caller in the Go code.
- Regime: `MildBullLower` and `MildBearUpper` are the same line, so `DetectVNMarketRegime`
  never yields a mild bear market.
- Signals: a breakout needs more than what any chart of the providers delivers, and one
  provider sets EMA50 to EMA20 (`data_provider.go` 66).
- Weekly: a holiday on Friday merges two weeks in one aggregation, and several Friday bars split one;
  `WeeksAgree` holds where each week has one Friday bar.
- Backtest: the final capital leaves out pending proceeds (`engine.go` 163), profits leave out
  commissions, a second position of a symbol replaces the first without a
  trade, the tracker updates "VCB" only (`position_tracker.go` 79), and T+2 is not applied. `CapitalAccounted` names what
  these leave unreported.
- Plan: targets are grouped by their distance relative to the average of the group, and the quotient keeps
  the sign of that average: below a negative one any target joins (`internal/risk/targets_comprehensive.go` 111-119).
- Portfolio: the check and the addition are two calls; two callers cleared against one
  snapshot can exceed a limit together, and `AddsWithinLimits` says that nobody else can.

## 6. Proofs

The theorems hold for every value of the constants that satisfies the named
assumptions. TLC evaluates the assumptions in every run.

### Assumptions

Most say that bounds are naturals, quantities positive, special values distinct from
real ones, sets of rows or chats finite, and inputs numbers of the kind the code compares. These say more:

- `SellDatesExist` (settlement): at least three days of trading follow every purchase within the
  `Horizon` the walk of `GetCanSellDate` is modelled over. The code's walk has no
  bound; a calendar without such days would keep it walking.
- `PortfolioAssumption`, `LimitsAssumption`: a position has at least one share, there is a limit
  for the default regime, and no limit is below one.
- `StopInputsAssumption`, `TargetInputsAssumption` (plan): inputs are integers, of either sign; nothing
  is assumed of their order.
- `SetupsAssumption` (score): the unit of prices is small, one of it is within 7% of an entry. It
  makes the rounding of the scaled prices harmless, which floating point is in the code.
- `BacktestAssumption`: a bar is valid (`ValidBar`), prices and fees are not negative.
- `SignalsAssumption`: open and close of a bar lie between its low and its high.
- `TrackerAssumption`: the initial stop is below the entry, as for the long positions that are opened.
- `WeeklyAssumption`, `RallyAssumption`: closes and volumes are positive.

### The evaluator and the ledger

| Theorem | Statement | Inductive invariant |
| --- | --- | --- |
| `TypeCorrect` | `Spec => [](TypeOK /\ OrderInHand)` of the evaluator | itself; `OrderInHand` is needed because `order[r]` may be `NoOrder` by type |
| `FloorCounter` | `Spec => []FloorCounterSound` | `FloorInv`: the same of every row in a run's memory, since a stale copy is what gets written |
| `Advancing` | `Spec => RowsOnlyAdvance` | `StaleInv`: what a run has read as filled is filled in the table; an order for target 2 presupposes target 1 |
| `Balanced` | `Spec => []LedgerBalanced` | `StaleInv` and the CHECK on quantity |
| `TranchesOnce` | `Spec => []EachTrancheSoldOnce` | `SingleInv`: without overlap there is one live run, its memory agrees with the table, and its order fits its row |
| `Refinement` | `Spec /\ []~overlapped => LadderRefined` | `SingleInv`; each step maps to a step of `ExitLadder` or leaves it |
| `LedgerTypeCorrect` | `Spec => []TypeOK` of the ledger | itself |
| `Confirmed` | `Spec => []ConfirmedIsEntered` | `LogInv`: the purchase in hand is counted on the side it has not reached |
| `LogShown` | `Spec => []RowShowsLog` | `RowsInv`: undisturbed, there is one open row at most and none while one is being created |
| `Duplicates` | `Spec => []DuplicatesExplained` | `CountInv`: a handler about to create a row counts as one row |

In `exit_daily` there is one process, `overlapped` stays FALSE, and
`LadderRefined` is checked as it stands; `Refinement` proves it for any number
of processes under the hypothesis that they never overlap.

### The components of the desk

| Theorem | Statement | Inductive invariant |
| --- | --- | --- |
| `NoEarlySale`, `FreedStaysFree`, `RiskCovered`, `SettlementTypeCorrect` | `SettlementSpec => []NeverFreeTooEarly`, `[]LockedTooLongIsMissed`, `[]LockedRiskCovered`, `[]SettlementTypeOK` | `SettlementInv` with `LatestBought`, by which the date of a row is that of its latest purchase unless it was added to: a row is LIQUID no sooner than the count from its date allows (`BoughtInTime`), stays so once freed (`FreedIsLiquid`) and locks risk for all its shares (`Covered`); the stale copies the job may still write have the rows' dates and statuses, and no fewer shares (`CopiesHold`) |
| `SellDateAgrees` | `SettlementSpec => []SellDateIsLiquidDate` | `SettlementInv` ties the date of a row to its purchase; the rest is about the calendar: the day by day walk ends on the day on which the count of trading days reaches three, for every set of holidays |
| `OncePerPassword`, `CacheAgrees`, `OtpTypeCorrect` | `OtpSpec => []PasswordUsedOnce`, `[]CacheHoldsTheToken`, `[]OtpTypeOK` | `OtpInv`: no password is in two of inbox, bot loop and start of the application at once, and one that is in any of them, or not yet sent, is unused (`PasswordInv`); undisturbed, one goroutine at a time has a token in hand, and what it carries is that of memory or, at the start, of Redis (`TokenInv`) |
| `AskedFor`, `ImportTypeCorrect` | `ImportSpec => []ImportedAsAsked`, `[]ImportTypeOK` | `ImportInv`: the symbol at hand is the one of the last command, files hold documents that were sent, and a document that is still to be sent has no import |
| `SharesKept`, `TrackerTypeCorrect` | `TrackerSpec => []SharesAddUp`, `[]TrackerTypeOK` | `TrackerInv`: every open position has an object of its own with shares left, apart from the closed ones, and the file holds whole positions |
| `OnlyRacesLower` | `TrackerSpec => StopLoweredByRaceOnly` | `TrackerInv`: a caller's stop is not below the one it was computed from, which `NeverProposedLower` shows of all five rules |
| `Spacing`, `AlertTypeCorrect` | `AlertSpec => AlertsSpaced`, `[]AlertTypeOK` | `ClockInv`: a cooldown never runs ahead of the time since the alert was last heard, whatever was lost |
| `InStepAlways`, `DetectionsWatched`, `ScanTypeCorrect` | `ScanSpec => []WatchedIsStreamed`, `OnlyWatchedDetected`, `[]ScanTypeOK` | `ScanInv`: without a connection there are no topics, and handlers and symbols differ only in the symbol just being switched; a symbol neither watched nor being switched has at most the one bar a listener still delivered, which never is enough (`OneLateBar`) |
| `Hysteresis`, `RegimeTypeCorrect` | `RegimeSpec => NoWhipsaw`, `[]RegimeTypeOK` | `RegimeInv`: the last regime was classified against the one before with the last score. `NoWayBack` is the step, for all pairs of regimes and scores |
| `AttemptsUnbroken`, `RallyTypeCorrect` | `RallySpec => []RallyUnbroken`, `[]RallyTypeOK` | `RallyInv`: a row that is not stale says of itself no more than the row before it and its own close give, and that row is not stale either (`Chained`), so an attempt leads back to its day 1 (`Attempts`) |
| `WeeklyStaysCurrent`, `AggregationsAgree`, `WeeklyTypeCorrect` | `WeeklySpec => []WeeklyIsCurrent`, `[]WeeksAgree`, `[]WeeklyTypeOK` | `WeeklyInv`: cached weeks are those of the window (`CachedWeeks`), a reader under the lock sees one moment (`ReportsAgree`); the agreement of the two groupings is shown of every window of bars |
| `SignalsRanked`, `SignalsTypeCorrect` | `SignalsSpec => []RankingSorts`, `[]SignalsTypeOK` | `SignalsInv`: what the exchanges have placed stays placed (`RankedSoFar`) and none is lost (`NoneLost`) |
| `CountsWithinLimits`, `PortfolioTypeCorrect` | `PortfolioSpec => AddsWithinLimits`, `[]PortfolioTypeOK` | `RiskInv`: a snapshot no addition has overtaken counts the positions that are there, and a cleared position has room in it |
| `WithinBudget`, `PlanTypeCorrect` | `PlanSpec => []SizedWithinBudget`, `[]PlanTypeOK` | `PlanInv`; `SizeWithinBudget` is the arithmetic, every rounding included |
| `BetterNeverLess`, `ScoreTypeCorrect` | `ScoreSpec => []BetterRisksNoLess`, `[]ScoreTypeOK` | `ScoreInv`: the verdict is that of the setup; each component is monotone in what it reads |
| `BooksBalance` | `BacktestSpec => []CapitalAccounted` | `BacktestInv`: itself with the types. Each step moves one term between the sums over trades, open positions and pending proceeds |
| `MetricsAgree` | `BacktestSpec => []MetricsMatchTrades` | `ReportInv`: the report is that of the trades; the running peaks and streaks of `metrics.go` are the greatest over all ranges of trades |
| `BacktestTypeCorrect` | `BacktestSpec => []BacktestTypeOK` | `BacktestInv`; what is bought costs at least its price |

`SettlementInv`, `OtpInv`, `RallyInv`, `WeeklyInv`, `RiskInv`, `ScoreInv`, `BacktestInv` with `ReportInv`
and `SignalsInv` were checked by TLC on the instances of section 5 before they were proved.
`RankingSorts` is proved only: it is not among the properties of a run.

### The desk

`DeskProofs` puts the theorems together. `DeskStep` shows that a step of `Desk` is a step of each machine
or leaves its variables alone; `ComponentsFollowed` concludes that `DeskSpec` implies the
specification of each of the fourteen; `DeskSafe` lists the safety properties that
`desk_live` and `desk_rules` check, and `DeskTypeCorrect` proves their type invariant.
What the runs show on a small instance holds of the desk for all constants.

| Module | Proves about |
| --- | --- |
| `ExitEvaluatorProofs`, `PositionLedgerProofs` | the evaluator; the ledger |
| `SettlementProofs` | `Settlement`, `VnMarket` |
| `BotProofs` | `ImportFlow`, `OtpFlow` |
| `StopProofs` | `StopEngine`, `StopTracker`, `AlertMonitors` |
| `MarketProofs` | `LiveScanner`, `Regime`, `FtdRally`, `WeeklyAnalysis`, `Signals` |
| `RiskProofs` | `PortfolioRisk`, `TradePlan`, `TradeScore`, `Backtest` |
| `DeskProofs` | `Desk` |

### Sums and folds

The library's induction theorems take an operator, which the provers cannot instantiate.
The models' sums, groupings and metrics are folds over sequences and sets all the same, and what
they compute is proved from first-order facts: a set of numbers that contains 0 and with each number the
next is `Nat` (`NumbersByStep`, by the least number that is missing), and a set of subsets
of a finite set that is closed under adding an element contains them all
(`SubsetsByElement`). `FoldExists` shows in this way that a recursive definition has
a solution on any number of elements, `FoldDefined` that a fold is such a solution, `FoldStays`
and `FoldRuns` what it keeps; `SumRules` are the rules of sums of the books. `MarketProofs`
does the same for the grouping of bars into weeks.

### Model-checked only

The liveness properties `RunEnds`, `EmergencyHeeded`, `LotsBecomeLiquid`, `DeskStartupEnds`, `RestartEnds` and
`AlertsDelivered`: they rest on weak and strong fairness, and the provers have no rule for
`ENABLED`. TLC checks them on the instances above. The violated properties of the runs are, of course, not theorems.

## 7. Reading the modules

Every operator named `<Definition>_<Change>` (`CheckFloorHit_GapCounts`, `WriteFails_Logged`, ...) is a
seeded fault: a form of the definition below it that a plausible bug would
give. The specifications never use them. Each is there to show that the property
it is paired with in `PROJECT.json` notices the bug when it takes the definition's place.

`MCDesk` holds the constants of the desk runs that a `.cfg` cannot write: records of bars,
setups, limits and readings.

## 8. Not modelled

- **Market data service, broker clients** (`internal/service/market_data_service.go`, `internal/api`): a map of
  latest quotes behind a lock, and single HTTP calls; what a failed call does is modelled at its callers.
- **Indicators, statistics** (`internal/statistics`, `internal/ml`, the averages of `internal/data`): floating-point
  formulas without state, order or concurrency. A model on scaled integers would check its own rounding.
- **HTTP API, watchlist, users, JWT, configuration**: single-statement reads and writes, and plumbing of requests.
- **Bot reports** (`settlement_reports.go`, `settlement_alerts.go`, `bot_service_status.go`): texts about what others hold.
- **`ml-service` models, training, daily jobs**: numerical and I/O. **Python position manager**: see section 1. **`news-parser`**: collects text. **gRPC stubs** of `src/proto`: generated.
- Parts of modelled components: prices, averages and fees of the ledger, edits and deletions of entries,
  `PartialExit` of `position_service.go`; `SettlementTracker`, the in-memory twin of the job that nothing uses; stop rules of short
  positions, which no caller opens; partial fills by volume and ratios of the backtest; `otpChans`, which nothing fills.
- Six hazards have no property, each for a reason `PROJECT.json` gives: no text of the repository says what is right (the trigger of
  migration 000013 that adds up closed positions, the redirected keyboards of `/import`, weeks without a Friday), or the code promises
  nothing (the first run of the settlement tool without `-force`, additions after a snapshot), or every
  property would be vacuous (the CHECK of migration 000016).
