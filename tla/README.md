# A TLA+ model of HermesX

HermesX trades USDT perpetual futures by *cycle hedging*: every few minutes a
strategy opens a LONG and a SHORT position of the same quantity `Q` and gives
each its own take-profit (TP) and stop-loss (SL) order. In hedge mode the
exchange merges all positions of one direction into one quantity, while the
database keeps one row per cycle, so everything the program does with a
position is an attempt to keep the two views together without locks, with two
non-OCO conditional orders per position, and with a periodic reconciliation
that infers fills from what is *missing* on the exchange's order book.

This directory holds TLA+ modules of that program, the TLC configurations that
check them, and TLAPS proofs. `PROJECT.json` relates every definition to its
source lines, every run to the properties it checks, and every property to a
plausible bug (a "mutant", defined next to the operator it replaces) that breaks
it.

## 1. The system

| Part | State it keeps | Operations | Model |
|---|---|---|---|
| `order.service` | `positions`, `orders` rows (DB) | open, place TP/SL, replenish, close, sync a fill, cancel; scan for orphans, clean up, free room on Lighter | `OrderService`, `OrphanOrders` |
| `tpsl-monitor.service` | `syncRunning`, `rateLimitedUntil` | 10 s cron reconciliation, manual reconciliation, local price check | `TpslMonitor`, `SyncRounds` |
| exchange account | merged contracts, conditional orders | market orders, conditionals, triggers | `Venue` (external) |
| `strategy-engine`, `strategy.service`, `system.service` | `strategies` rows, cron registry | cycles, start/pause/update/remove, emergency stop, boot | `StrategyEngine` |
| `risk.service` | breaker, parameters | check before opening, trigger, reset, parameters | `RiskService` |
| `exchange.service`, `api-config.service` | adapter cache, `api_configs` rows | create adapter, clear cache, edit configurations, bind them to strategies | `ExchangeService` |
| `lighter.adapter` | preferred leverage and margin mode, list of markets, a signer | set up and open a leg, orders by two ids | `LighterAdapter`, `OrphanOrders` |
| `binance.adapter` | none; two books of orders at the exchange | place, list, cancel | `BinanceAdapter` |
| `market.service`, `market.gateway` | subscriptions, prices in memory and in Redis | subscribe, unsubscribe, refresh, get a price | `MarketData` |
| `position.service` | none of its own | close all, place missing TP/SL, reconcile; single requests go to the core | `PositionService`, `OrderService` |
| `backtest-engine.service` | positions, trades, sums and equity curve of one replay | `run` | `BacktestEngine`, `BacktestCosts` |
| `backtest.service` | job and result rows (DB), `runningCount` | create, execute, delete | `BacktestJobs` |
| `kline-fetcher`, `sample-split`, `grid-search` | candles in Redis | page candles, split samples, rank a grid and run its best again | `BacktestSamples` |
| `frontend`, page of the backtests | queries in flight and their answers, the form | list, select, run again, create, delete | `BacktestPage` |
| `account`, `stats`, `auth`, encryption | none that moves | read-only queries, pure functions | not modelled |
| `frontend`, the other pages | none the trading depends on | lists and requests | not modelled |

The parts run in one Node process. They call each other directly; concurrency
comes from `await`: HTTP requests, cron jobs and cycles are call chains that
interleave whenever one of them waits for the database or the exchange. There
is no lock; the only guards are status reads at the start of an operation and
the `syncRunning` flag. The exchange moves on its own. What is hard is therefore
(a) decisions on stale reads, (b) two chains doing the same thing, (c) writes at
the end of long chains, (d) inference from absent data, (e) partial failure in
the middle of a chain, (f) loss of in-memory state on a restart. `PROJECT.json`
lists each such hazard at its line.

## 2. Modules
### The trading core: `Venue`, `OrderService`, `TpslMonitor`, `Trading`, `PositionLedger`

`Venue` is the exchange account as the code uses it, for one symbol and one
direction: `contracts` (in units of `Q`; all positions have the same quantity),
the state of each conditional order (`venue`), and the price class it was placed
at (`band`: orders of one type in one class are within the fingerprint
tolerance of each other, orders of different classes are not). A triggered order
takes `Q` if `Q` is left, else it is rejected and vanishes. `opened` and `sold`
are history variables.

`OrderService` has the database (`status`, `priced`, `entry`, `row`, `exId`) and
`task`, the call chains in flight. A chain is a record: a program counter, the
position, the reason, and the locals that survive an `await` (the rows read, the
book fetched, the orders claimed). Each action is the work between two awaits
that touches the exchange or the database:

| Code | Actions |
|---|---|
| `openPosition` | `OpenMarket`, `OpenSave`, `OpenUntracked` (no fill price: contracts without a row) |
| `placeTpSl`, `placeConditionalOrClose` | `PlaceTicker`, `PlaceTp`, `PlaceSl`, `PlaceRow`, `PlaceDone` |
| `replenishTpSl` | `Replenish`, then the cancel and place chains |
| `closePosition`, `trySyncIfExchangeFlat` | `CloseRequest` or `CloseRead`, `CloseMarket`, `CloseFlat`, `CloseSave` |
| `cancelPendingOrders`, `findAndHealOpenConditional` | `CancelRead`, `CancelBook`, `CancelNext` (with `Matches`, `Heal`), `CancelMark` |
| `syncClosedByConditionalFill` | `SyncApply` (its read), `FillRow`, `FillSave`, then the cancel chain |

`TpslMonitor` adds `sync`, the locals of a reconciliation round: `SyncBook`,
`SyncContracts`, `SyncClassify` (one position, TP then SL, with healing),
`SyncAbsorb` (both orders gone), `SyncApply`, `SyncOrphan`. A cron round walks
over all strategies; a manual round does one and then cancels orphan rows.

`Trading` composes them with the exchange's own moves and states the properties.
The same `closePosition` chain serves a user, close-all, the local automatic
close of the monitor and the -2021 fallback of `placeTpSl`; they differ in
`reason` and in what starts them.

Failures are values of the constant `Faults`; each run names the ones that may
occur. Simplifications, all in the direction of fewer interleavings: the write
of a healed id is one step with the cancel that follows it; `fetchOpenOrders` is
one snapshot though the adapter makes two calls; the round's refresh of the book
after every fifth planned fill is left out (no instance plans five); database
calls do not fail; one leg of one symbol is modelled, since legs share nothing
in hedge mode.

What makes the core correct: a fill is recorded only if it happened
(`HitOnlyIfTriggered`) and every fill is recorded in the end
(`TriggerIsSettled`); the two writes of a fill belong together
(`FilledIsSettled`); a late write reopens nothing (`ClosedIsFinal`); what is
closed leaves no order that would later close another cycle (`NoResidue`); what
is open keeps both its guards whatever happens to other cycles (`StaysGuarded`).

`PositionLedger` is the abstract specification of all this: what the rows of the
positions promise of one leg of an account, with no chains, orders or rounds. A position is
bought once (`Buy`) and recorded once (`Record`); a conditional of it triggers (`Hit`), a close of
it sells (`Sell`) or is told that nothing is left to sell (`FindFlat`); and its row leaves OPEN
only for one of these three (`SettleHit`, `SettleSale`, `SettleFlat`), never to return. `Trading`
implements it (`KeepsLedger`) under the mapping `Ledger`: `hits` are the triggered orders, `sales`
and `flats` the positions whose close has sold, or found nothing, and is yet to be
saved. It would be broken by saving a close that failed at the exchange, or by taking a book
that could not be fetched for an empty one.

### The strategies: `RiskService`, `StrategyEngine`

`RiskService` is the gate every cycle passes: the circuit breaker with its
cool-down, the loss counter (which nothing in the code feeds), the position
limit in memory (`limit`) and in
`system_settings` (`savedLimit`). `StrategyEngine` extends it with the
`strategies` rows (`exists`, `active`, `st`), the scheduler registry (`cron`), the
open positions of the database and of the account (`legs`, `held`), and everything
that is in flight:

| Code | State | Actions |
|---|---|---|
| `executeCycle` | `cyc[c]`: one slot per execution in flight, because nothing keeps a slow cycle from overlapping the next cron firing | `CycleFire`, `CycleRead`, `CycleMark`, `CycleBreaker`, `CycleCount`, `CycleFunds`, `CycleOpen`, `CycleSave`, `CycleEnd`, `CycleFail` |
| `registerStrategyCron` | `cron`, and `late`: its write of RUNNING that nobody awaits | `Register`, `LateWrite` |
| `StrategyService`, `SystemService`, `RiskService` behind their controllers | `req[r]`: one administrator's request in flight | `CreateStart/Write`, `UpdateStart/Write`, `StatusStart/Write`, `Schedule`, `RemoveStart/Delete`, `StopStart/Read/Next/Write/List/Close/Done`, `ParamsStart/Save`, `ResetRequest` |
| `loadActiveStrategies` after a start | `boot` | `Restart`, `BootRead`, `BootNext`, `BootWrite`, `BootDone` |
| `cleanupStrategies`, `runtimeMonitor` | | `Cleanup`, `Timer` |

A *group* is one cycle's pair of legs. How a leg is opened, protected and closed
is `Trading`'s subject, so here a leg opens (or fails) in two steps, the order and
its row, and closes in one. Checks of money (notional, margin, the rounding of
the quantity) decide only whether a cycle goes on, so they are a free choice
(`CycleFunds`). `stopper` is a history variable for what an emergency stop may
promise: it is the request that has read the active strategies while nothing was
activating any, becomes `Done` when that request ends, and is withdrawn as soon as
somebody activates a strategy or the process restarts.

What makes the engine correct: overlapping cycles exceed the position limit by
no more than the legs they had already been granted (`LegLimit`); a stop is
final (`StopIsFinal`); what the table calls active is scheduled
(`ActiveIsScheduled`); no crash or error leaves a strategy stuck (`OpeningEnds`,
`KeepsTrading`).

### The backtests: `BacktestEngine`, `BacktestCosts`, `BacktestJobs`

`BacktestEngine` is `run`: one bar is `ReadBar`, `Exits`, `OpenCycle` or
`SkipCycle`, `Sample`; after the last one `CloseRest` and `Finish` (or `NoBars`).
The time of a bar is its index, since the fetcher sorts candles by distinct
timestamps. The open legs and the trades are sets, told apart by the number of
the bar that opened them and their side. Prices and money are integers and a
percentage is a floor division, so rounding to decimals is left out; the
identities between the sums must hold under either arithmetic.

`BacktestCosts` runs two replays of the same candles in lockstep, one with fees
and slippage and `Free`, an instance of `BacktestEngine` whose rates are 0. That
is the comparison a user makes; each replay decides for itself whether it can
afford a cycle.

`BacktestJobs` is the service around it. A job has a row (`status`, `results`, the
number of result batches stored) and an execution (`exec`), which starts after
`create` has answered (`setImmediate`) and whose steps are its awaits:
`ExecStart`, `ExecMark`, `ExecRead`, `ExecFetchFails`, `ExecStore`, `ExecComplete`,
`ExecFail`, `ExecFinally`. `create` and `remove` are two steps each. A `Restart`
empties the process: executions become `lost` and nothing takes them up. A
database call fails only if its row is gone. A replay, and the storing of one
batch, is one step.

What makes them correct: a replay loses and doubles nothing (`LegsAccounted`,
`CycleLimit`), exits at the first touch, the pessimistic one first
(`ExitsAtFirstTouch`), its sums agree (`BooksBalance`, `CostsExplained`), costs
take away from every leg and change no exit (`CostsNeverHelp`, `SameExits`), a
new cycle leaves the margin covered (`MarginCovered`), and the curve spans the
run (`CurveSpansRun`). The count of executions is true however they end
(`CountIsTrue`), what is shown as COMPLETED is whole and what is deleted stays
deleted (`ResultsAreWhole`), and a job is unfinished only while something works
on it (`UnfinishedIsAlive`, `JobsEnd`).

`BacktestSamples` is what a job computes from: `fetchRange` with its cache in Redis
(`ReadCache`, `ReadPage`), while time passes and candles come into being (`Passes`);
the windows of a split (`RunSingle`, `InSample`, `OutSample`); the ranking of a grid and
the second run of its best (`RunGrid`, `RerunStart`, `Rerun`). A combination is a
number and its score is free. `SamplesAreFair` says that a fetch is whole
(`CandlesAreWhole`), that no candle is in both windows (`NoLookAhead`), and that
out of the sample the best combinations are run, in order (`BestAreRerun`).

`BacktestPage` is the page of the frontend: the list and the selected job as
queries of react-query (one request per key in flight, polled every 2 s while
something runs; `Poll`, `PollList`, the answers `Get...`, `List...`), the mutations
(`handleSubmit`, `Create...`, `Delete...`), and the form, filled from a job that
is clicked (`handleSelectJob`, `applyJobToForm`) and from the defaults of the
server when they arrive (`MetaArrives`). `PageIsTrue`: a job run again from the
form is the job that was (`RerunIsTheJob`), the list agrees with what the page was
told (`ListIsTrue`), no late answer takes a status back (`ShownGoesForward`).

### The services: `ExchangeService`, `OrphanOrders`, `MarketData`, `SyncRounds`, `LighterAdapter`, `BinanceAdapter`, `PositionService`

Each of them shares little with the others, so each is a module of its own,
at the grain at which its own hazard bites; what it needs of the others is a
free choice, or an action named for what they do.

| Module | Code | Actions |
|---|---|---|
| `ExchangeService` | `getAdapterForStrategy` and its kin, `createAdapter` | `ResolveSide`, `DefaultConfig`, `ResolveConfig`, `Create`, `CreateAfterInit` |
| | `ApiConfigService` and `clearCache` | `CreateConfig`, `EditStart`, `UpdateWrite`, `RemoveWrite`, `ClearCache` |
| | `validateApiConfigBinding` in create and update of a strategy | `BindStart`, `BindCheck`, `BindWrite` |
| `OrphanOrders` | `checkOrphanOrders`, `cleanupOrphanOrders` | `ScanStart`, `ScanRows`, `ScanBook`, `ScanMatch`, `ScanGroupEnds`, `ScanEnds`, `CleanExchange`, `CleanDb`, `CleanEnds` |
| | `freeUnmatchedLighterConditionals`, `placeOrder` on Lighter | `PlaceStart`, `FreeBook`, `FreeRows`, `FreeMatch`, `FreeCancel`, `PlaceSend`, `PlaceRow` |
| | `cancelPendingOrders`, `closePosition`, Lighter's `cancelOrder` | `CancelPending`, `ClosePosition`, `CloseCancels`, `Answers` |
| `MarketData` | `MarketGateway` | `Connect`, `Subscribe`, `Unsubscribe`, `Disconnect` |
| | `refreshPrices`, `getPrice` | `Refresh`, `RefreshArrives`, `RefreshFails`, `Ask`, `AskRedis`, `AskSend`, `AskArrives`, `AskFails` |
| `SyncRounds` | `syncExchangeFills`, `handleRateLimitError` | `CronFires`, `Ends`, `Fails`, `ManualFires` |
| | `syncStrategyGroup` | `Begin`, `RoundReads`, `RoundLists`, `RoundAsks`, `RoundPlans`, `RoundApplies`, `RoundApplyFails`, `RoundRefreshes`, `RoundEnds` |
| `LighterAdapter` | `setMarginMode`, `setLeverage`, `placeOrder`, `fetchTicker`, `loadMarkets` | `SetMarginMode`, `SendSetting`, `SettingAnswered`, `SendOrder`, `OrderAnswered`, `Quote`, `LoadArrives`, `LoadFails` |
| `BinanceAdapter` | `fetchOpenOrders`, `cancelOrder`, `withTimeout` | `ListStart`, `ListRegular`, `ListAlgo`, `ListFails`, `CancelStart`, `CancelRegular`, `DeleteAlgo`, `CancelTimesOut`, `LateCancel` |
| `PositionService` | `closeAll` | `CloseAllStart`, `CloseNext`, `CloseAtMarket`, `CloseSave`, `CloseAllEnds` |
| | `placeTpSlMissing` | `RepairStart`, `RepairNext`, `RepairCancel`, `RepairPlace`, `RepairEnds` |
| | `reconcile` | `CompareStart`, `Compare`, `CompareEnds` |

The properties speak of history where the code can only promise something of
undisturbed steps: `raced` are configurations edited while a caller of
`createAdapter` held the old row, `moved` are strategies whose accounts were edited
after the check, `late` are guards that had no row when rows were read, `spared` are
cancels that failed, `overlapped` are legs set up while another one was, `watch` is
what a reconciliation could have seen.

What makes them correct: the cache has the adapters of the present rows and one
signer for each (`AdaptersAreCurrent`); the legs of a strategy never share a Lighter
account (`LegsApart`); housekeeping takes no guard of an OPEN position, leaves no
orphan, and says CANCELED of what is dead (`HousekeepingIsTrue`); what is watched is
refreshed and what is decided on is recent (`PricesAreFresh`); a round that hangs
stops nothing and rounds do not pile up (`RoundsGoOn`); what a round closes is gone
at the exchange (`ClosedMeansGone`); a leg is opened as its strategy is set
(`LegsAreAsSet`); no order is lost between the two books (`OrdersAreSeen`); batches do
what they report (`BatchesAreTrue`).

`Services` composes an instance of each of these modules, for any values of their
constants; `MCServices` only gives values. The instances share no variable; `part`
chooses the one that moves, so a run explores the sum of their states and not the
product, and a behaviour of `Services` is one of each service (the `...Run` lemmas of
section 5). `Backtests` composes `BacktestCosts` (the two replays) with instances of
`BacktestSamples` and `BacktestPage` in the same way, and `MCBacktests` gives the values.

## 3. Runs

| Run | What it shows |
|---|---|
| `MonitorSettles` | One cycle is open, a second one is being opened, a fair cron reconciles, orders trigger at any time; a fill price, the other leg, a placement or a cancel may fail. `TypeOK`, `FilledIsSettled`, the refinement `KeepsLedger`, and the liveness `TriggerIsSettled`. |
| `TwoSyncers` | The cron round and a manual round work on two strategies of one account at once: `HitOnlyIfTriggered`. |
| `CloseCancels` | A user close and the monitor's own close race a round, with closes, books and position queries failing: `NoResidue`, `StaysGuarded`, and the refinement `KeepsLedger`. |
| `ReplenishKeeps` | A replenish races a round: `StaysGuarded`. |
| `ReplenishCloses` | A replenish that ends in a market close races a user close: `StaysGuarded`, `ClosedIsFinal`. |
| `ExactQuantityBroken` | **Violated**: two closes of one position sell `2 Q` (section 6). |
| `EngineLimits` | Two overlapping cycles, early requests, stops, pauses, limit changes, the breaker: `EngineTypeOK`, `LegLimit`, `StopIsFinal`. |
| `EngineProgress` | All seven kinds of request, failing calls and a restart anywhere: `ActiveIsScheduled`, and the liveness `OpeningEnds` and `KeepsTrading`. |
| `StopOvertaken` | **Violated**: a cycle past its checks opens after the stop has listed what to close. |
| `Replays` | All replays of up to five bars from seven candles, with costs and without: `CycleLimit`, `LegsAccounted`, `ExitsAtFirstTouch`, `BooksAreTrue`, `CostsOnlyCost`. One job on up to seven candles, two to a page, the second one missing, with and without a split and a grid: `SamplesAreFair`. The page with two jobs and three clicks: `PageIsTrue`. `ComputeTypeOK` for all. |
| `Jobs` | Two jobs, two requests, two restarts, failing fetches, deletes under executions: the five job properties. |
| `Services` | An instance of each of the seven services of section 2: `ServicesTypeOK` and the nine properties named there. |

A property that joins several parts (`BooksAreTrue`, `HousekeepingIsTrue` and the like)
is a conjunction of named ones, each stated in the component's module and each with
a mutant of its own.

Bounds, and why they are enough:

- `Positions` = 2 and one leg: what goes wrong in the core goes wrong between a
  cycle and *one* other cycle of the same merged contracts. `MaxGen` is how many
  conditionals of a type a position may be given: 1 without replenishing, 2 with.
  `Bands` are the price classes; each position has one of its own
  (`MarkBands`), which is the assumption of the fingerprint itself.
- `MaxRuns` = 1 bounds the requests of each requester of the core, 2 those of
  the administrator: two requests are enough for one to follow on another, and
  requesters overlap with rounds and cycles, which are unbounded.
- `Groups` are the pairs that may be open at once; with none left an order fails,
  as one without margin does, so the bound only adds failures. Two slots in
  `EngineLimits` are what makes cycles overlap; `LegLimit` grows with their
  number, and section 5 proves it for any. Groups are symmetric (no temporal
  property that needs fairness is checked under the symmetry).
- `MaxRestarts` = 1 (engine) allows one crash at any step, 2 (jobs) a crash of
  what was created after a crash. `Limits` = {1, 2} lets the parameter move either
  way, and the saved limit lag behind the one in memory.
- `EarlyRequests`: TRUE lets requests come before the strategies are loaded. It is
  FALSE where `ActiveIsScheduled` is checked, which is false otherwise (section 7).
- `MaxBars` = 5 and `MaxPoints` = 4: six samples are thinned to four, including
  the case in which the last one falls out. `Balance` = 2300 pays for a second
  cycle in the free replay that the one with costs cannot open; `MaxPositions` = 2
  makes both gates refuse. The candles touch no price, one, both, and open past one;
  the candle at 2000 rounds the quantity to 0.
- `MaxConcurrent` = 1 in `Jobs` makes a refused creation reachable; the kinds are
  the shape with one batch of results and the one with several (`TopN` = 2).
- `Services`: a strategy with two Lighter configurations and a Binance one, two callers,
  one administrator, `MaxEdits` = 2 (one edit between another's read and write). Three
  guards, one of them left by a crash and one new, `MaxPending` = 2 orders per market,
  one placer beside one scan. One symbol, two browsers, one caller; ages up to
  `CacheMaxAge` = 1, `RedisTtl` = 2, `MaxLag` = 1 in periods: each limit can be met and
  passed. Two rounds, and a watchdog and a pause of two periods, so that a second round can
  start over a hanging one. Two legs in two markets of one account. Two orders, one of them
  conditional. Two positions of a side, one of them opened meanwhile.
- `Replays`: `Limit` = 2 candles to a page and `MaxPages` = 3 make pages full, short and
  empty, `CacheLife` = 2 lets the cache run out; grids of three with `TopN` = 2.
  The page begins with one running grid whose configuration lacks costs and lists;
  `MaxClicks` = 3 is an edit, a selection and a submission, or a submission, a
  selection and a deletion; `Zone` = 1 is a browser an hour ahead.

Deadlock is checked in every run of the core and the engine: `Rest` stands for a
process that waits for the next request, only when nothing is in flight. A replay
ends, and so do the bounded jobs and the bounded services; there the check is off.

## 4. Fairness

The liveness properties assume only what the scheduling gives:

- a call chain in flight is resumed when its promise settles (`WF` on `Step`,
  `CycleStep`, `RequestStep`, `LateWrite`, `BootStep`, on the calls of a job). The Binance
  adapter cuts the reads of the book and the cancels off after 15 s (`withTimeout`);
  of the other calls it is assumed that the client library and the database answer or fail;
- cron jobs fire again and again (`WF` on `CronSync`, on `CycleFire` and the hourly
  `Cleanup`). A firing is an action on its own: what it meets is up to the rest.

`Replays` and `Services` check safety only and assume no fairness. "Goes on" in
`SyncGoesOn` is a bound on the periods without a round, not a liveness property.

Nothing is assumed of users, prices, triggers, failures or restarts. Weak fairness
is enough because a chain in flight is disabled by nothing but its own steps.
`TriggerIsSettled` lets the monitor fail on contracts no row knows of (`Untracked`,
left by `OpenUntracked`): they hide a missing quantity for good.

## 5. Proofs

TLAPS proves the following for every value of the constants, under the
assumptions named in the modules (all evaluated by TLC in the runs):

| Module | Theorem | Invariant |
|---|---|---|
| `TradingProofs` | `TypeCorrect`: `Spec => []TypeOK` | `TypeInv` |
| | `FilledRowsAreSettled`: `Spec => []FilledIsSettled`; `ClosedStaysClosed`: `Spec => ClosedIsFinal` | `RecordInv` |
| `GuardProofs` | `PositionsStayGuarded`: `Spec => []StaysGuarded`; `HitsAreReal`: `Spec => []HitOnlyIfTriggered` | `GuardInv` |
| | `NothingIsLeft`: `Spec => []NoResidue` | `ResidueInv` |
| | `CoreKeepsLedger`: `Spec => KeepsLedger`, that is `Spec => Ledger!LedgerSpec` | `GuardInv` |
| `StrategyEngineProofs` | `EngineTypeCorrect`: `Spec => []EngineTypeOK` | `TypeInv` |
| `EngineSafetyProofs` | `LegsStayLimited`: `Spec => []LegLimit` | `LimitInv` |
| | `EmergencyStopIsFinal`: `Spec => StopIsFinal` | `StopInv` |
| | `ActivesAreScheduled`: `Spec => []ActiveIsScheduled` | `ScheduleInv` |
| `BacktestProofs` | `CyclesStayLimited`: `Spec => []CycleLimit`; `LegsAlwaysAccounted`: `Spec => []LegsAccounted` | `LimitInv`, `AccountInv` |
| | `LegsExitAtFirstTouch`: `Spec => []ExitsAtFirstTouch` | `TouchInv` |
| | `CostsStayCosts`: `ComputeSpec => []CostsOnlyCost` | `CostInv` |
| | `SamplesStayFair`: `ComputeSpec => []SamplesAreFair` | `SamplesInv` |
| | `PageStaysTrue`: `ComputeSpec => []PageIsTrue` | `PageInv` |
| | `BooksStayTrue`: `ComputeSpec => []BooksAreTrue` | `FairInv`, `BookInv`, `CurveInv` |
| | `ComputeTypesStay`: `ComputeSpec => []ComputeTypeOK` | these, `ShapeInv`, `SamplesInv`, `PageInv`, `IdInv`, `ShownInv` |
| `BacktestJobsProofs` | `JobsAreWellTyped`, `JobsAreCounted`, `CompletedJobsAreWhole`, `NoJobIsForgotten` | `Inv` |
| `ExchangeServiceProofs` | `AdaptersStayCurrent`: `CacheSpec => []AdaptersAreCurrent`; `LegsStayApart`: `CacheSpec => []LegsApart` | `Inv` |
| `ServicesProofs` | `ReconciliationGoesOn`: `ServicesSpec => []RoundsGoOn` | `ClockInv`, `OverlapInv` |
| | `ClosingIsTrue`: `ServicesSpec => []ClosedMeansGone` | `KnowsInv` |
| | `PricesStayFresh`: `ServicesSpec => []PricesAreFresh` | `AudienceInv`, `PricesInv` |
| | `OrdersStaySeen`: `ServicesSpec => []OrdersAreSeen` | `BinanceInv` |
| | `LegsStayAsSet`: `ServicesSpec => []LegsAreAsSet` | `LegsInv` |
| | `BatchesStayTrue`: `ServicesSpec => []BatchesAreTrue` | `PositionInv` |
| | `HouseIsKept`: `ServicesSpec => []HousekeepingIsTrue` | `OrphanInv` |
| | `ServicesKeepTypes`: `ServicesSpec => []ServicesTypeOK` | those of the services above, `Inv` of `ExchangeServiceProofs`, `CountsInv`, `ListenersOK`, `PoolInv`, `OrphanTypes` |

Some theorems have hypotheses beside the assumptions. They are the restrictions that
section 7 finds the code to need, and no more:

| Hypothesis | Theorems | What it says of a deployment |
|---|---|---|
| `PricesApart`, `TriggersApart` | those of `GuardProofs`, `HouseIsKept` | no two positions of a side have triggers within the fingerprint tolerance |
| `Replenishers = {}` | those of `GuardProofs` | nobody replenishes TP and SL meanwhile |
| `LocalAutoClose = FALSE`, `"immediate" \notin Faults` | `HitsAreReal` | the two callers that close at the market and write TP_HIT or SL_HIT without an order that triggered are switched off |
| `Openers = {}`, `"cancel" \notin Faults` | `NothingIsLeft` | no position is opened while it is closed, and `cancelOrder` does not fail |
| `OneRequest`, `~EarlyRequests` | `ActivesAreScheduled` | one administrator at a time, not before the strategies are loaded |
| `AllOrNone` | `ClosingIsTrue` | the accounts of a round answer together or fail together |
| `Uncrossed` | `HouseIsKept` | no account is the LONG one of a strategy and the SHORT one of another |
| `Buffered` | `BooksStayTrue`, for `MarginCovered` alone | the buffer of 1.2 covers the fees and slippage of a new cycle, and the loss of a leg that stops in its opening bar beside one that stays |

*The core.* `TypeOK` is not inductive: a chain that indexes `row[task[t].cur]` keeps
types only if it works on something. `TypeInv` adds `Working`: a task in the middle of
its work has a position, and where it names a conditional order, one of that
position. `FilledIsSettled` needs three more facts (`RecordInv`): a chain that is about
to save a new position is the only one that knows it (`OpeningIsFresh`), work is done
only on positions with a row (`WorkIsRecorded`), and the order a fill marks is one of the
position it then closes (`FillsOwnRow`). `ClosedIsFinal` follows: the only write of OPEN
is that of a fresh position. `Moves` and `Shape` sum up what any step of any chain may do, so that the
actions are opened once and the invariants are proved over the summary.
Assumed: positions are finitely many numbers, at least one generation of orders,
every position has a price class, faults are among those named, cron rounds among
the rounds.

*Guards and fills.* A round infers a fill from what is missing, so `HitOnlyIfTriggered` and
`StaysGuarded` hold only because of what each chain and each round knows. `GuardInv` says that: a
position has one order of a type in its life, and a row never names an order of another position
(matching and healing find the own one, because prices are apart); a chain that cancels
works on a closed position; what a book that a round has read lacks of the orders it had read before
has triggered, or its position is closed; and what a round plans, or a fill is about to write, is one
of these. `ResidueInv` adds the other half: a live order has a PENDING row, and as long as a closed position
has such rows some chain is cancelling them and has all of them on its list, so once nobody is at
work nothing is left. Each action has a lemma of its own under either invariant; `GuardStep`, `ChainStep` and
`CalmStep` carry over what the action does not touch.

*The refinement.* `CoreKeepsLedger` maps each step to one of the ledger or to a stutter. A
chain that settles has what the ledger asks for: the triggered order by `GuardInv`, the sale or the
empty account by its own program counter, which is why `sales` and `flats` can be read off the
chains. Two closes of a position may both have sold; hence `SettleSale` may keep `p` in `sales`. The
lemmas go by kind of step: those aside of the ledger (`Aside`), a purchase, a record, a trigger,
a sale, a settlement.

*The engine.* `TypeInv` says of every cycle, request and loading in flight that it
works on what it should (`CycleWorks`, `RequestWorks`, `BootWorks`). `LegLimit` holds
because a leg that a cycle may still save counts as much as one in the table:
`LimitInv` bounds the open legs *plus* those `Pending`; counting grants two pending
legs only below the limit, saving turns one into the other. `StopIsFinal` rests on
`StopInv`: what an unfinished stop has not dealt with yet (`LeftTo`) contains every
active strategy, and nothing is activating one. `ScheduleInv` says who still owes an active
strategy its job: the loading, or the one request under way; what is deleted or paused meanwhile
is owed nothing. Assumed: positive limits, finitely
many slots, and that the null values are no strategy, group or request.

*Backtests.* `LimitInv` adds that the legs are finitely many. `AccountInv` adds that
every leg belongs to a bar whose cycle has been decided (`Decided`), so a new pair
differs from all before; `Closes` and the lemma on it cover the exits of a bar,
of an opening bar and at the end alike. `TouchInv` says up to which bar the open legs are known
to be untouched (`Seen`): the bar before the present one while its exits are due, the present one
after. A behaviour of `Backtests` is one of the replay (`ReplayRuns`), so all this holds of the run
too.

`CostsOnlyCost` compares two replays of the same bars, one with fees and slippage and one without.
`CostInv` has a predicate `Fair` of one ledger, that each replay keeps by itself: an open leg is as
its bar and side determine and no bar has touched it yet, and a trade is as its leg and the bar of its
exit determine. `LedgerStep` sums up what a step of either does; the two then have the same trades and differ in
their fills only. A fill is worse by `FillIsWorse`, which needs that a trade price is never negative:
it is one a bar has touched, or its close (`TradePriceIs`).

The sums of `BooksAreTrue` are folds over sets of trades and legs. `MapThenFoldSet` is a recursive
function on the subsets of a set, so what is needed of it is proved by first-order induction on the
cardinality (by the least counterexample): `EngineSums` (the sum of one more element), `TotalOfUnion`,
`TotalOfImage`. `FairInv` is `Fair` of this replay; `BookInv` says that the accumulators are the
sums over the trades and the fees of the open legs, and it is kept because `ClosingIsBooked`, one lemma for the
exits, the opening bar and the end, moves the same trades from the open legs into each sum.
`CurveInv` has one sample per bar, the last of which tells the equity of the books, or is off by the cost of the
closes forced at the end (`CostOf(Forced)`); `Downsample` keeps the first sample, the last time and the
order. `MarginCovered` follows from what `Funded` has found free and from `Taken`, what a leg takes of it in
its opening bar; that this is no more than the buffer is `Buffered`. `ComputeTypesStay` adds the shapes of legs
and trades (`ShapeInv`), and of the page that ids go up (`IdInv`) and what is shown is a job there was
(`ShownInv`).

`SamplesInv` says of a fetch under way that it holds every listed candle before the time it has
come to, and that each page it is through with moved it on by a page's length; hence the guard of fifty pages never cuts one
short, and what is cached is whole. Of the windows, that each is the part of the sample on its side
of the split; of a finished job, that the ranks it has stored are 1 to their number, each once
(`RanksAreTaken`), in the order of the scores (`RanksAreInOrder`, `TopIsBest`). `PageInv` joins four parts: what
the form can hold (`FormInv`), from which job it was filled in and what was typed since (`CopyInv`),
what the list on display was true of (`ListInv`), and what requests under way will answer (`GetsInv`).
Assumed: rates and points of costs are not negative and the slippage is at most 100% (the DTO has
at most 1%); take profit and stop loss are not below -100% (the DTO has at least 0 for a single
run; the lists of a grid are not checked, and a candidate below -100% is outside the theorem); fifty
pages of 1000 candles hold the 10000 that a range may have; a form always has costs; ids are
given in the order of creation; the balance is a whole number, the leverage at least 1, a curve has at
least two points, and a range ends after its start (`validateDto`) and within the horizon of the model.

`Inv` of the jobs joins `TypeOK`, `CountIsTrue`
and `UnfinishedIsAlive` with `Born` (an execution exists from the insertion on, and for no
job that is still to be inserted) and `Stored` (how many batches are there at each
step of an execution); the lemma `Counting` says how a moving execution changes the
cardinality.

*The adapters.* `Inv` of `ExchangeServiceProofs` joins `CacheTypeOK`, `OneSigner`,
`CachedIsCurrent` and `LegsApart` with what each of them rests on: a caller on its way to
the cache holds the present row, or the row was edited meanwhile (`HeldIsCurrent`); only
an adapter without a signer awaits its initialisation, so no signer is ever written over
(`InitIsBinance`); a bound configuration is in the table (`BoundInTable`, the foreign
keys); and what is about to be bound was accepted with the accounts that were read
(`BindIsChecked`). `WriteKeepsAdapters` sums up the three edits of a configuration,
`CallerStep` and `RequestStep` the steps that write nothing. Assumed: configurations have
an exchange and an environment, bindings and updates name configurations and accounts
there may be, and the bindings at first are valid ones.

*The other services* each have an invariant of their own, proved of their own specification; a
lemma (`RoundsRun`, `OrphansRun` and the like) says that a behaviour of `Services` is one of it.
`ClockInv` relates the flag, the watchdog and the pause: while the flag is set, the periods not
served are at most those since it was set, so the bound of `SyncGoesOn` is the watchdog's and one
more; `OverlapInv` counts rounds in flight against the resets of the flag. `KnowsInv` is what a
round knows at each of its awaits. `PricesInv` bounds the age of a price by where it is: in memory,
in Redis (age and remaining life together), or on its way. `BinanceInv` says which orders a list
under way may still miss, `LegsInv` which settings of the account a leg alone in its set-up has
sent, `PositionInv` what a batch has done to those it is through with. `OrphanInv` has three parts:
a row's id is that of its own order; of a placement, what the pass on its account will not claim is
closed or was not known; of a scan, every order that was to be cleaned up is dead, was kept by the
exchange, is reported, or is still to be looked at in some group (`Awaits`). Assumed: the age in
memory is at most the life in Redis (5 s and 30 s in the code), sets are finite, strategies are
created one after the other, and a strategy on Lighter has two accounts (`validateApiConfigBinding`).

`ServicesTypeOK` needs none of the hypotheses of the safety theorems, so its parts are proved without
them. Most follow from the invariants above. What those leave out are ranges of counts and indices:
`CountsInv`, that a round has no more positions to its count than it has taken off its list;
`PoolInv`, that the account never holds more contracts of a side than were bought, which takes that only
`OpenMarket` adds to them (`PoolFalls`); `OrphanTypes`, that an orphan of the kind `"db"` names a row, so
the clean-up never cancels the row 0, which stands for none.

Every safety property of a passing run is proved. Only model-checked are the liveness properties
`TriggerIsSettled`, `OpeningEnds`, `KeepsTrading` and `JobsEnd`, since fairness is beyond this
prover, and the two sentences of section 6 that the code violates.

## 6. What the code and its documents disagree on

Two runs end in a violation, each of a sentence of the repository:

- `ExactQuantityBroken`: README.md:3 promises that the quantity closed is exactly the
  quantity opened. `closePosition` reads the status, awaits the market close, then
  writes; a second close of the same position in between sells another `Q`, out of
  the merged contracts, and so closes a cycle that the database keeps OPEN.
- `StopOvertaken`: 项目书.md:303 promises that one switch stops all strategies and closes
  all positions. A cycle that has passed `checkBeforeOpen` opens both legs after the
  stop has listed the OPEN positions.

## 7. What the properties had to allow for

These facts of the code came up while a stronger property failed. No document
promises otherwise, so the property was weakened, or its run restricted, by
exactly this:

- Two strategies on one account: `excessQty` compares one strategy's open quantity with
  the whole account's contracts, so a position whose orders are both gone may stay
  OPEN for good. `TriggerIsSettled` is checked with one strategy.
- Two conditionals within the fingerprint tolerance of each other are mistaken for
  each other once one of them is gone. `HitOnlyIfTriggered` and `StaysGuarded`
  are checked with prices apart.
- A round that reads the book while a replenish has cancelled one conditional and not yet
  placed its successor takes the gap for a fill. `HitOnlyIfTriggered` is not checked
  beside a replenish.
- A placement of TP and SL that goes on while its position is closed leaves a
  conditional nobody cancels, and a failed cancel leaves one the database calls
  CANCELED. `NoResidue` is checked without them.
- A pause that comes while a cycle is in flight is overwritten by the cycle's RUNNING, and
  a restart takes the status for activity; requests during the loading, or two
  administrators at once, can leave an active strategy unscheduled. A deleted
  strategy leaves its positions at the exchange. The limit counts legs, not pairs; a SHORT leg
  that fails leaves the LONG one alone; the loss counter is fed by nothing.
- Costs take away from every leg, not from the total (docs/backtest.md:69): they may
  keep a replay from opening a cycle that would have lost more.
- `downsampleCurve` may drop the final sample, which has the time of the one before it;
  the curve then ends too high by at most the cost of the forced closes, as
  `CurveSpansRun` says.
- The count of running backtests is compared when a job is created and raised when it
  starts, so three jobs created at once all run, though the comment at
  `backtest.service.ts:40` speaks of keeping them from piling up.
- *Adapters.* `createAdapter` caches a Binance adapter after an await, so one made of
  credentials that were changed meanwhile comes back after `clearCache`
  (`raced`), though the cache was cleared for the new ones to take effect (comment at
  `api-config.service.ts:66`).
- Two strategies of one Lighter account that are set up at the same time open with each
  other's leverage (the preference is the adapter's, comment at
  `lighter.adapter.ts:109`), and `setMarginMode` first sends the leverage of the strategy
  before. `OpensWithOwnSetting` is about legs whose set-up nothing overlapped.
- The entry price of a Lighter leg is the ticker's; where the order book cannot be read
  it is the price of the cached list of markets, under a new timestamp.
  `resolveFillPrice` never corrects it, since it only looks for a missing price.
- Lighter's cancel takes an order that is not found for cancelled, Binance's reports an
  error; `CanceledIsDead` excepts the former (`spared`).
- *Orphans.* The scan of two accounts reads the rows of strategies that use the LONG
  account for either leg or the SHORT account for their SHORT leg
  (`order.service.ts:1003`), not of one whose LONG leg is on the SHORT account. With
  accounts crossed so, orders that guard a position pass for orphans, against the
  comment at line 980; `validateApiConfigBinding` does not forbid crossing. `GuardsAreSpared` is checked
  without, and for positions whose placement the clean-up did not overlap with a close.
- The pass that frees room on Lighter may fail; the order is then sent without it. It lists all
  conditionals of the account but claims them by the rows of one side only
  (`order.service.ts:880`), so it relies on an account of Lighter carrying one side; a strategy's
  own two accounts do (`validateApiConfigBinding`), accounts crossed between strategies do not.
- *Rounds.* With two accounts, one that answers is enough (`anyOk`): a position whose
  account failed to answer, and whose orders the book does not have, is closed in
  the database though it is held, which the comment at `tpsl-monitor.service.ts:281`
  means to prevent. `ClosedMeansGone` is checked where no account answers while the
  other fails.
- *Prices.* A late answer may overwrite a newer price; the monitor's subscription is
  dropped with the last browser's, but `getPrice` then fetches for itself.
- *Positions.* `closeAll` does not close what is opened after its list was read;
  `reconcile` compares one strategy's rows with the whole account.
- The margin buffer of 1.2 in `run` covers neither the fees and slippage of a new cycle at a high leverage nor
  the loss of a leg that stops in its opening bar: with `Leverage` = 20 and `Balance` = 160, in place of
  the values of the run, TLC finds a cycle opened with less equity than margin. `MarginCovered` holds
  where it does (`Buffered`), as in the run.
- *Samples.* A candle that opens before the split and closes after it is in the sample.
  A range that ends in the future is cached, incomplete, for an hour.
- *The page.* The label of the range says UTC (`Backtest.tsx:359`) and a job's range is
  filled in as UTC, but `buildInput` reads the fields in the zone of the browser: a job run
  again is shifted by the zone, once more each time. `RerunIsTheJob` states the shift. A
  field that a configuration lacks keeps the value of the form; the defaults of the
  server, when they arrive late, overwrite the costs of a job already clicked; deleting
  a job clears the selection, whatever is selected by then.

## 8. What is not modelled

- The adapters' wire formats, signatures, balances and candles; `Venue` is what the core
  sees of an account. Retries appear as the failure they end in.
- The checks of money in `checkBeforeOpen` (a free choice); requests that validation
  refuses.
- Restarts of the core's call chains (the loss of a row is there through
  `OpenUntracked`). Positions of different quantities in one account, as a change
  of a strategy's quantity between cycles makes them.
- The services and the core in one state space: `SyncRounds` and `OrphanOrders` restate
  of the core only what their own properties need, and it is not shown that `Trading`
  implements what they assume of it.
- `computeStats` beyond the sums its accumulators keep; order of trades within a bar.
- `getKlines` and the broadcasts of the gateways: they keep no state.
- Accounts, statistics, authentication, encryption: queries and pure functions.
- The pages of the frontend but that of the backtests: they list, and send requests
  the modules of the server take.

## 9. What could follow

1. Restarts of every chain of the core (`Crash` in `Trading`), and `OrphanOrders` as what
   repairs them.
2. For which leverages, fees and slippages of the DTO `Buffered` holds, as a theorem about the candles a market
   can have.
3. The refinement without its hypotheses: a ledger that allows for what a replenish or two
   triggers within the tolerance may do, instead of excluding them.
