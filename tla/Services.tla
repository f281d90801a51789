------------------------------ MODULE Services ------------------------------
(***************************************************************************)
(* The services around the trading core: an instance of each of them, told *)
(* apart by part.  They share no state, so one of them moves in a          *)
(* behaviour and the others stay as they begin: what holds of all          *)
(* behaviours here holds of each service for itself.                       *)
(***************************************************************************)
EXTENDS ExchangeService

CONSTANTS
    All, None,
    \* OrphanOrders, with its own positions and strategies
    OrphanPositions, OrphanStrategies, OrphanStrategyOf, OrphanSideOf, LongOf, ShortOf,
    LighterAccounts, ActiveStrategies, OrphanGuarded, Left, Stale, BandOf, Placers, MaxPending,
    \* MarketData
    Symbols, Browsers, Askers, OpenSymbols, CacheMaxAge, RedisTtl, MaxLag,
    \* SyncRounds
    Rounds, Reconciled, Watchdog, Pause, RefreshEvery, PartialFaults,
    \* LighterAdapter
    Openings, MarketOf, ModeOf, LeverageOf, Markets, DefaultMode, DefaultLeverage,
    CacheLife, MaxLoad,
    \* BinanceAdapter
    Orders, Conditionals,
    \* PositionService
    Positions, Directions, StrategyOf, SideOf, Existing, Scopes, Closers, Repairers,
    Auditors

VARIABLES
    part,
    \* OrphanOrders
    status, live, gone, row, exId, place, closing, scan, late, spared,
    \* MarketData
    watchers, connected, subscriptions, monitored, priceMap, redis, redisUp,
    flights, ask,
    \* SyncRounds
    running, startedAt, paused, due, unserved, resets, round, openRow, held,
    orders, notGone,
    \* LighterAdapter
    preferred, marketAge, setting, opening, opened, entry, overlapped, refused,
    \* BinanceAdapter
    book, request, lateCancels, canceled,
    \* PositionService
    positionRow, creating, pool, tp, sl, placing, req, watch, shaken

Orphan == INSTANCE OrphanOrders WITH
    Positions <- OrphanPositions, Strategies <- OrphanStrategies,
    StrategyOf <- OrphanStrategyOf, SideOf <- OrphanSideOf, Guarded <- OrphanGuarded
Market == INSTANCE MarketData WITH Callers <- Askers
Sync == INSTANCE SyncRounds WITH Positions <- Reconciled
Legs == INSTANCE LighterAdapter
Books == INSTANCE BinanceAdapter WITH call <- request, late <- lateCancels
Batches == INSTANCE PositionService WITH
    Sides <- Directions, row <- positionRow, opening <- creating

\* Rounds in flight are finitely many, and so are the positions they read; the
\* watchdog and the pause are times.
ASSUME ClockAssumption ==
    /\ Watchdog \in Nat /\ Pause \in Nat
    /\ IsFiniteSet(Rounds) /\ IsFiniteSet(Reconciled)

\* CACHE_MAX_AGE_MS is 5 s and the keys in Redis live for 30 s.
ASSUME LivesAssumption ==
    /\ CacheMaxAge \in Nat /\ RedisTtl \in Nat \ {0} /\ MaxLag \in Nat
    /\ CacheMaxAge <= RedisTtl /\ OpenSymbols \subseteq Symbols

\* Strategies are created one after another, so some of any are the oldest; on
\* Lighter a strategy has two accounts (validateApiConfigBinding).
ASSUME OrphanAssumption ==
    /\ 0 \notin OrphanPositions
    /\ OrphanStrategyOf \in [OrphanPositions -> OrphanStrategies]
    /\ OrphanSideOf \in [OrphanPositions -> {"LONG", "SHORT"}]
    /\ OrphanGuarded \subseteq OrphanPositions
    /\ DOMAIN Left \subseteq OrphanPositions \ OrphanGuarded
    /\ \A p \in DOMAIN Left : Left[p] \in {"PENDING", "CANCELED"}
    /\ ActiveStrategies \subseteq OrphanStrategies
    /\ \A s \in OrphanStrategies : LongOf[s] \in LighterAccounts => ShortOf[s] # NoAccount
    /\ \A some \in SUBSET OrphanStrategies :
         some # {} => \E s \in some : \A u \in some : s <= u

ASSUME LegsAssumption ==
    CacheLife \in Nat /\ MaxLoad \in Nat /\ MarketOf \in [Openings -> Markets]

ASSUME BatchAssumption ==
    IsFiniteSet(Positions) /\ Existing \subseteq Positions /\ All \notin Strategies

orphanState == <<status, live, gone, row, exId, place, closing, scan, late, spared>>
marketState == <<watchers, connected, subscriptions, monitored, priceMap, redis,
                 redisUp, flights, ask>>
syncState == <<running, startedAt, paused, due, unserved, resets, round, openRow,
               held, orders, notGone>>
lighterState == <<preferred, marketAge, setting, opening, opened, entry,
                  overlapped, refused>>
binanceState == <<book, request, lateCancels, canceled>>
positionState == <<positionRow, creating, pool, tp, sl, placing, req, watch, shaken>>

servicesVars == <<part, cacheVars, orphanState, marketState, syncState,
                  lighterState, binanceState, positionState>>

Services == {"exchange", "orphans", "market", "sync", "lighter", "binance",
             "positions"}

ServicesInit ==
    /\ part \in Services
    /\ CacheInit /\ Orphan!OrphanInit /\ Market!MarketInit /\ Sync!SyncInit
    /\ Legs!LighterInit /\ Books!BinanceInit /\ Batches!PositionInit

ServicesNext ==
    /\ UNCHANGED part
    /\ IF part = "exchange" THEN CacheNext ELSE UNCHANGED cacheVars
    /\ IF part = "orphans" THEN Orphan!OrphanNext ELSE UNCHANGED orphanState
    /\ IF part = "market" THEN Market!MarketNext ELSE UNCHANGED marketState
    /\ IF part = "sync" THEN Sync!SyncNext ELSE UNCHANGED syncState
    /\ IF part = "lighter" THEN Legs!LighterNext ELSE UNCHANGED lighterState
    /\ IF part = "binance" THEN Books!BinanceNext ELSE UNCHANGED binanceState
    /\ IF part = "positions" THEN Batches!PositionNext ELSE UNCHANGED positionState

ServicesSpec == ServicesInit /\ [][ServicesNext]_servicesVars

----------------------------------------------------------------------------
\* Every service keeps its types: records of its requests in flight are
\* complete, and no count (of signers, contracts, rounds) leaves its range.
ServicesTypeOK ==
    CASE part = "exchange" -> CacheTypeOK
      [] part = "orphans" -> Orphan!OrphanTypeOK
      [] part = "market" -> Market!MarketTypeOK
      [] part = "sync" -> Sync!SyncTypeOK
      [] part = "lighter" -> Legs!LighterTypeOK
      [] part = "binance" -> Books!BinanceTypeOK
      [] part = "positions" -> Batches!PositionTypeOK

\* Housekeeping takes no guard and leaves no orphan.
HousekeepingIsTrue == Orphan!HousekeepingIsTrue

\* What is watched is refreshed, and what is decided on has a greatest age.
PricesAreFresh == Market!PricesAreFresh

\* No round that hangs stops the reconciliation, and none piles up.
RoundsGoOn == Sync!RoundsGoOn

\* A round closes, in the database, only what is gone at the exchange, if no
\* account answers while the other fails.
ClosedMeansGone == Sync!ClosedMeansGone

\* A leg is opened with the settings of its own strategy, at a recent price.
LegsAreAsSet == Legs!LegsAreAsSet

\* Lists and cancels over the two books of Binance hide nothing.
OrdersAreSeen == Books!OrdersAreSeen

\* Batches do what they report.
BatchesAreTrue == Batches!BatchesAreTrue

============================================================================
