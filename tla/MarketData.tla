----------------------------- MODULE MarketData -----------------------------
(***************************************************************************)
(* Prices: MarketGateway counts the browsers that watch a symbol,          *)
(* MarketService keeps the set of symbols it refreshes and the last price  *)
(* of each, in memory and in Redis, and answers getPrice from the first    *)
(* that is good enough.                                                    *)
(*                                                                         *)
(* A price is its age, in ticks of the clock.  Fetches overlap and are     *)
(* answered out of order; the monitor subscribes once, after the start,    *)
(* in the same set as the browsers and without being counted.              *)
(***************************************************************************)
EXTENDS Integers, FiniteSets

CONSTANTS
    Symbols, Browsers, Callers,
    OpenSymbols,    \* symbols with OPEN positions when the process starts
    CacheMaxAge,    \* CACHE_MAX_AGE_MS
    RedisTtl,       \* the EX of both Redis keys
    MaxLag,         \* bound: ticks within which a fetch is answered
    None

VARIABLES
    watchers,       \* symbolSubscribers
    connected,      \* the browsers connected
    subscriptions,
    monitored,      \* history: what the monitor has subscribed
    priceMap,       \* the age of the price in memory, or None
    redis,          \* the age of the one in Redis and the life it has left, or None
    redisUp,
    flights,        \* fetches of refreshPrices in flight
    ask             \* callers of getPrice and getTicker

marketVars == <<watchers, connected, subscriptions, monitored, priceMap, redis,
                redisUp, flights, ask>>

Oldest == RedisTtl + MaxLag + 1   \* bound: older prices are as old as this
Ages == 0..Oldest

IdleAsk == [at |-> "idle"]
Asks ==
    {IdleAsk}
        \cup [at : {"redis", "send"}, symbol : Symbols, cached : Ages \cup {None}]
        \cup [at : {"fetch"}, symbol : Symbols, cached : Ages \cup {None},
              age : 0..MaxLag]
        \cup [at : {"got"}, age : Ages, fallback : BOOLEAN]

MarketTypeOK ==
    /\ watchers \in [Symbols -> SUBSET Browsers]
    /\ connected \subseteq Browsers
    /\ subscriptions \subseteq Symbols /\ monitored \subseteq Symbols
    /\ priceMap \in [Symbols -> Ages \cup {None}]
    /\ redis \in [Symbols -> [age : Ages, left : 1..RedisTtl] \cup {None}]
    /\ redisUp \in BOOLEAN
    /\ flights \subseteq [symbol : Symbols, age : 0..MaxLag]
    /\ ask \in [Callers -> Asks]

MarketInit ==
    /\ watchers = [s \in Symbols |-> {}] /\ connected = {}
    /\ subscriptions = {} /\ monitored = {}
    /\ priceMap = [s \in Symbols |-> None]
    /\ redis = [s \in Symbols |-> None] /\ redisUp = TRUE
    /\ flights = {} /\ ask = [k \in Callers |-> IdleAsk]

prices == <<priceMap, redis, redisUp, flights, ask>>
audience == <<watchers, connected, subscriptions, monitored>>

----------------------------------------------------------------------------
(* Subscriptions.                                                          *)

Connect(b) ==
    /\ b \notin connected
    /\ connected' = connected \cup {b}
    /\ UNCHANGED <<watchers, subscriptions, monitored, prices>>

\* handleSubscribe: the first browser of a symbol subscribes it.
Subscribe(b, s) ==
    /\ b \in connected
    /\ watchers' = [watchers EXCEPT ![s] = @ \cup {b}]
    /\ subscriptions' = IF watchers[s] = {} THEN subscriptions \cup {s}
                        ELSE subscriptions
    /\ UNCHANGED <<connected, monitored, prices>>

\* Mutant: any browser that leaves takes the symbol with it.
Without_Counting(b, symbols) ==
    /\ watchers' = [s \in Symbols |-> IF s \in symbols THEN watchers[s] \ {b}
                                      ELSE watchers[s]]
    /\ subscriptions' = subscriptions \ {s \in symbols : b \in watchers[s]}

\* b leaves these symbols; those it was the last to watch are unsubscribed,
\* whoever else needs them.
Without(b, symbols) ==
    /\ watchers' = [s \in Symbols |-> IF s \in symbols THEN watchers[s] \ {b}
                                      ELSE watchers[s]]
    /\ subscriptions' = subscriptions \ {s \in symbols : watchers[s] = {b}}

Unsubscribe(b, s) ==
    /\ b \in connected
    /\ Without(b, {s})
    /\ UNCHANGED <<connected, monitored, prices>>

Disconnect(b) ==
    /\ b \in connected
    /\ Without(b, Symbols)
    /\ connected' = connected \ {b}
    /\ UNCHANGED <<monitored, prices>>

\* subscribeOpenPositions, once, some time after the start.
SubscribeOpen ==
    /\ monitored = {}
    /\ monitored' = OpenSymbols
    /\ subscriptions' = subscriptions \cup OpenSymbols
    /\ UNCHANGED <<watchers, connected, prices>>

----------------------------------------------------------------------------
(* Time and Redis.                                                         *)

Older(age) == IF age = None THEN None ELSE IF age < Oldest THEN age + 1 ELSE age

\* No fetch is in flight for longer than MaxLag.
Tick ==
    /\ \A f \in flights : f.age < MaxLag
    /\ \A k \in Callers : IF ask[k].at = "fetch" THEN ask[k].age < MaxLag ELSE TRUE
    /\ priceMap' = [s \in Symbols |-> Older(priceMap[s])]
    /\ redis' = [s \in Symbols |->
                   IF redis[s] = None THEN None
                   ELSE IF redis[s].left = 1 THEN None
                   ELSE [age |-> Older(redis[s].age), left |-> redis[s].left - 1]]
    /\ flights' = {[f EXCEPT !.age = @ + 1] : f \in flights}
    /\ ask' = [k \in Callers |->
                 CASE ask[k].at = "fetch" ->
                        [ask[k] EXCEPT !.age = @ + 1, !.cached = Older(@)]
                   [] ask[k].at \in {"redis", "send"} ->
                        [ask[k] EXCEPT !.cached = Older(@)]
                   [] OTHER -> ask[k]]
    /\ UNCHANGED <<audience, redisUp>>

\* The events of the Redis client.
RedisTurns ==
    /\ redisUp' = ~redisUp
    /\ UNCHANGED <<audience, priceMap, redis, flights, ask>>

\* Mutant: the keys of Redis never expire.
UpdatePrice_NoExpiry(s, age) ==
    /\ priceMap' = [priceMap EXCEPT ![s] = age]
    /\ redis' = IF redisUp
                THEN [redis EXCEPT ![s] =
                        [age |-> IF @ = None THEN age ELSE @.age, left |-> RedisTtl]]
                ELSE redis

\* updatePrice: memory, whatever it holds, and Redis if it is connected.
UpdatePrice(s, age) ==
    /\ priceMap' = [priceMap EXCEPT ![s] = age]
    /\ redis' = IF redisUp
                THEN [redis EXCEPT ![s] = [age |-> age, left |-> RedisTtl]]
                ELSE redis

----------------------------------------------------------------------------
(* refreshPrices, every two seconds, whether or not the last one is over.  *)

Refresh ==
    /\ subscriptions # {}
    /\ flights' = flights \cup {[symbol |-> s, age |-> 0] : s \in subscriptions}
    /\ UNCHANGED <<audience, priceMap, redis, redisUp, ask>>

RefreshArrives(f) ==
    /\ f \in flights
    /\ flights' = flights \ {f}
    /\ UpdatePrice(f.symbol, f.age)
    /\ UNCHANGED <<audience, redisUp, ask>>

RefreshFails(f) ==
    /\ f \in flights
    /\ flights' = flights \ {f}
    /\ UNCHANGED <<audience, priceMap, redis, redisUp, ask>>

----------------------------------------------------------------------------
(* getPrice and getTicker.                                                 *)

Asking(k, next) == ask' = [ask EXCEPT ![k] = next]
Answer(k, age, fallback) ==
    Asking(k, [at |-> "got", age |-> age, fallback |-> fallback])

Fresh(age) == age # None /\ age <= CacheMaxAge

\* A fresh price in memory is the answer; getTicker has no second choice.
Ask(k, s, ticker) ==
    /\ ask[k].at \in {"idle", "got"}
    /\ IF Fresh(priceMap[s]) THEN Answer(k, priceMap[s], FALSE)
       ELSE Asking(k, [at |-> IF redisUp /\ ~ticker THEN "redis" ELSE "send",
                       symbol |-> s,
                       cached |-> IF ticker THEN None ELSE priceMap[s]])
    /\ UNCHANGED <<audience, priceMap, redis, redisUp, flights>>

AskRedis(k) ==
    /\ ask[k].at = "redis"
    /\ LET s == ask[k].symbol IN
       IF redis[s] # None THEN Answer(k, redis[s].age, FALSE)
       ELSE Asking(k, [ask[k] EXCEPT !.at = "send"])
    /\ UNCHANGED <<audience, priceMap, redis, redisUp, flights>>

AskSend(k) ==
    /\ ask[k].at = "send"
    /\ Asking(k, [at |-> "fetch", symbol |-> ask[k].symbol,
                  cached |-> ask[k].cached, age |-> 0])
    /\ UNCHANGED <<audience, priceMap, redis, redisUp, flights>>

AskArrives(k) ==
    /\ ask[k].at = "fetch"
    /\ UpdatePrice(ask[k].symbol, ask[k].age)
    /\ Answer(k, ask[k].age, FALSE)
    /\ UNCHANGED <<audience, redisUp, flights>>

\* The fetch fails: the price read at first, however old, else an error.
AskFails(k) ==
    /\ ask[k].at = "fetch"
    /\ IF ask[k].cached = None THEN Asking(k, IdleAsk)
       ELSE Answer(k, ask[k].cached, TRUE)
    /\ UNCHANGED <<audience, priceMap, redis, redisUp, flights>>

MarketNext ==
    \/ \E b \in Browsers :
          \/ Connect(b) \/ Disconnect(b)
          \/ \E s \in Symbols : Subscribe(b, s) \/ Unsubscribe(b, s)
    \/ SubscribeOpen \/ Tick \/ RedisTurns \/ Refresh
    \/ \E f \in flights : RefreshArrives(f) \/ RefreshFails(f)
    \/ \E k \in Callers :
          \/ \E s \in Symbols, ticker \in BOOLEAN : Ask(k, s, ticker)
          \/ AskRedis(k) \/ AskSend(k) \/ AskArrives(k) \/ AskFails(k)

MarketSpec == MarketInit /\ [][MarketNext]_marketVars

----------------------------------------------------------------------------
\* However browsers come and go, a symbol that one of them watches is refreshed,
\* and nothing is refreshed that neither a browser nor the monitor asked for.
\* (What the monitor asked for may be gone: getPrice then fetches by itself.)
WatchedIsRefreshed ==
    \A s \in Symbols :
        /\ watchers[s] # {} => s \in subscriptions
        /\ s \in subscriptions => watchers[s] # {} \/ s \in monitored
        /\ watchers[s] \subseteq connected

\* The price a decision is made on is never older than the life of a Redis key
\* and the time a fetch takes, with or without a subscription, whichever fetch
\* is answered last; only if the exchange fails an older one stands in.
PriceIsFresh ==
    \A k \in Callers :
        ask[k].at = "got" =>
            \/ ask[k].fallback
            \/ ask[k].age <= RedisTtl + MaxLag

\* Whoever comes and goes, prices that are watched are refreshed, and no decision
\* is made on one beyond an age.
PricesAreFresh == WatchedIsRefreshed /\ PriceIsFresh

============================================================================
