----------------------------- MODULE MCServices -----------------------------
(***************************************************************************)
(* The services around the trading core, for TLC.                          *)
(***************************************************************************)
EXTENDS Services

\* ExchangeService: a strategy on two Lighter accounts, and a Binance account.
MCExchangeOf == [c \in Configs |-> IF c = "b1" THEN "BINANCE" ELSE "LIGHTER"]
MCEnvOf == [c \in Configs |-> "TESTNET"]
MCTable == [c \in {"l1", "l2", "b1"} |-> IF c = "l2" THEN 2 ELSE 1]
MCUpdates == {[account |-> 2, active |-> TRUE], [account |-> 1, active |-> FALSE],
               [account |-> 0, active |-> TRUE]}
MCBindings == {[long |-> "l1", short |-> c] : c \in {"l1", "l2", "none"}}
                \cup {[long |-> c, short |-> "none"] : c \in {"b1", "none"}}
MCBound == [s \in Strategies |-> [long |-> "l1", short |-> "l2"]]

\* OrphanOrders: two strategies share two Lighter accounts; the SHORT positions
\* of the second are a new one and one that was left behind.
MCOrphanStrategyOf == <<1, 2, 2>>
MCOrphanSideOf == [p \in OrphanPositions |-> "SHORT"]
MCLongOf == [s \in OrphanStrategies |-> 1]
MCShortOf == [s \in OrphanStrategies |-> 2]
MCLeft == [p \in {3} |-> "PENDING"]
MCBandOf == <<1, 2, 3>>

\* LighterAdapter: two strategies trade two markets of one account.
MCMarketOf == [o \in Openings |-> IF o = 3 THEN "B" ELSE "A"]
MCModeOf == [o \in Openings |-> "CROSSED"]
MCLeverageOf == [o \in Openings |-> IF o = 1 THEN 5 ELSE 20]

\* PositionService: a user closes all or reconciles, another one places the
\* guards that miss.
MCStrategyOf == [p \in Positions |-> "s"]
MCSideOf == [p \in Positions |-> "LONG"]

============================================================================
