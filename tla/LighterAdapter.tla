---------------------------- MODULE LighterAdapter ----------------------------
(***************************************************************************)
(* Opening legs through one Lighter adapter.  update_leverage sets margin  *)
(* mode and leverage of a market together, so the adapter remembers the    *)
(* last of each; it is one adapter for all strategies of the account, and  *)
(* every call awaits the list of markets before it reads them.  The same   *)
(* list, kept for a minute, stands in for a price the exchange does not    *)
(* give.                                                                   *)
(***************************************************************************)
EXTENDS Integers

CONSTANTS
    Openings,    \* legs that strategies open in this account, again and again
    MarketOf, ModeOf, LeverageOf,
    Markets,
    DefaultMode, DefaultLeverage,
    CacheLife,   \* the minute of loadMarkets, in units of Elapse
    MaxLoad,     \* bound: units a list takes to arrive
    None

VARIABLES
    preferred,  \* preferredMarginMode and preferredLeverage
    marketAge,  \* now - marketCacheAt, or None without marketCache
    setting,    \* at the exchange: market -> mode and leverage
    opening,
    opened,     \* history: the settings each leg was last opened with
    entry,      \* history: how old its entry price was at most, when read
    overlapped, \* history: legs opened while another one was being set up
    refused     \* history: legs whose last update_leverage was refused

lighterVars == <<preferred, marketAge, setting, opening, opened, entry,
                 overlapped, refused>>

Settings == [mode : {DefaultMode} \cup {ModeOf[o] : o \in Openings},
             leverage : {DefaultLeverage} \cup {LeverageOf[o] : o \in Openings}]
Ages == 0..(CacheLife + 1)
IdleOpening == [at |-> "idle"]

\* at "load": the list is asked for, age units ago; at "ready": it was that old.
OpeningStates ==
    {IdleOpening}
        \cup [at : {"resolve"}, stage : {"mode", "leverage", "order", "price", "again"}]
        \cup [at : {"load", "ready"}, stage : {"mode", "leverage", "order", "price", "again"},
              age : Ages]
        \cup [at : {"sent"}, stage : {"mode", "leverage"}, value : Settings]
        \cup [at : {"sent"}, stage : {"order"}]

LighterTypeOK ==
    /\ preferred \in Settings
    /\ marketAge \in Ages \cup {None}
    /\ setting \in [Markets -> Settings]
    /\ opening \in [Openings -> OpeningStates]
    /\ opened \in [Openings -> Settings \cup {None}]
    /\ entry \in [Openings -> Ages \cup {None}]
    /\ overlapped \subseteq Openings /\ refused \subseteq Openings

Defaults == [mode |-> DefaultMode, leverage |-> DefaultLeverage]

LighterInit ==
    /\ preferred = Defaults /\ marketAge = None
    /\ setting = [m \in Markets |-> Defaults]
    /\ opening = [o \in Openings |-> IdleOpening]
    /\ opened = [o \in Openings |-> None] /\ entry = [o \in Openings |-> None]
    /\ overlapped = {} /\ refused = {}

----------------------------------------------------------------------------
Older(age) == IF age > CacheLife THEN age ELSE age + 1

\* Mutant: the list of markets is kept for good.
Fresh_Always == marketAge # None

Fresh == marketAge # None /\ marketAge < CacheLife

Step(o, state) == opening' = [opening EXCEPT ![o] = state]
Resolving(stage) == [at |-> "resolve", stage |-> stage]

\* Legs whose settings the account may not show any longer when they are opened.
BeingSet == {o \in Openings : opening[o] # IdleOpening
                              /\ opening[o].stage \in {"mode", "leverage", "order"}}

Elapse ==
    /\ \A o \in Openings : opening[o].at = "load" => opening[o].age < MaxLoad
    /\ marketAge' = IF marketAge = None THEN None ELSE Older(marketAge)
    /\ opening' = [o \in Openings |->
         IF opening[o].at = "load" THEN [opening[o] EXCEPT !.age = Older(@)]
         ELSE opening[o]]
    /\ UNCHANGED <<preferred, setting, opened, entry, overlapped, refused>>

\* openPosition calls setMarginMode, which keeps the mode,
SetMarginMode(o) ==
    /\ opening[o] = IdleOpening
    /\ preferred' = [preferred EXCEPT !.mode = ModeOf[o]]
    /\ Step(o, Resolving("mode"))
    /\ opened' = [opened EXCEPT ![o] = None] /\ entry' = [entry EXCEPT ![o] = None]
    /\ overlapped' = IF BeingSet = {} THEN overlapped \ {o}
                     ELSE overlapped \cup BeingSet \cup {o}
    /\ refused' = refused \ {o}
    /\ UNCHANGED <<marketAge, setting>>

\* loadMarkets: the list in memory, or a new one as of the time it is asked for.
Resolve(o) ==
    /\ opening[o].at = "resolve"
    /\ Step(o, [at |-> IF Fresh THEN "ready" ELSE "load", stage |-> opening[o].stage,
                age |-> IF Fresh THEN marketAge ELSE 0])
    /\ UNCHANGED <<preferred, marketAge, setting, opened, entry, overlapped, refused>>

LoadArrives(o) ==
    /\ opening[o].at = "load"
    /\ marketAge' = opening[o].age
    /\ Step(o, [opening[o] EXCEPT !.at = "ready"])
    /\ UNCHANGED <<preferred, setting, opened, entry, overlapped, refused>>

\* The leg is not opened, or it is and nobody knows at what price: openPosition
\* throws; only the ticker that placeOrder itself reads may fail.
LoadFails(o) ==
    /\ opening[o].at = "load"
    /\ Step(o, IF opening[o].stage = "price" THEN Resolving("again") ELSE IdleOpening)
    /\ UNCHANGED <<preferred, marketAge, setting, opened, entry, overlapped, refused>>

\* applyLeverageAndMargin: what the adapter prefers by now.
SendSetting(o) ==
    /\ opening[o].at = "ready" /\ opening[o].stage \in {"mode", "leverage"}
    /\ Step(o, [at |-> "sent", stage |-> opening[o].stage, value |-> preferred])
    /\ UNCHANGED <<preferred, marketAge, setting, opened, entry, overlapped, refused>>

\* Mutant: setLeverage does not keep the leverage.
Keep_Nothing(o) == UNCHANGED preferred

\* Then setLeverage, which keeps the leverage.
Keep(o) == preferred' = [preferred EXCEPT !.leverage = LeverageOf[o]]

\* An update that is refused is logged, and the opening goes on.
SettingAnswered(o) ==
    /\ opening[o].at = "sent" /\ opening[o].stage \in {"mode", "leverage"}
    /\ \/ /\ setting' = [setting EXCEPT ![MarketOf[o]] = opening[o].value]
          /\ refused' = refused \ {o}
       \/ UNCHANGED setting /\ refused' = refused \cup {o}
    /\ IF opening[o].stage = "mode"
       THEN Keep(o) /\ Step(o, Resolving("leverage"))
       ELSE UNCHANGED preferred /\ Step(o, Resolving("order"))
    /\ UNCHANGED <<marketAge, opened, entry, overlapped>>

\* The market order needs a reference price, which the list always has.
SendOrder(o) ==
    /\ opening[o].at = "ready" /\ opening[o].stage = "order"
    /\ Step(o, [at |-> "sent", stage |-> "order"])
    /\ UNCHANGED <<preferred, marketAge, setting, opened, entry, overlapped, refused>>

OrderAnswered(o) ==
    /\ opening[o].at = "sent" /\ opening[o].stage = "order"
    /\ \/ /\ opened' = [opened EXCEPT ![o] = setting[MarketOf[o]]]
          /\ Step(o, Resolving("price"))
       \/ UNCHANGED opened /\ Step(o, IdleOpening)
    /\ UNCHANGED <<preferred, marketAge, setting, entry, overlapped, refused>>

\* fetchTicker: the last price now, or that of the list; resolveFillPrice takes
\* it as the fill price, and asks again if there was none (fetchOrder knows no
\* price of an order that is not open).
Quote(o) ==
    /\ opening[o].at = "ready" /\ opening[o].stage \in {"price", "again"}
    /\ \E age \in {0, opening[o].age} : entry' = [entry EXCEPT ![o] = age]
    /\ Step(o, IdleOpening)
    /\ UNCHANGED <<preferred, marketAge, setting, opened, overlapped, refused>>

LighterNext ==
    \/ Elapse
    \/ \E o \in Openings :
          \/ SetMarginMode(o) \/ Resolve(o) \/ LoadArrives(o) \/ LoadFails(o)
          \/ SendSetting(o) \/ SettingAnswered(o)
          \/ SendOrder(o) \/ OrderAnswered(o) \/ Quote(o)

LighterSpec == LighterInit /\ [][LighterNext]_lighterVars

----------------------------------------------------------------------------
\* A leg is opened with the margin mode and the leverage of its own strategy,
\* whatever other strategies of the account set before, if its own update was
\* taken and no other leg of the account was being set up meanwhile.
OpensWithOwnSetting ==
    \A o \in Openings :
        opened[o] # None /\ o \notin overlapped \cup refused =>
            opened[o] = [mode |-> ModeOf[o], leverage |-> LeverageOf[o]]

\* The entry price of a leg is no older, when its fill is known, than the list
\* of markets may be and the time it took to get it, whatever failed.
EntryIsRecent ==
    \A o \in Openings : entry[o] # None => entry[o] < CacheLife \/ entry[o] <= MaxLoad

\* A leg is opened as its strategy is set, and recorded near what it was opened
\* at, though the adapter and its caches are shared.
LegsAreAsSet == OpensWithOwnSetting /\ EntryIsRecent

============================================================================
