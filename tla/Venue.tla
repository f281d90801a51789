------------------------------- MODULE Venue -------------------------------
(***************************************************************************)
(* The exchange account as HermesX sees it through an ExchangeAdapter: one *)
(* symbol, one direction (the LONG or the SHORT leg).  This code is not in *)
(* the repository; it is modelled from how OrderService and TpslMonitor    *)
(* use it.                                                                 *)
(*                                                                         *)
(* The exchange merges all positions of a direction into one quantity      *)
(* (contracts, counted in units of the cycle quantity Q), while the        *)
(* database keeps one row per cycle.  A conditional order (TAKE_PROFIT or  *)
(* STOP, exact quantity Q, never OCO) is accepted, then cancelled or       *)
(* triggered.  Triggered with fewer than Q contracts left it is rejected   *)
(* by the exchange and just disappears.                                    *)
(***************************************************************************)
EXTENDS Integers, FiniteSets

CONSTANTS
    Positions,  \* the cycle positions of this leg, numbered by creation time
    MaxGen,     \* bound: how often TP/SL orders of one position are placed
    Bands       \* trigger-price classes; orders of one class look alike

ASSUME PositionsAssumption == Positions \subseteq Nat /\ IsFiniteSet(Positions)
ASSUME MaxGenAssumption == MaxGen \in Nat \ {0}

Types == {"TP", "SL"}

\* A conditional order: the gen-th one of its type placed for a position.
Orders == [pos : Positions, type : Types, gen : 1..MaxGen]

VARIABLES
    contracts,  \* merged quantity held at the exchange, in units of Q
    venue,      \* state of each conditional order at the exchange
    band,       \* trigger-price class each order was placed at
    opened,     \* history: positions whose opening market order executed
    sold        \* history: units of Q closed on behalf of each position

venueVars == <<contracts, venue, band, opened, sold>>

VenueState == {"unborn", "live", "triggered", "canceled"}

VenueTypeOK ==
    /\ contracts \in Nat
    /\ venue \in [Orders -> VenueState]
    /\ band \in [Orders -> Bands]
    /\ opened \subseteq Positions
    /\ sold \in [Positions -> Nat]

LiveOrders == {o \in Orders : venue[o] = "live"}

\* The order the next placement of this type for p will create.
IsNextOrder(o, p, type) ==
    /\ o.pos = p /\ o.type = type
    /\ venue[o] = "unborn"
    /\ \A q \in Orders :
          q.pos = p /\ q.type = type /\ q.gen < o.gen => venue[q] # "unborn"

ExecuteOpen(p) ==
    /\ contracts' = contracts + 1
    /\ opened' = opened \cup {p}
    /\ UNCHANGED <<venue, band, sold>>

\* A MARKET close of Q, in hedge mode; needs Q contracts, else it is rejected
\* (-2022 ReduceOnly Order is rejected).
ExecuteClose(p) ==
    /\ contracts >= 1
    /\ contracts' = contracts - 1
    /\ sold' = [sold EXCEPT ![p] = @ + 1]
    /\ UNCHANGED <<venue, band, opened>>

AcceptConditional(o, b) ==
    /\ venue' = [venue EXCEPT ![o] = "live"]
    /\ band' = [band EXCEPT ![o] = b]
    /\ UNCHANGED <<contracts, opened, sold>>

\* Cancelling an order that is no longer live is an error the callers swallow.
CancelConditional(o) ==
    /\ venue' = [venue EXCEPT ![o] = IF @ = "live" THEN "canceled" ELSE @]
    /\ UNCHANGED <<contracts, band, opened, sold>>

\* The mark price reaches the trigger of a live order.
Trigger(o) ==
    /\ venue[o] = "live"
    /\ venue' = [venue EXCEPT ![o] = "triggered"]
    /\ IF contracts >= 1
       THEN /\ contracts' = contracts - 1
            /\ sold' = [sold EXCEPT ![o.pos] = @ + 1]
       ELSE UNCHANGED <<contracts, sold>>
    /\ UNCHANGED <<band, opened>>

============================================================================
