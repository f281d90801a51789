---------------------------- MODULE BinanceAdapter ----------------------------
(***************************************************************************)
(* Binance keeps conditionals in a book of their own: the adapter reads    *)
(* open orders from two books, one after the other, and cancels in one and *)
(* then in the other.  Every call has a timeout that gives up the answer,  *)
(* not the call.                                                           *)
(***************************************************************************)
EXTENDS Naturals, FiniteSets

CONSTANTS
    Orders,        \* bound: the orders there will ever be
    Conditionals,  \* those that are algo orders
    Callers

VARIABLES
    book,     \* order -> "new", "open", "filled" or "canceled"
    call,
    late,     \* cancels given up by a caller that may still reach the exchange
    canceled  \* history: cancelOrder said so

binanceVars == <<book, call, late, canceled>>

IdleCall == [at |-> "idle"]

\* since: open ever since the listing began; ever: open at some time during it.
Listings == [since : SUBSET Orders, ever : SUBSET Orders, got : SUBSET Orders]

CallStates ==
    {IdleCall}
        \cup [at : {"regular", "algo", "listed"}, list : Listings]
        \cup [at : {"cancel", "delete"}, order : Orders]

BinanceTypeOK ==
    /\ book \in [Orders -> {"new", "open", "filled", "canceled"}]
    /\ call \in [Callers -> CallStates]
    /\ late \subseteq [order : Orders, algo : BOOLEAN]
    /\ canceled \subseteq Orders

BinanceInit ==
    /\ book = [o \in Orders |-> "new"]
    /\ call = [k \in Callers |-> IdleCall]
    /\ late = {} /\ canceled = {}

Algo(o) == o \in Conditionals
Open == {o \in Orders : book[o] = "open"}
IsListing(k) == call[k].at \in {"regular", "algo"}

Becomes(o, status) == book' = [book EXCEPT ![o] = status]
CallGoto(k, state) == call' = [call EXCEPT ![k] = state]
CallReturn(k) == CallGoto(k, IdleCall)

----------------------------------------------------------------------------
(* The exchange.                                                           *)

\* placeOrder; listings in flight may or may not see it.
PlaceOrder(o) ==
    /\ book[o] = "new" /\ Becomes(o, "open")
    /\ call' = [k \in Callers |->
         IF IsListing(k) THEN [call[k] EXCEPT !.list.ever = @ \cup {o}] ELSE call[k]]
    /\ UNCHANGED <<late, canceled>>

Leaves(o, calls) ==
    [k \in Callers |->
        IF calls[k].at \in {"regular", "algo"}
        THEN [calls[k] EXCEPT !.list.since = @ \ {o}] ELSE calls[k]]

\* A limit is reached, or a conditional triggers and its market order fills.
Fill(o) ==
    /\ o \in Open /\ Becomes(o, "filled")
    /\ call' = Leaves(o, call)
    /\ UNCHANGED <<late, canceled>>

\* A cancel that its caller gave up arrives after all.
LateCancel(c) ==
    /\ c \in late /\ late' = late \ {c}
    /\ IF c.order \in Open /\ c.algo = Algo(c.order)
       THEN Becomes(c.order, "canceled") /\ call' = Leaves(c.order, call)
       ELSE UNCHANGED <<book, call>>
    /\ UNCHANGED canceled

----------------------------------------------------------------------------
(* fetchOpenOrders.                                                        *)

ListStart(k) ==
    /\ call[k].at \in {"idle", "listed"}
    /\ CallGoto(k, [at |-> "regular", list |-> [since |-> Open, ever |-> Open, got |-> {}]])
    /\ UNCHANGED <<book, late, canceled>>

ListRegular(k) ==
    /\ call[k].at = "regular"
    /\ CallGoto(k, [call[k] EXCEPT !.at = "algo",
                      !.list.got = {o \in Open : ~Algo(o)}])
    /\ UNCHANGED <<book, late, canceled>>

\* fetchOpenAlgoOrders, merged by id.
ListAlgo(k) ==
    /\ call[k].at = "algo"
    /\ CallGoto(k, [call[k] EXCEPT !.at = "listed",
                      !.list.got = @ \cup {o \in Open : Algo(o)}])
    /\ UNCHANGED <<book, late, canceled>>

\* Mutant: without the algo orders the regular ones are the answer.
ListFails_Partial(k) ==
    /\ IsListing(k)
    /\ IF call[k].at = "algo" THEN CallGoto(k, [call[k] EXCEPT !.at = "listed"])
       ELSE CallReturn(k)
    /\ UNCHANGED <<book, late, canceled>>

\* Either query fails or takes too long: there is no list at all.
ListFails(k) ==
    /\ IsListing(k)
    /\ CallReturn(k)
    /\ UNCHANGED <<book, late, canceled>>

----------------------------------------------------------------------------
(* cancelOrder.                                                            *)

CancelStart(k, o) ==
    /\ call[k].at \in {"idle", "listed"} /\ book[o] # "new"
    /\ CallGoto(k, [at |-> "cancel", order |-> o])
    /\ UNCHANGED <<book, late, canceled>>

Done(k, o) ==
    /\ Becomes(o, "canceled") /\ canceled' = canceled \cup {o}
    /\ call' = Leaves(o, [call EXCEPT ![k] = IdleCall])

\* Mutant: an unknown order is taken for one that is canceled.
CancelRegular_Unknown(k) ==
    /\ call[k].at = "cancel"
    /\ LET o == call[k].order IN
       IF o \in Open /\ ~Algo(o) THEN Done(k, o)
       ELSE CallReturn(k) /\ canceled' = canceled \cup {o} /\ UNCHANGED book
    /\ UNCHANGED late

\* The regular book: an order it does not know may be an algo order, and any
\* other refusal is tried there as well.
CancelRegular(k) ==
    /\ call[k].at = "cancel"
    /\ LET o == call[k].order IN
       \/ o \in Open /\ ~Algo(o) /\ Done(k, o)
       \/ /\ CallGoto(k, [at |-> "delete", order |-> o])
          /\ UNCHANGED <<book, canceled>>
    /\ UNCHANGED late

\* The algo book: an order that is not there either is an error, and so is one
\* that cannot be deleted.
DeleteAlgo(k) ==
    /\ call[k].at = "delete"
    /\ LET o == call[k].order IN
       \/ o \in Open /\ Algo(o) /\ Done(k, o)
       \/ CallReturn(k) /\ UNCHANGED <<book, canceled>>
    /\ UNCHANGED late

\* withTimeout: the caller has its error; the call goes on.
CancelTimesOut(k) ==
    /\ call[k].at \in {"cancel", "delete"}
    /\ late' = late \cup {[order |-> call[k].order, algo |-> call[k].at = "delete"]}
    /\ CallReturn(k)
    /\ UNCHANGED <<book, canceled>>

BinanceNext ==
    \/ \E o \in Orders : PlaceOrder(o) \/ Fill(o)
    \/ \E c \in late : LateCancel(c)
    \/ \E k \in Callers :
          \/ ListStart(k) \/ ListRegular(k) \/ ListAlgo(k) \/ ListFails(k)
          \/ \E o \in Orders : CancelStart(k, o)
          \/ CancelRegular(k) \/ DeleteAlgo(k) \/ CancelTimesOut(k)

BinanceSpec == BinanceInit /\ [][BinanceNext]_binanceVars

----------------------------------------------------------------------------
\* A list of open orders has every order that was open from its beginning to
\* its end, in whichever book, and none that was open at no time in between:
\* the monitor takes an order that is missing for one that is gone.
ListIsComplete ==
    \A k \in Callers :
        call[k].at = "listed" =>
            /\ call[k].list.since \subseteq call[k].list.got
            /\ call[k].list.got \subseteq call[k].list.ever

\* A cancel that succeeds hides no fill: the order it was for is canceled and
\* not filled, however calls overlap, time out and arrive late.
CanceledIsNotFilled == \A o \in canceled : book[o] = "canceled"

\* The two books behind one interface: no order is lost between them, neither
\* from a list nor from a cancel.
OrdersAreSeen == ListIsComplete /\ CanceledIsNotFilled

============================================================================
