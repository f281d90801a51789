------------------------------ MODULE Trading ------------------------------
(***************************************************************************)
(* The trading core at work: engine cycles, close requests, replenish      *)
(* requests and reconciliation rounds interleave at their awaits over one  *)
(* database and one exchange account, while the exchange triggers orders.  *)
(***************************************************************************)
EXTENDS TpslMonitor

Init == OrderInit /\ SyncInit

Step(t) ==
    \/ OrderStep(t) /\ UNCHANGED sync
    \/ t \in Syncers /\ SyncStep(t)

\* Nothing in flight: the process waits for requests, the market and the cron.
Rest == (\A t \in Tasks : At(t, "idle")) /\ UNCHANGED vars

Next ==
    \/ OrderStart /\ UNCHANGED sync
    \/ \E t \in Syncers : CronSync(t) \/ ManualSync(t)
    \/ \E t \in Tasks : Step(t)
    \/ \E o \in Orders : ExchangeTrigger(o) /\ UNCHANGED sync
    \/ Rest

Spec == Init /\ [][Next]_vars

\* A call chain in flight is resumed when its await completes, and the cron
\* scheduler keeps firing rounds.  Requests and price moves are never owed.
Fairness ==
    /\ \A t \in Tasks : WF_vars(Step(t))
    /\ \A t \in CronSyncers : WF_vars(CronSync(t))

FairSpec == Spec /\ Fairness

----------------------------------------------------------------------------
TypeOK == VenueTypeOK /\ OrderTypeOK /\ SyncTypeOK

\* Some call chain is working on p.
Busy(p) == \E t \in Tasks : task[t].pos = p

Triggered(p, type) ==
    \E o \in Orders : o.pos = p /\ o.type = type /\ venue[o] = "triggered"

\* A closed position never becomes OPEN again, though neither closePosition nor
\* placeTpSl nor the monitor rechecks the status when it writes.
ClosedIsFinal ==
    [][\A p \in Positions : status[p] \in Closed => status'[p] \in Closed]_vars

\* syncClosedByConditionalFill marks the row FILLED before it closes the
\* position: a FILLED row of an OPEN position exists only while that very call
\* is between its two writes.
FilledIsSettled ==
    \A o \in Orders : row[o] = "FILLED" =>
        \/ status[o.pos] \in Closed
        \/ \E t \in Syncers : At(t, "fill.save") /\ task[t].cur = o

\* The monitor infers a fill from an order's absence.  It records TP_HIT
\* (SL_HIT) only for a position whose own TP (SL) order really triggered.
HitOnlyIfTriggered ==
    \A p \in Positions :
        /\ status[p] = "TP_HIT" => Triggered(p, "TP")
        /\ status[p] = "SL_HIT" => Triggered(p, "SL")

\* Closing a position leaves nothing of it behind: once nobody works on it, it
\* has no PENDING row and no live order that could later close another cycle.
NoResidue ==
    \A p \in Positions : status[p] \in Closed /\ ~Busy(p) =>
        \A o \in Orders : o.pos = p => row[o] # "PENDING" /\ venue[o] # "live"

\* An OPEN position whose TP and SL were placed and have not triggered keeps
\* both, in the database and at the exchange, whatever happens to the other
\* cycles of the same leg.
StaysGuarded ==
    \A p \in Positions :
        /\ status[p] = "OPEN" /\ priced[p] /\ ~Busy(p)
        /\ \A type \in Types : ~Triggered(p, type)
        => \A type \in Types : \E o \in Orders :
              /\ o.pos = p /\ o.type = type
              /\ row[o] = "PENDING" /\ venue[o] = "live"

\* What the abstract ledger sees of the orders and of the closes in flight.
Hits == {<<o.pos, o.type>> : o \in {o \in Orders : venue[o] = "triggered"}}
Closing(pc) == {task[t].pos : t \in {t \in Tasks : At(t, pc)}}

Ledger == INSTANCE PositionLedger WITH
    hits <- Hits, sales <- Closing("close.save"), flats <- Closing("close.flatSave")

\* Whatever interleaves, the rows tell what happened at the exchange: each
\* position is settled for a reason of its own, and for good.
KeepsLedger == Ledger!LedgerSpec

\* README: the quantity closed for a position equals the quantity Q opened.
ExactQuantity == \A p \in Positions : sold[p] <= 1

\* Contracts of a cycle whose open was executed but never recorded.
Untracked == \E p \in opened : status[p] = "NONE" /\ ~Busy(p)

\* A position whose TP or SL triggered does not stay OPEN: some round infers the
\* fill, unless contracts the database does not know of hide it.
TriggerIsSettled ==
    \A p \in Positions :
        (\E type \in Types : Triggered(p, type)) ~> status[p] # "OPEN" \/ Untracked

============================================================================
