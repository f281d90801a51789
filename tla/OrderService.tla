---------------------------- MODULE OrderService ----------------------------
(***************************************************************************)
(* OrderService (order.service.ts): opening a position, placing its TP/SL  *)
(* orders, replenishing them, closing it, cancelling what is left.  The    *)
(* service takes no lock; every operation is a chain of awaits, and each   *)
(* action below is the work between two of them that touches the exchange  *)
(* or the database.  A task is one such call chain in flight.              *)
(***************************************************************************)
EXTENDS Venue

CONSTANTS
    Openers,       \* engine cycles: open a position, then place its TP/SL
    Closers,       \* close requests: user, close-all, local auto-close
    Replenishers,  \* requests to re-place TP/SL
    Syncers,       \* rounds of TpslMonitor; they run fills and cancels here
    MaxRuns,       \* bound: operations one closer or replenisher starts
    Protected,     \* positions already open with TP/SL placed in Init
    MarkBands,     \* price classes the mark can be in when p is priced
    LocalAutoClose,\* Strategy.localAutoCloseEnabled
    Faults         \* the failures of exchange calls that may occur

ASSUME ProtectedAssumption == Protected \subseteq Positions
ASSUME MarkBandsAssumption ==
    MarkBands \in [Positions -> (SUBSET Bands) \ {{}}]

Tasks == Openers \cup Closers \cup Replenishers \cup Syncers

FaultKinds == {"fillPrice",   \* resolveFillPrice throws after the fill
               "otherLeg",    \* openPosition of the other leg throws
               "immediate",   \* -2021, or mark already past the trigger
               "place",       \* a conditional order is refused
               "close",       \* a market close fails (not -2022)
               "book",        \* fetchOpenOrders fails
               "contracts",   \* fetchPositions fails
               "cancel"}      \* cancelOrder fails
ASSUME FaultsAssumption == Faults \subseteq FaultKinds

NoPos == -1
NoOrder == [pos |-> NoPos, type |-> "TP", gen |-> 0]

PosStatus == {"NONE", "OPEN", "TP_HIT", "SL_HIT", "MANUAL", "CLOSED"}
Closed == {"TP_HIT", "SL_HIT", "MANUAL", "CLOSED"}
RowStatus == {"NONE", "PENDING", "FILLED", "CANCELED"}
Reasons == {"TP_HIT", "SL_HIT", "MANUAL"}

\* Mutants: the trigger's name, or the wrong outcome, is written.
HitReason_TriggerName(type) == type
HitReason_Swapped(type) == IF type = "TP" THEN "SL_HIT" ELSE "TP_HIT"

HitReason(type) == IF type = "TP" THEN "TP_HIT" ELSE "SL_HIT"

VARIABLES
    status,  \* Position.status
    priced,  \* Position.takeProfitPrice / stopLossPrice are not null
    entry,   \* price class of Position.entryPrice
    row,     \* Order.status of the row written for each conditional order
    exId,    \* Order.exchangeOrderId of that row
    task,    \* the call chains in flight
    runs     \* operations started by each bounded task

dbVars == <<status, priced, entry, row, exId>>
orderVars == <<venueVars, dbVars, task, runs>>

PCs == {"idle",
        "open.save", "place.tp", "place.tpRow", "place.sl", "place.slRow",
        "place.ticker", "place.done",
        "close.read", "close.market", "close.flat", "close.flatSave",
        "close.save",
        "cancel.read", "cancel.book", "cancel.next", "cancel.mark",
        "fill.row", "fill.save",
        "sync.book", "sync.contracts", "sync.classify", "sync.absorb",
        "sync.apply", "sync.orphans"}

\* What a call chain goes on with when cancelPendingOrders returns.
Continuations == {"idle", "place.ticker", "sync.apply", "sync.orphans"}

TaskRecord ==
    [pc      : PCs,
     pos     : Positions \cup {NoPos},   \* the position being worked on
     reason  : Reasons,                  \* closePosition's reason
     after   : Continuations,
     todo    : SUBSET Orders,            \* rows left to cancel
     ids     : [Orders -> Orders],       \* their exchangeOrderIds as read
     book    : SUBSET Orders,            \* fetched open orders
     claimed : SUBSET Orders,            \* open orders matched so far
     cur     : Orders \cup {NoOrder}]    \* the order of the current step

Idle == [pc |-> "idle", pos |-> NoPos, reason |-> "MANUAL", after |-> "idle",
         todo |-> {}, ids |-> [o \in Orders |-> o],
         book |-> {}, claimed |-> {}, cur |-> NoOrder]

DbTypeOK ==
    /\ status \in [Positions -> PosStatus]
    /\ priced \in [Positions -> BOOLEAN]
    /\ entry \in [Positions -> Bands]
    /\ row \in [Orders -> RowStatus]
    /\ exId \in [Orders -> Orders]

OrderTypeOK ==
    /\ DbTypeOK
    /\ task \in [Tasks -> TaskRecord]
    /\ runs \in [Tasks -> Nat]

SomeBand(p) == CHOOSE b \in MarkBands[p] : TRUE

OrderInit ==
    LET placed(o) == o.pos \in Protected /\ o.gen = 1 IN
    /\ contracts = Cardinality(Protected)
    /\ venue = [o \in Orders |-> IF placed(o) THEN "live" ELSE "unborn"]
    /\ band = [o \in Orders |-> SomeBand(o.pos)]
    /\ opened = Protected
    /\ sold = [p \in Positions |-> 0]
    /\ status = [p \in Positions |-> IF p \in Protected THEN "OPEN" ELSE "NONE"]
    /\ priced = [p \in Positions |-> p \in Protected]
    /\ entry = [p \in Positions |-> SomeBand(p)]
    /\ row = [o \in Orders |-> IF placed(o) THEN "PENDING" ELSE "NONE"]
    /\ exId = [o \in Orders |-> o]
    /\ task = [t \in Tasks |-> Idle]
    /\ runs = [t \in Tasks |-> 0]

At(t, pc) == task[t].pc = pc
Goto(t, pc) == task' = [task EXCEPT ![t].pc = pc]
Finish(t) == task' = [task EXCEPT ![t] = Idle]

\* Go on with the same position; the step's other locals are done with.
Proceed(t, pc) ==
    task' = [task EXCEPT ![t] = [Idle EXCEPT !.pc = pc, !.pos = task[t].pos]]

\* Mutant: the query forgets the position.
PendingRows_AnyPosition(p) == {o \in Orders : row[o] = "PENDING"}

PendingRows(p) == {o \in Orders : o.pos = p /\ row[o] = "PENDING"}

----------------------------------------------------------------------------
(* openPosition, then the engine's placeTpSl                                *)

\* The opening market order executes.  An open that fails earlier leaves
\* nothing behind.
OpenMarket(t, p) ==
    /\ t \in Openers /\ At(t, "idle")
    /\ p \notin opened
    /\ \A q \in Positions : q < p => q \in opened
    /\ ExecuteOpen(p)
    /\ task' = [task EXCEPT ![t].pc = "open.save", ![t].pos = p]
    /\ UNCHANGED <<dbVars, runs>>

\* The fill price is resolved and the position row created.
OpenSave(t) ==
    /\ At(t, "open.save")
    /\ LET p == task[t].pos IN
       /\ status' = [status EXCEPT ![p] = "OPEN"]
       /\ \E b \in MarkBands[p] : entry' = [entry EXCEPT ![p] = b]
    /\ \/ Goto(t, "place.ticker")
       \/ "otherLeg" \in Faults /\ Finish(t)
    /\ UNCHANGED <<venueVars, priced, row, exId, runs>>

\* The order filled but no price could be resolved: openPosition throws and
\* the contracts stay at the exchange without a row.
OpenUntracked(t) ==
    /\ At(t, "open.save")
    /\ "fillPrice" \in Faults
    /\ Finish(t)
    /\ UNCHANGED <<venueVars, dbVars, runs>>

----------------------------------------------------------------------------
(* placeTpSl works on the position object it was given; it never looks at   *)
(* the status again.                                                        *)

\* Read the mark; entryPrice is corrected to it if the position was never
\* priced or diverged, so either way it is in a class the mark can be in.
\* An uncorrected entry may already be past a trigger: close at market.
PlaceTicker(t) ==
    /\ At(t, "place.ticker")
    /\ LET p == task[t].pos IN
       \/ /\ \E b \in MarkBands[p] : entry' = [entry EXCEPT ![p] = b]
          /\ Goto(t, "place.tp")
       \/ /\ "immediate" \in Faults
          /\ t \in Replenishers /\ priced[p]
          /\ \E type \in Types :
                task' = [task EXCEPT ![t].pc = "close.read",
                                     ![t].reason = HitReason(type)]
          /\ UNCHANGED entry
    /\ UNCHANGED <<venueVars, status, priced, row, exId, runs>>

PlaceAt(t, type, pc, rowPc) ==
    /\ At(t, pc)
    /\ LET p == task[t].pos IN
       \/ \E o \in Orders :
             /\ IsNextOrder(o, p, type)
             /\ AcceptConditional(o, entry[p])
             /\ task' = [task EXCEPT ![t].pc = rowPc, ![t].cur = o]
       \/ /\ "immediate" \in Faults      \* -2021: close at market instead
          /\ task' = [task EXCEPT ![t].pc = "close.read",
                                  ![t].reason = HitReason(type)]
          /\ UNCHANGED venueVars
       \/ /\ "place" \in Faults          \* any other refusal is thrown
          /\ Finish(t)
          /\ UNCHANGED venueVars
    /\ UNCHANGED <<dbVars, runs>>

PlaceTp(t) == PlaceAt(t, "TP", "place.tp", "place.tpRow")
PlaceSl(t) == PlaceAt(t, "SL", "place.sl", "place.slRow")

\* Mutant: the stop loss is skipped.
PlaceRow_TpOnly(t) ==
    /\ task[t].pc \in {"place.tpRow", "place.slRow"}
    /\ row' = [row EXCEPT ![task[t].cur] = "PENDING"]
    /\ Proceed(t, "place.done")
    /\ UNCHANGED <<venueVars, status, priced, entry, exId, runs>>

\* The PENDING row of the accepted order is created.
PlaceRow(t) ==
    /\ task[t].pc \in {"place.tpRow", "place.slRow"}
    /\ LET o == task[t].cur IN
       /\ row' = [row EXCEPT ![o] = "PENDING"]
       /\ exId' = [exId EXCEPT ![o] = o]
    /\ Proceed(t, IF At(t, "place.tpRow") THEN "place.sl" ELSE "place.done")
    /\ UNCHANGED <<venueVars, status, priced, entry, runs>>

\* Mutant: the whole in-memory position is saved back.
PlaceDone_SavesPosition(t) ==
    /\ At(t, "place.done")
    /\ priced' = [priced EXCEPT ![task[t].pos] = TRUE]
    /\ status' = [status EXCEPT ![task[t].pos] = "OPEN"]
    /\ Finish(t)
    /\ UNCHANGED <<venueVars, entry, row, exId, runs>>

\* takeProfitPrice and stopLossPrice are written.
PlaceDone(t) ==
    /\ At(t, "place.done")
    /\ priced' = [priced EXCEPT ![task[t].pos] = TRUE]
    /\ Finish(t)
    /\ UNCHANGED <<venueVars, status, entry, row, exId, runs>>

\* replenishTpSl: only an OPEN position; cancel, then placeTpSl.
Replenish(t, p) ==
    /\ t \in Replenishers /\ At(t, "idle") /\ runs[t] < MaxRuns
    /\ status[p] = "OPEN"
    /\ task' = [task EXCEPT ![t].pc = "cancel.read", ![t].pos = p,
                            ![t].after = "place.ticker"]
    /\ runs' = [runs EXCEPT ![t] = @ + 1]
    /\ UNCHANGED <<venueVars, dbVars>>

----------------------------------------------------------------------------
(* closePosition                                                            *)

\* A close request: a user or close-all (MANUAL), or monitorLocalPrice with
\* the price past TP or SL.  The read that refuses a position which is not OPEN
\* comes first, so a refused request changes nothing.
CloseRequest(t, p, reason) ==
    /\ t \in Closers /\ At(t, "idle") /\ runs[t] < MaxRuns
    /\ status[p] = "OPEN"
    /\ reason # "MANUAL" => LocalAutoClose /\ priced[p]
    /\ task' = [task EXCEPT ![t].pc = "close.market", ![t].pos = p,
                            ![t].reason = reason]
    /\ runs' = [runs EXCEPT ![t] = @ + 1]
    /\ UNCHANGED <<venueVars, dbVars>>

\* The same read, for a close that placeTpSl asks for: a position that is not
\* OPEN is a ConflictException.
CloseRead(t) ==
    /\ At(t, "close.read")
    /\ IF status[task[t].pos] = "OPEN" THEN Goto(t, "close.market")
       ELSE Finish(t)
    /\ UNCHANGED <<venueVars, dbVars, runs>>

\* Mutant: a market close that failed is recorded as done.
CloseMarket_FailureAsClosed(t) ==
    /\ At(t, "close.market")
    /\ \/ ExecuteClose(task[t].pos) /\ Goto(t, "close.save")
       \/ contracts < 1 /\ Goto(t, "close.flat") /\ UNCHANGED venueVars
       \/ "close" \in Faults /\ Goto(t, "close.save") /\ UNCHANGED venueVars
    /\ UNCHANGED <<dbVars, runs>>

\* An executed close is recorded next; a failed one changes nothing, unless the
\* exchange says that there is nothing to reduce.
CloseMarket(t) ==
    /\ At(t, "close.market")
    /\ \/ ExecuteClose(task[t].pos) /\ Goto(t, "close.save")
       \/ contracts < 1 /\ Goto(t, "close.flat") /\ UNCHANGED venueVars
       \/ "close" \in Faults /\ Finish(t) /\ UNCHANGED venueVars
    /\ UNCHANGED <<dbVars, runs>>

\* trySyncIfExchangeFlat after -2022: if the exchange holds Q again the close
\* fails, else the position is recorded as already closed.
CloseFlat(t) ==
    /\ At(t, "close.flat")
    /\ \/ contracts < 1 /\ Goto(t, "close.flatSave")
       \/ contracts >= 1 /\ Finish(t)
       \/ "contracts" \in Faults /\ Finish(t)
    /\ UNCHANGED <<venueVars, dbVars, runs>>

\* Mutant: the conditionals are left alone.
CloseSave_NoCancel(t) ==
    /\ task[t].pc \in {"close.save", "close.flatSave"}
    /\ status' = [status EXCEPT ![task[t].pos] = task[t].reason]
    /\ Finish(t)
    /\ UNCHANGED <<venueVars, priced, entry, row, exId, runs>>

\* The status is written without looking at the row again.
CloseSave(t) ==
    /\ task[t].pc \in {"close.save", "close.flatSave"}
    /\ LET outcome == IF task[t].reason # "MANUAL" THEN task[t].reason
                      ELSE IF At(t, "close.save") THEN "MANUAL" ELSE "CLOSED"
       IN status' = [status EXCEPT ![task[t].pos] = outcome]
    /\ Proceed(t, "cancel.read")
    /\ UNCHANGED <<venueVars, priced, entry, row, exId, runs>>

----------------------------------------------------------------------------
(* cancelPendingOrders                                                      *)

\* Mutant: replenishTpSl forgets to place again.
Return_Ends(t) ==
    task' = [task EXCEPT ![t] =
               [Idle EXCEPT !.pc = IF task[t].after = "place.ticker"
                                   THEN "idle" ELSE task[t].after]]

\* Return to the caller.
Return(t) ==
    task' = [task EXCEPT ![t] =
               [Idle EXCEPT !.pc = task[t].after,
                            !.pos = IF task[t].after = "place.ticker"
                                    THEN task[t].pos ELSE NoPos]]

CancelRead(t) ==
    /\ At(t, "cancel.read")
    /\ LET rows == PendingRows(task[t].pos) IN
       IF rows = {} THEN Return(t)
       ELSE task' = [task EXCEPT ![t].pc = "cancel.book", ![t].todo = rows,
                               ![t].ids = exId]
    /\ UNCHANGED <<venueVars, dbVars, runs>>

\* A failing fetchOpenOrders is logged and read as an empty list.
CancelBook(t) ==
    /\ At(t, "cancel.book")
    /\ \/ task' = [task EXCEPT ![t].pc = "cancel.next",
                               ![t].book = LiveOrders, ![t].claimed = {}]
       \/ /\ "book" \in Faults
          /\ task' = [task EXCEPT ![t].pc = "cancel.next",
                                  ![t].book = {}, ![t].claimed = {}]
    /\ UNCHANGED <<venueVars, dbVars, runs>>

\* findAndHealOpenConditional: the open order a row stands for, by
\* exchangeOrderId if it is there, else any unclaimed order of the same type
\* at (nearly) the same trigger price.  NoOrder: none.
ByFingerprint(r, available) ==
    {o \in available : o.type = r.type /\ band[o] = band[r]}
\* Mutant: the fingerprint ignores the trigger price.
Matches_TypeOnly(r, id, available) ==
    LET sameType == {o \in available : o.type = r.type}
    IN IF sameType = {} THEN {NoOrder} ELSE sameType

Matches(r, id, available) ==
    IF id \in available THEN {id}
    ELSE IF ByFingerprint(r, available) # {} THEN ByFingerprint(r, available)
    ELSE {NoOrder}

\* A match by fingerprint rewrites the row's exchangeOrderId.
Heal(ids, r, match) ==
    IF match = NoOrder THEN ids ELSE [ids EXCEPT ![r] = match]

\* Match one row, heal it and cancel at the exchange; a failure is logged.
CancelNext(t) ==
    /\ At(t, "cancel.next")
    /\ \E r \in task[t].todo :
       \E m \in Matches(r, task[t].ids[r], task[t].book \ task[t].claimed) :
          /\ exId' = Heal(exId, r, m)
          /\ \/ CancelConditional(IF m = NoOrder THEN task[t].ids[r] ELSE m)
             \/ "cancel" \in Faults /\ UNCHANGED venueVars
          /\ task' = [task EXCEPT ![t].pc = "cancel.mark", ![t].cur = r,
                                  ![t].claimed = @ \cup ({m} \cap Orders)]
    /\ UNCHANGED <<status, priced, entry, row, runs>>

\* Mutant: the loop ends after the first row.
CancelMark_FirstOnly(t) ==
    /\ At(t, "cancel.mark")
    /\ row' = [row EXCEPT ![task[t].cur] = "CANCELED"]
    /\ Return(t)
    /\ UNCHANGED <<venueVars, status, priced, entry, exId, runs>>

\* The row becomes CANCELED whatever the exchange answered.
CancelMark(t) ==
    /\ At(t, "cancel.mark")
    /\ LET r == task[t].cur
           left == task[t].todo \ {r}
       IN /\ row' = [row EXCEPT ![r] = "CANCELED"]
          /\ IF left = {} THEN Return(t)
             ELSE task' = [task EXCEPT ![t].pc = "cancel.next",
                                       ![t].todo = left, ![t].cur = NoOrder]
    /\ UNCHANGED <<venueVars, status, priced, entry, exId, runs>>

----------------------------------------------------------------------------
(* The exchange moves on its own.                                           *)
ExchangeTrigger(o) == Trigger(o) /\ UNCHANGED <<dbVars, task, runs>>

\* What a request or a cycle starts, and what every call chain then does.
OrderStart ==
    \/ \E t \in Tasks, p \in Positions : OpenMarket(t, p) \/ Replenish(t, p)
    \/ \E t \in Tasks, p \in Positions, r \in Reasons : CloseRequest(t, p, r)

OrderStep(t) ==
    \/ OpenSave(t) \/ OpenUntracked(t)
    \/ PlaceTicker(t) \/ PlaceTp(t) \/ PlaceSl(t) \/ PlaceRow(t) \/ PlaceDone(t)
    \/ CloseRead(t) \/ CloseMarket(t) \/ CloseFlat(t) \/ CloseSave(t)
    \/ CancelRead(t) \/ CancelBook(t) \/ CancelNext(t) \/ CancelMark(t)

============================================================================
