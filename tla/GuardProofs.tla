----------------------------- MODULE GuardProofs -----------------------------
(***************************************************************************)
(* What the monitor infers, and what guards a position, when no order can  *)
(* be mistaken for another: no replenish is in flight and the prices of    *)
(* the positions are apart (section 7 of the README says why).             *)
(*                                                                         *)
(* Then each position has at most one order of a type in its life, a row   *)
(* keeps the identity of its own order, and an order is cancelled only     *)
(* when its position is closed already.  An order that a round misses has  *)
(* therefore triggered, or the round will find its position closed.        *)
(***************************************************************************)
EXTENDS TradingProofs

\* The fingerprint can tell the orders of two positions apart.
PricesApart ==
    \A p, q \in Positions : p # q => MarkBands[p] \cap MarkBands[q] = {}

Placing == {"open.save", "place.ticker", "place.tp", "place.tpRow", "place.sl",
            "place.slRow", "place.done"}
Cancelling == {"cancel.read", "cancel.book", "cancel.next", "cancel.mark"}

Born(o) == venue[o] # "unborn"
NoneBorn(p, type) == \A o \in Orders : o.pos = p /\ o.type = type => ~Born(o)
Rowed(p, type) == \E o \in Orders : o.pos = p /\ o.type = type /\ row[o] # "NONE"

\* What absence from the book proves of an order that has been placed.
Gone(o) == venue[o] = "triggered" \/ status[o.pos] \in Closed

\* Orders: one of a type for each position, in a price class of its own.
OrdersOK ==
    /\ \A o, q \in Orders :
          Born(o) /\ Born(q) /\ o.pos = q.pos /\ o.type = q.type => o = q
    /\ \A o \in Orders : band[o] \in MarkBands[o.pos]
    /\ \A p \in Positions : entry[p] \in MarkBands[p]
    /\ \A o \in Orders : o.pos \notin opened => ~Born(o)
    /\ \A o \in Orders : venue[o] = "canceled" => status[o.pos] \in Closed

\* Rows: of orders that were placed, under their own identity.
RowsOK ==
    /\ \A o \in Orders : row[o] # "NONE" => Born(o)
    /\ \A o \in Orders : row[o] = "CANCELED" => status[o.pos] \in Closed
    /\ \A o \in Orders : exId[o] = o
    /\ \A p \in Positions : priced[p] => \A type \in Types : Rowed(p, type)

\* A call chain that places orders for a position it alone has opened.
PlacesOwn(t) ==
    LET p == task[t].pos
        o == task[t].cur
    IN /\ task[t].pc \in Placing => p \in opened
       /\ task[t].pc \in {"open.save", "place.ticker", "place.tp"} => NoneBorn(p, "TP")
       /\ task[t].pc \in {"open.save", "place.ticker", "place.tp", "place.tpRow", "place.sl"}
             => NoneBorn(p, "SL")
       /\ task[t].pc \in {"place.tpRow", "place.slRow"} =>
             /\ o \in Orders /\ o.pos = p /\ Born(o)
             /\ o.type = IF At(t, "place.tpRow") THEN "TP" ELSE "SL"
       /\ task[t].pc \in {"place.sl", "place.slRow", "place.done"} => Rowed(p, "TP")
       /\ task[t].pc = "place.done" => Rowed(p, "SL")

OnePlacer ==
    \A t, u \in Tasks :
        task[t].pc \in Placing /\ task[u].pc \in Placing
        /\ task[t].pos = task[u].pos => t = u

\* cancelPendingOrders works on the rows of a position that is closed.
CancelsClosed(t) ==
    /\ task[t].after # "place.ticker"
    /\ task[t].pc \in Cancelling => status[task[t].pos] \in Closed
    /\ task[t].pc \in Cancelling \ {"cancel.read"} =>
          \A o \in task[t].todo : o.pos = task[t].pos /\ Born(o)
    /\ task[t].pc = "cancel.mark" => task[t].cur \in task[t].todo
    /\ \A o \in Orders : task[t].ids[o] = o
    /\ \A o \in task[t].book : Born(o)

\* A fill is recorded of an order that has triggered.
FillsTriggered(t) ==
    task[t].pc \in {"fill.row", "fill.save"} => venue[task[t].cur] = "triggered"

\* Cancelling what closed positions left, or about to.
Orphaning(t) ==
    \/ task[t].pc = "sync.orphans"
    \/ task[t].pc \in Cancelling /\ task[t].after = "sync.orphans"

\* A round: its rows are in its book, or gone; so is all it plans to record.
RoundOK(t) ==
    /\ \A r \in sync[t].rows : Born(r)
    /\ \A o \in Orders : sync[t].ids[o] = o
    /\ task[t].pc \in {"sync.contracts", "sync.classify"} =>
          /\ \A r \in sync[t].rows : r \in task[t].book \/ Gone(r)
          /\ \A o \in task[t].claimed : o.pos \notin sync[t].todo
    /\ \A p \in sync[t].gone : \A type \in Types :
          \A r \in LatestPending(t, p, type) : Gone(r)
    /\ \A i \in 1..Len(sync[t].plan) : Gone(sync[t].plan[i].row)
    /\ Orphaning(t) => \A p \in sync[t].todo : status[p] \in Closed

Own(t) == PlacesOwn(t) /\ CancelsClosed(t) /\ FillsTriggered(t)

GuardInv ==
    /\ OrdersOK /\ RowsOK /\ OnePlacer
    /\ \A t \in Tasks : Own(t)
    /\ \A t \in Syncers : RoundOK(t)

----------------------------------------------------------------------------
(* What a step may do to the tables, and what that leaves to show          *)

ClosedKept == \A p \in Positions : status[p] \in Closed => status'[p] \in Closed

\* What every lemma on a step starts from.
Before == /\ TypeInv /\ RecordInv /\ GuardInv /\ TypeInv' /\ ClosedKept
          /\ Replenishers = {} /\ PricesApart

\* Orders are placed and end, rows are written and positions close, for good.
Grows ==
    /\ ClosedKept /\ opened \subseteq opened'
    /\ \A o \in Orders : /\ Born(o) => Born(o)'
                         /\ venue[o] = "triggered" => venue'[o] = "triggered"
                         /\ row[o] # "NONE" => row'[o] # "NONE"

NewBorn(t) ==
    \A o \in Orders : Born(o)' /\ ~Born(o) =>
        task[t].pc \in Placing /\ task[t].pos = o.pos

Alone(t) ==
    /\ \A u \in Tasks \ {t} : task'[u] = task[u]
    /\ \A u \in Syncers \ {t} : sync'[u] = sync[u]

tables == <<venue, band, opened, status, priced, entry, row, exId>>

\* What is said of a call chain that does not move stays true,
LEMMA OwnKept ==
  ASSUME Before, NEW u \in Tasks, task'[u] = task[u], Grows,
         \A o \in Orders : Born(o)' /\ ~Born(o) /\ task[u].pc \in Placing
                           => task[u].pos # o.pos
  PROVE  Own(u)'
  <1>1. Own(u)
    BY DEF Before, GuardInv
  <1>2. PICK q \in TaskRecord : q = task[u]
    BY Parts DEF Before, TasksOK
  <1>3. Working
    BY Parts DEF Before, TasksOK
  <1>4. PlacesOwn(u)'
    <2>1. PICK p : p = task[u].pos
      OBVIOUS
    <2>2. task[u].pc \in Placing => \A type \in Types :
             NoneBorn(p, type) => NoneBorn(p, type)'
      BY <2>1 DEF NoneBorn
    <2>3. task[u].pc \in Placing => p \in Positions
      BY <1>3, <2>1 DEF Working, Placing, Resting
    <2>4. \A type : Rowed(p, type) => Rowed(p, type)'
      BY DEF Grows, Rowed
    <2>5. task'[u].pos = p /\ PlacesOwn(u)
      BY <1>1, <2>1 DEF Own
    <2>6. QED
      BY <2>1, <2>2, <2>3, <2>4, <2>5
      DEF PlacesOwn, Grows, Placing, Types, At
  <1>5. CancelsClosed(u)'
    <2>1. task[u].pc \in Cancelling => task[u].pos \in Positions
      BY <1>3 DEF Working, Cancelling, Resting
    <2>2. task[u].todo \subseteq Orders /\ task[u].book \subseteq Orders
      BY <1>2 DEF TaskRecord
    <2>3. QED
      BY <1>1, <2>1, <2>2 DEF Own, CancelsClosed, Grows, ClosedKept
  <1>6. FillsTriggered(u)'
    <2>1. task[u].pc \in {"fill.row", "fill.save"} => task[u].cur \in Orders
      BY DEF Before, RecordInv, FillsOwnRow
    <2>2. QED
      BY <1>1, <2>1 DEF Own, FillsTriggered, Grows
  <1>7. QED
    BY <1>4, <1>5, <1>6 DEF Own

\* and so does what a round knows, whatever its chain does meanwhile in
\* OrderService.
LEMMA RoundKept ==
  ASSUME Before, NEW t \in Syncers, Grows, sync'[t] = sync[t],
         \/ task'[t] = task[t]
         \/ task'[t].pc \notin {"sync.contracts", "sync.classify"},
         Orphaning(t)' => Orphaning(t)
  PROVE  RoundOK(t)'
  <1>1. RoundOK(t)
    BY DEF Before, GuardInv
  <1>2. sync[t] \in SyncRecord
    BY Parts DEF Before, SyncTypeOK
  <1>3. /\ sync[t].rows \subseteq Orders /\ sync[t].todo \subseteq Positions
        /\ sync[t].plan \in Seq(Fill)
    BY <1>2 DEF SyncRecord
  <1>4. \A o \in Orders : Gone(o) => Gone(o)'
    BY DEF Grows, ClosedKept, Gone, Orders
  <1>5. \A i \in 1..Len(sync[t].plan) : sync[t].plan[i].row \in Orders
    BY <1>3 DEF Fill
  <1>6. \A p, type : LatestPending(t, p, type) \subseteq Orders
                     /\ LatestPending(t, p, type)' = LatestPending(t, p, type)
    BY <1>3 DEF LatestPending
  <1>7. \A r \in sync[t].rows : Born(r)'
    BY <1>1, <1>3 DEF RoundOK, Grows
  <1>8. QED
    BY <1>1, <1>3, <1>4, <1>5, <1>6, <1>7 DEF RoundOK, Grows, ClosedKept

\* What is said of the other call chains stays true.
LEMMA OthersKept ==
  ASSUME Before, NEW t \in Tasks, Alone(t), Grows, NewBorn(t)
  PROVE  /\ \A u \in Tasks \ {t} : Own(u)'
         /\ \A u \in Syncers \ {t} : RoundOK(u)'
  <1>1. ASSUME NEW u \in Tasks \ {t}
        PROVE  Own(u)'
    <2>1. task'[u] = task[u] /\ u # t
      BY DEF Alone
    <2>2. \A o \in Orders : Born(o)' /\ ~Born(o) /\ task[u].pc \in Placing
                            => task[u].pos # o.pos
      BY <2>1 DEF Before, GuardInv, OnePlacer, NewBorn
    <2>3. QED
      BY <2>1, <2>2, OwnKept
  <1>2. ASSUME NEW u \in Syncers \ {t}
        PROVE  RoundOK(u)'
    <2>1. task'[u] = task[u] /\ sync'[u] = sync[u]
      BY SyncerIsTask DEF Alone
    <2>2. Orphaning(u)' => Orphaning(u)
      BY <2>1 DEF Orphaning
    <2>3. QED
      BY <2>1, <2>2, RoundKept
  <1>3. QED
    BY <1>1, <1>2

\* A step that leaves the tables alone grows them trivially.
LEMMA SameTables ==
  ASSUME Before, UNCHANGED tables, NEW t
  PROVE  Grows /\ NewBorn(t) /\ OrdersOK' /\ RowsOK'
  <1>1. Grows /\ NewBorn(t)
    BY DEF Before, Grows, NewBorn, Born, tables
  <1>2. OrdersOK' /\ RowsOK'
    BY DEF Before, GuardInv, OrdersOK, RowsOK, Born, Rowed, tables
  <1>3. QED
    BY <1>1, <1>2

\* What a step of one chain leaves to show.
LEMMA GuardStep ==
  ASSUME Before, NEW t \in Tasks, Alone(t), Grows, NewBorn(t),
         OrdersOK', RowsOK', OnePlacer', Own(t)', t \in Syncers => RoundOK(t)'
  PROVE  GuardInv'
  BY OthersKept DEF GuardInv

\* A chain that was placing, or does not place, is no second placer.
LEMMA StillOne ==
  ASSUME Before, NEW t \in Tasks, Alone(t),
         task'[t].pc \in Placing =>
             task[t].pc \in Placing /\ task'[t].pos = task[t].pos
  PROVE  OnePlacer'
  BY DEF Before, GuardInv, OnePlacer, Alone

\* What a step of OrderService leaves to show: the tables, and its own chain.
LEMMA ChainStep ==
  ASSUME Before, NEW t \in Tasks, NEW r,
         task' = [task EXCEPT ![t] = r], UNCHANGED sync,
         r.pc \in Placing => task[t].pc \in Placing /\ r.pos = task[t].pos,
         r.pc \notin {"sync.contracts", "sync.classify"},
         \/ r.pc = "sync.orphans"
         \/ r.pc \in Cancelling /\ r.after = "sync.orphans"
         => Orphaning(t),
         Grows, NewBorn(t), OrdersOK', RowsOK', Own(t)'
  PROVE  GuardInv'
  <1>1. task'[t] = r /\ Alone(t)
    BY Parts DEF Before, TasksOK, Alone
  <1>2. OnePlacer'
    BY <1>1, StillOne
  <1>3. t \in Syncers => RoundOK(t)'
    BY <1>1, RoundKept DEF Orphaning
  <1>4. QED
    BY <1>1, <1>2, <1>3, GuardStep

----------------------------------------------------------------------------
(* Steps of a chain that neither places, nor cancels, nor fills            *)

Calm == {"idle", "close.read", "close.market", "close.flat", "close.flatSave",
         "close.save"}

\* Such a chain keeps what it had read, or drops it.
LEMMA CalmStep ==
  ASSUME Before, NEW t \in Tasks, NEW r,
         task' = [task EXCEPT ![t] = r], UNCHANGED sync, r.pc \in Calm,
         \/ r.after = task[t].after /\ r.ids = task[t].ids /\ r.book = task[t].book
         \/ r.after = "idle" /\ (\A o \in Orders : r.ids[o] = o) /\ r.book = {},
         Grows, NewBorn(t), OrdersOK', RowsOK'
  PROVE  GuardInv'
  <1>1. task'[t] = r /\ Own(t)
    BY Parts DEF Before, TasksOK, GuardInv
  <1>2. task[t].book \subseteq Orders
    BY Parts DEF Before, TasksOK, TaskRecord
  <1>3. PlacesOwn(t)' /\ FillsTriggered(t)'
    BY <1>1 DEF PlacesOwn, FillsTriggered, Calm, Placing
  <1>4. CancelsClosed(t)'
    BY <1>1, <1>2 DEF Own, CancelsClosed, Calm, Cancelling, Grows
  <1>5. QED
    BY <1>3, <1>4, ChainStep DEF Own, Calm, Placing, Cancelling

\* Ending a call chain.
LEMMA FinishGuard ==
  ASSUME Before, NEW t \in Tasks, Finish(t), UNCHANGED sync,
         Grows, NewBorn(t), OrdersOK', RowsOK'
  PROVE  GuardInv'
  <1>1. /\ Idle.pc = "idle" /\ Idle.after = "idle" /\ Idle.book = {}
        /\ \A o \in Orders : Idle.ids[o] = o
    BY DEF Idle
  <1>2. task' = [task EXCEPT ![t] = Idle]
    BY DEF Finish
  <1>3. QED
    BY <1>1, <1>2, CalmStep DEF Calm

\* Going on to a calm step.
LEMMA GotoGuard ==
  ASSUME Before, NEW t \in Tasks, NEW pc \in Calm, Goto(t, pc), UNCHANGED sync,
         Grows, NewBorn(t), OrdersOK', RowsOK'
  PROVE  GuardInv'
  <1>1. PICK q \in TaskRecord : q = task[t]
    BY Parts DEF Before, TasksOK
  <1> DEFINE r == [q EXCEPT !.pc = pc]
  <1>2. task' = [task EXCEPT ![t] = r]
    BY <1>1 DEF Goto
  <1>3. /\ r.pc = pc /\ r.after = q.after /\ r.ids = q.ids /\ r.book = q.book
    BY DEF TaskRecord
  <1> HIDE DEF r
  <1>4. QED
    BY <1>1, <1>2, <1>3, CalmStep

\* OpenUntracked, PlaceDone and the steps of closePosition before it saves.
LEMMA OpenUntrackedGuard ==
  ASSUME Before, NEW t \in Tasks, OpenUntracked(t), UNCHANGED sync
  PROVE  GuardInv'
  <1>1. UNCHANGED tables
    BY DEF OpenUntracked, tables, venueVars, dbVars
  <1>2. QED
    BY <1>1, SameTables, FinishGuard DEF OpenUntracked

\* A position is priced once both its rows exist.
LEMMA PlaceDoneGuard ==
  ASSUME Before, NEW t \in Tasks, PlaceDone(t), UNCHANGED sync
  PROVE  GuardInv'
  <1>1. /\ At(t, "place.done") /\ Finish(t)
        /\ UNCHANGED <<venue, band, opened, status, entry, row, exId>>
        /\ priced' = [priced EXCEPT ![task[t].pos] = TRUE]
    BY DEF PlaceDone, venueVars
  <1>2. Rowed(task[t].pos, "TP") /\ Rowed(task[t].pos, "SL")
    BY <1>1 DEF Before, GuardInv, Own, PlacesOwn, At
  <1>3. Grows /\ NewBorn(t) /\ OrdersOK'
    BY <1>1 DEF Before, GuardInv, Grows, NewBorn, Born, OrdersOK
  <1>4. RowsOK'
    <2>1. \A p \in Positions : priced'[p] => \A type \in Types : Rowed(p, type)
      BY <1>1, <1>2, Parts DEF Before, GuardInv, RowsOK, DbTypeOK, Types
    <2>2. QED
      BY <1>1, <2>1 DEF Before, GuardInv, RowsOK, Born, Rowed
  <1>5. QED
    BY <1>1, <1>3, <1>4, FinishGuard

\* A request to close only starts a chain.
LEMMA CloseRequestGuard ==
  ASSUME Before, NEW t \in Tasks, NEW p \in Positions, NEW reason \in Reasons,
         CloseRequest(t, p, reason), UNCHANGED sync
  PROVE  GuardInv'
  <1>1. UNCHANGED tables
    BY DEF CloseRequest, tables, venueVars, dbVars
  <1>2. PICK q \in TaskRecord : q = task[t]
    BY Parts DEF Before, TasksOK
  <1> DEFINE r == [q EXCEPT !.pc = "close.market", !.pos = p, !.reason = reason]
  <1>3. task' = [task EXCEPT ![t] = r]
    BY <1>2 DEF CloseRequest
  <1>4. /\ r.pc = "close.market" /\ r.after = q.after /\ r.ids = q.ids
        /\ r.book = q.book
    BY DEF TaskRecord
  <1> HIDE DEF r
  <1>5. QED
    BY <1>1, <1>2, <1>3, <1>4, SameTables, CalmStep DEF Calm

\* The market order touches neither the conditional orders nor the rows.
LEMMA ClosingGuard ==
  ASSUME Before, NEW t \in Tasks, CloseRead(t) \/ CloseMarket(t) \/ CloseFlat(t),
         UNCHANGED sync
  PROVE  GuardInv'
  <1>1. UNCHANGED tables
    BY DEF CloseRead, CloseMarket, CloseFlat, ExecuteClose, tables, venueVars,
       dbVars
  <1>2. Finish(t) \/ \E pc \in Calm : Goto(t, pc)
    BY DEF CloseRead, CloseMarket, CloseFlat, Calm
  <1>3. QED
    BY <1>1, <1>2, SameTables, FinishGuard, GotoGuard

----------------------------------------------------------------------------
(* Placing the orders of a position                                         *)

\* A position that was not open has no orders, and nobody else places for it.
LEMMA OpenMarketGuard ==
  ASSUME Before, NEW t \in Tasks, NEW p \in Positions, OpenMarket(t, p),
         UNCHANGED sync
  PROVE  GuardInv'
  <1>1. PICK q \in TaskRecord : q = task[t]
    BY Parts DEF Before, TasksOK
  <1> DEFINE r == [q EXCEPT !.pc = "open.save", !.pos = p]
  <1>2. task' = [task EXCEPT ![t] = r]
    BY <1>1 DEF OpenMarket
  <1>3. /\ r.pc = "open.save" /\ r.pos = p /\ r.after = q.after /\ r.ids = q.ids
        /\ r.book = q.book
    BY DEF TaskRecord
  <1> HIDE DEF r
  <1>4. /\ p \notin opened /\ opened' = opened \cup {p}
        /\ UNCHANGED <<venue, band, status, priced, entry, row, exId>>
    BY DEF OpenMarket, ExecuteOpen, dbVars
  <1>5. task'[t] = r /\ Alone(t)
    BY <1>2, Parts DEF Before, TasksOK, Alone
  <1>6. Grows /\ NewBorn(t) /\ OrdersOK' /\ RowsOK'
    BY <1>4 DEF Before, GuardInv, Grows, NewBorn, OrdersOK, RowsOK, Born, Rowed
  <1>7. OnePlacer'
    <2>1. \A u \in Tasks : task[u].pc \in Placing => task[u].pos # p
      BY <1>4 DEF Before, GuardInv, Own, PlacesOwn
    <2>2. QED
      BY <1>3, <1>5, <2>1 DEF Before, GuardInv, OnePlacer, Alone
  <1>8. Own(t)'
    <2>1. NoneBorn(p, "TP")' /\ NoneBorn(p, "SL")'
      BY <1>4 DEF Before, GuardInv, OrdersOK, NoneBorn, Born
    <2>2. PlacesOwn(t)'
      BY <1>3, <1>4, <1>5, <2>1 DEF PlacesOwn
    <2>3. CancelsClosed(t)'
      BY <1>1, <1>3, <1>4, <1>5
      DEF Before, GuardInv, Own, CancelsClosed, Cancelling, Born
    <2>4. QED
      BY <1>3, <1>5, <2>2, <2>3 DEF Own, FillsTriggered
  <1>9. t \in Syncers => RoundOK(t)'
    <2>1. task'[t].pc = "open.save"
      BY <1>3, <1>5
    <2>2. ~Orphaning(t)'
      BY <2>1 DEF Orphaning, Cancelling
    <2>3. QED
      BY <1>6, <2>1, <2>2, RoundKept
  <1>10. QED
    BY <1>5, <1>6, <1>7, <1>8, <1>9, GuardStep

\* Going on to place: what was read for a cancel stays read.
LEMMA GotoPlacing ==
  ASSUME Before, NEW t \in Tasks, NEW pc \in {"place.ticker", "place.tp"},
         Goto(t, pc), UNCHANGED sync,
         task[t].pc \in {"open.save", "place.ticker"},
         Grows, venue' = venue, OrdersOK', RowsOK'
  PROVE  GuardInv'
  <1>1. PICK q \in TaskRecord : q = task[t]
    BY Parts DEF Before, TasksOK
  <1> DEFINE r == [q EXCEPT !.pc = pc]
  <1>2. task' = [task EXCEPT ![t] = r]
    BY <1>1 DEF Goto
  <1>3. /\ r.pc = pc /\ r.pos = q.pos /\ r.after = q.after /\ r.ids = q.ids
        /\ r.book = q.book
    BY DEF TaskRecord
  <1> HIDE DEF r
  <1>4. task'[t] = r
    BY <1>2, Parts DEF Before, TasksOK
  <1>5. NewBorn(t)
    BY DEF NewBorn, Born
  <1>6. PlacesOwn(t)'
    BY <1>1, <1>3, <1>4
    DEF Before, GuardInv, Own, PlacesOwn, Placing, NoneBorn, Born, Grows
  <1>7. CancelsClosed(t)'
    BY <1>1, <1>3, <1>4
    DEF Before, GuardInv, Own, CancelsClosed, Cancelling, Born
  <1>8. Own(t)'
    BY <1>3, <1>4, <1>6, <1>7 DEF Own, FillsTriggered
  <1>9. /\ r.pc \notin Cancelling \cup {"sync.contracts", "sync.classify", "sync.orphans"}
        /\ task[t].pc \in Placing /\ r.pos = task[t].pos
    BY <1>1, <1>3 DEF Cancelling, Placing
  <1>10. QED
    BY <1>2, <1>5, <1>8, <1>9, ChainStep

\* The entry price written is one of the position's own classes.
LEMMA EntryOwn ==
  ASSUME Before, NEW p \in Positions, NEW b \in MarkBands[p],
         entry' = [entry EXCEPT ![p] = b],
         UNCHANGED <<venue, band, opened, priced, row, exId>>
  PROVE  Grows /\ OrdersOK' /\ RowsOK'
  <1>1. Grows
    BY DEF Before, Grows, Born
  <1>2. OrdersOK'
    <2>1. \A x \in Positions : entry'[x] \in MarkBands[x]
      BY Parts DEF Before, GuardInv, OrdersOK, DbTypeOK
    <2>2. \A o \in Orders : venue[o] = "canceled" => status'[o.pos] \in Closed
      BY DEF Before, GuardInv, OrdersOK, ClosedKept, Orders
    <2>3. QED
      BY <2>1, <2>2 DEF Before, GuardInv, OrdersOK, Born
  <1>3. RowsOK'
    <2>1. \A o \in Orders : row[o] = "CANCELED" => status'[o.pos] \in Closed
      BY DEF Before, GuardInv, RowsOK, ClosedKept, Orders
    <2>2. QED
      BY <2>1 DEF Before, GuardInv, RowsOK, Born, Rowed
  <1>4. QED
    BY <1>1, <1>2, <1>3

\* OpenSave goes on to place, or ends because the other leg failed.
LEMMA OpenSaveGuard ==
  ASSUME Before, NEW t \in Tasks, OpenSave(t), UNCHANGED sync
  PROVE  GuardInv'
  <1>1. At(t, "open.save") /\ task[t].pos \in Positions
    BY Parts DEF Before, OpenSave, At, TasksOK, Working, Resting
  <1>2. PICK b \in MarkBands[task[t].pos] :
           entry' = [entry EXCEPT ![task[t].pos] = b]
    BY DEF OpenSave
  <1>3. UNCHANGED <<venue, band, opened, priced, row, exId>>
    BY DEF OpenSave, venueVars
  <1>4. Grows /\ OrdersOK' /\ RowsOK' /\ NewBorn(t)
    BY <1>1, <1>2, <1>3, EntryOwn DEF NewBorn, Born
  <1>5. Goto(t, "place.ticker") \/ Finish(t)
    BY DEF OpenSave
  <1>6. QED
    BY <1>1, <1>3, <1>4, <1>5, GotoPlacing, FinishGuard DEF At

\* PlaceTicker reads the mark; without a replenish it never closes.
LEMMA PlaceTickerGuard ==
  ASSUME Before, NEW t \in Tasks, PlaceTicker(t), UNCHANGED sync
  PROVE  GuardInv'
  <1>1. At(t, "place.ticker") /\ task[t].pos \in Positions
    BY Parts DEF Before, PlaceTicker, At, TasksOK, Working, Resting
  <1>2. t \notin Replenishers
    BY DEF Before
  <1>3. PICK b \in MarkBands[task[t].pos] :
           entry' = [entry EXCEPT ![task[t].pos] = b]
    BY <1>2 DEF PlaceTicker
  <1>4. Goto(t, "place.tp")
    BY <1>2 DEF PlaceTicker
  <1>5. UNCHANGED <<venue, band, opened, priced, row, exId>>
    BY DEF PlaceTicker, venueVars
  <1>6. Grows /\ OrdersOK' /\ RowsOK'
    BY <1>1, <1>3, <1>5, EntryOwn
  <1>7. QED
    BY <1>1, <1>4, <1>5, <1>6, GotoPlacing DEF At

\* An order is accepted: the only one of its type that this position ever has.
LEMMA AcceptGuard ==
  ASSUME Before, NEW t \in Tasks, UNCHANGED sync, UNCHANGED dbVars,
         NEW type \in Types, NEW o \in Orders, NEW pc, NEW rowPc,
         \/ type = "TP" /\ pc = "place.tp" /\ rowPc = "place.tpRow"
         \/ type = "SL" /\ pc = "place.sl" /\ rowPc = "place.slRow",
         At(t, pc), IsNextOrder(o, task[t].pos, type),
         AcceptConditional(o, entry[task[t].pos]),
         task' = [task EXCEPT ![t].pc = rowPc, ![t].cur = o]
  PROVE  GuardInv'
  <1>1. PICK q \in TaskRecord : q = task[t]
    BY Parts DEF Before, TasksOK
  <1> DEFINE r == [q EXCEPT !.pc = rowPc, !.cur = o]
  <1>2. task' = [task EXCEPT ![t] = r]
    BY <1>1
  <1>3. /\ r.pc = rowPc /\ r.pos = q.pos /\ r.after = q.after /\ r.ids = q.ids
        /\ r.book = q.book /\ r.cur = o
    BY DEF TaskRecord
  <1> HIDE DEF r
  <1>4. task'[t] = r
    BY <1>2, Parts DEF Before, TasksOK
  <1>5. /\ o.pos = q.pos /\ o.type = type /\ ~Born(o) /\ q.pos \in Positions
        /\ q.pc = pc
    BY <1>1 DEF IsNextOrder, Born, At, Orders
  <1>6. /\ UNCHANGED <<opened, status, priced, entry, row, exId>>
        /\ venue' = [venue EXCEPT ![o] = "live"]
        /\ band' = [band EXCEPT ![o] = entry[q.pos]]
    BY <1>1 DEF AcceptConditional, dbVars
  <1>7. \A x \in Orders : /\ x # o => venue'[x] = venue[x] /\ band'[x] = band[x]
                          /\ x = o => venue'[x] = "live" /\ band'[x] = entry[q.pos]
    BY <1>6, Parts DEF Before, VenueTypeOK
  <1>8. NoneBorn(q.pos, type) /\ q.pos \in opened
    BY <1>1, <1>5 DEF Before, GuardInv, Own, PlacesOwn, Placing
  <1>9. Grows /\ NewBorn(t)
    <2>1. Grows
      BY <1>5, <1>6, <1>7 DEF Before, Grows, Born
    <2>2. NewBorn(t)
      BY <1>1, <1>5, <1>7 DEF NewBorn, Born, Placing
    <2>3. QED
      BY <2>1, <2>2
  <1>10. OrdersOK'
    <2>1. \A x, y \in Orders :
             Born(x)' /\ Born(y)' /\ x.pos = y.pos /\ x.type = y.type => x = y
      BY <1>5, <1>7, <1>8 DEF Before, GuardInv, OrdersOK, Born, NoneBorn
    <2>2. \A x \in Orders : band'[x] \in MarkBands[x.pos]
      BY <1>5, <1>7 DEF Before, GuardInv, OrdersOK
    <2>3. \A x \in Orders : x.pos \notin opened => ~Born(x)'
      BY <1>5, <1>7, <1>8 DEF Before, GuardInv, OrdersOK, Born
    <2>4. \A x \in Orders : venue'[x] = "canceled" => status[x.pos] \in Closed
      BY <1>7 DEF Before, GuardInv, OrdersOK
    <2>5. QED
      BY <1>6, <2>1, <2>2, <2>3, <2>4 DEF Before, GuardInv, OrdersOK
  <1>11. RowsOK'
    BY <1>6, <1>7 DEF Before, GuardInv, RowsOK, Born, Rowed
  <1>12. PlacesOwn(t)'
    <2>1. PlacesOwn(t)
      BY DEF Before, GuardInv, Own
    <2>2. Born(o)'
      BY <1>7 DEF Born
    <2>3. type = "TP" => NoneBorn(q.pos, "SL")'
      BY <1>1, <1>5, <1>7, <2>1 DEF PlacesOwn, NoneBorn, Born
    <2>4. type = "SL" => Rowed(q.pos, "TP")'
      BY <1>1, <1>5, <1>6, <2>1 DEF PlacesOwn, Rowed
    <2>5. task'[t].pc = rowPc /\ task'[t].pos = q.pos /\ task'[t].cur = o
      BY <1>3, <1>4
    <2>6. CASE rowPc = "place.tpRow" /\ type = "TP"
      BY <1>5, <1>6, <1>8, <2>2, <2>3, <2>5, <2>6 DEF PlacesOwn, At
    <2>7. CASE rowPc = "place.slRow" /\ type = "SL"
      BY <1>5, <1>6, <1>8, <2>2, <2>4, <2>5, <2>7 DEF PlacesOwn, At
    <2>8. QED
      BY <2>6, <2>7
  <1>13. CancelsClosed(t)' /\ FillsTriggered(t)'
    <2>1. q.book \subseteq Orders
      BY DEF TaskRecord
    <2>2. \A x \in q.book : Born(x)'
      BY <1>1, <1>9, <2>1 DEF Before, GuardInv, Own, CancelsClosed, Grows
    <2>3. task'[t].pc \in {"place.tpRow", "place.slRow"}
      BY <1>3, <1>4
    <2>4. /\ task'[t].after = task[t].after /\ task'[t].ids = task[t].ids
          /\ task'[t].book = q.book
      BY <1>1, <1>3, <1>4
    <2>5. CancelsClosed(t)
      BY DEF Before, GuardInv, Own
    <2>6. CancelsClosed(t)'
      BY <2>2, <2>3, <2>4, <2>5 DEF CancelsClosed, Cancelling
    <2>7. QED
      BY <2>3, <2>6 DEF FillsTriggered
  <1>14. /\ task[t].pc \in Placing /\ r.pos = task[t].pos /\ r.after = task[t].after
         /\ r.pc \in {"place.tpRow", "place.slRow"}
    BY <1>1, <1>3, <1>5 DEF Placing
  <1>15. r.pc \notin Cancelling \cup {"sync.contracts", "sync.classify", "sync.orphans"}
    BY <1>14 DEF Cancelling
  <1>16. Own(t)'
    BY <1>12, <1>13 DEF Own
  <1>17. QED
    BY <1>2, <1>9, <1>10, <1>11, <1>14, <1>15, <1>16, ChainStep

\* A placement is accepted, becomes a close at market, or is thrown.
LEMMA PlaceAtGuard ==
  ASSUME Before, NEW t \in Tasks, UNCHANGED sync,
         NEW type \in Types, NEW pc, NEW rowPc,
         \/ type = "TP" /\ pc = "place.tp" /\ rowPc = "place.tpRow"
         \/ type = "SL" /\ pc = "place.sl" /\ rowPc = "place.slRow",
         PlaceAt(t, type, pc, rowPc)
  PROVE  GuardInv'
  <1>1. At(t, pc) /\ UNCHANGED dbVars
    BY DEF PlaceAt
  <1>2. ASSUME UNCHANGED venueVars,
               task' = [task EXCEPT ![t].pc = "close.read",
                                    ![t].reason = HitReason(type)]
        PROVE  GuardInv'
    <2>1. PICK q \in TaskRecord : q = task[t]
      BY Parts DEF Before, TasksOK
    <2> DEFINE r == [q EXCEPT !.pc = "close.read", !.reason = HitReason(type)]
    <2>2. task' = [task EXCEPT ![t] = r]
      BY <1>2, <2>1
    <2>3. /\ r.pc = "close.read" /\ r.after = q.after /\ r.ids = q.ids
          /\ r.book = q.book
      BY DEF TaskRecord
    <2> HIDE DEF r
    <2>4. UNCHANGED tables
      BY <1>1, <1>2 DEF venueVars, dbVars, tables
    <2>5. QED
      BY <2>1, <2>2, <2>3, <2>4, SameTables, CalmStep DEF Calm
  <1>3. ASSUME UNCHANGED venueVars, Finish(t)
        PROVE  GuardInv'
    <2>1. UNCHANGED tables
      BY <1>1, <1>3 DEF venueVars, dbVars, tables
    <2>2. QED
      BY <1>3, <2>1, SameTables, FinishGuard
  <1>4. QED
    BY <1>1, <1>2, <1>3, AcceptGuard DEF PlaceAt

\* Both placements.
LEMMA PlaceTpSlGuard ==
  ASSUME Before, NEW t \in Tasks, UNCHANGED sync, PlaceTp(t) \/ PlaceSl(t)
  PROVE  GuardInv'
  BY PlaceAtGuard DEF PlaceTp, PlaceSl, Types

\* The row of the order just accepted is created under its own identity.
LEMMA PlaceRowGuard ==
  ASSUME Before, NEW t \in Tasks, PlaceRow(t), UNCHANGED sync
  PROVE  GuardInv'
  <1>1. PICK q \in TaskRecord : q = task[t]
    BY Parts DEF Before, TasksOK
  <1>2. PICK i \in TaskRecord : i = Idle
    BY IdleType
  <1> DEFINE pc == IF q.pc = "place.tpRow" THEN "place.sl" ELSE "place.done"
             r == [i EXCEPT !.pc = pc, !.pos = q.pos]
  <1>3. task' = [task EXCEPT ![t] = r]
    BY <1>1, <1>2 DEF PlaceRow, Proceed, At
  <1>4. /\ r.pc = pc /\ r.pos = q.pos /\ r.after = i.after /\ r.ids = i.ids
        /\ r.book = i.book
    BY DEF TaskRecord
  <1> HIDE DEF r
  <1>5. i.after = "idle" /\ i.book = {} /\ (\A o \in Orders : i.ids[o] = o)
    BY <1>2 DEF Idle
  <1>6. task'[t] = r
    BY <1>3, Parts DEF Before, TasksOK
  <1>7. q.pc \in {"place.tpRow", "place.slRow"}
    BY <1>1 DEF PlaceRow
  <1>8. PlacesOwn(t)
    BY DEF Before, GuardInv, Own
  <1>9. /\ q.cur \in Orders /\ q.cur.pos = q.pos /\ Born(q.cur)
        /\ q.cur.type = IF q.pc = "place.tpRow" THEN "TP" ELSE "SL"
        /\ q.pos \in opened
    BY <1>1, <1>7, <1>8 DEF PlacesOwn, At, Placing
  <1>10. /\ UNCHANGED <<venue, band, opened, status, priced, entry>>
         /\ row' = [row EXCEPT ![q.cur] = "PENDING"]
         /\ exId' = [exId EXCEPT ![q.cur] = q.cur]
    BY <1>1 DEF PlaceRow, venueVars
  <1>11. \A o \in Orders : /\ o # q.cur => row'[o] = row[o]
                           /\ o = q.cur => row'[o] = "PENDING"
                           /\ exId'[o] = o
    BY <1>9, <1>10, Parts DEF Before, GuardInv, RowsOK, DbTypeOK
  <1>12. Grows /\ NewBorn(t) /\ OrdersOK'
    BY <1>10, <1>11 DEF Before, GuardInv, Grows, NewBorn, OrdersOK, Born
  <1>13. \A p, type : Rowed(p, type) => Rowed(p, type)'
    BY <1>11 DEF Rowed
  <1>14. RowsOK'
    BY <1>9, <1>10, <1>11, <1>13 DEF Before, GuardInv, RowsOK, Born
  <1>15. Own(t)'
    <2>1. Rowed(q.pos, q.cur.type)'
      BY <1>9, <1>11 DEF Rowed
    <2>2. PlacesOwn(t)'
      BY <1>1, <1>4, <1>6, <1>7, <1>8, <1>9, <1>10, <1>13, <2>1
      DEF PlacesOwn, Placing, NoneBorn, Born
    <2>3. CancelsClosed(t)' /\ FillsTriggered(t)'
      BY <1>4, <1>5, <1>6, <1>7 DEF CancelsClosed, FillsTriggered, Cancelling
    <2>4. QED
      BY <2>2, <2>3 DEF Own
  <1>16. QED
    BY <1>1, <1>3, <1>4, <1>5, <1>7, <1>12, <1>14, <1>15, ChainStep DEF Placing

----------------------------------------------------------------------------
(* Closing a position and cancelling its rows                               *)

\* Writing a status, of which only the closed ones matter.
LEMMA StatusWritten ==
  ASSUME Before, NEW t, UNCHANGED <<venue, band, opened, priced, entry, row, exId>>
  PROVE  Grows /\ NewBorn(t) /\ OrdersOK' /\ RowsOK'
  <1>1. Grows /\ NewBorn(t)
    BY DEF Before, Grows, NewBorn, Born
  <1>2. OrdersOK'
    <2>1. \A o \in Orders : venue[o] = "canceled" => status'[o.pos] \in Closed
      BY DEF Before, GuardInv, OrdersOK, ClosedKept, Orders
    <2>2. QED
      BY <2>1 DEF Before, GuardInv, OrdersOK, Born
  <1>3. RowsOK'
    <2>1. \A o \in Orders : row[o] = "CANCELED" => status'[o.pos] \in Closed
      BY DEF Before, GuardInv, RowsOK, ClosedKept, Orders
    <2>2. QED
      BY <2>1 DEF Before, GuardInv, RowsOK, Born, Rowed
  <1>4. QED
    BY <1>1, <1>2, <1>3

\* CloseSave closes the position before its rows are cancelled.
LEMMA CloseSaveGuard ==
  ASSUME Before, NEW t \in Tasks, CloseSave(t), UNCHANGED sync
  PROVE  GuardInv'
  <1>1. PICK q \in TaskRecord : q = task[t]
    BY Parts DEF Before, TasksOK
  <1>2. PICK i \in TaskRecord : i = Idle
    BY IdleType
  <1> DEFINE r == [i EXCEPT !.pc = "cancel.read", !.pos = q.pos]
  <1>3. task' = [task EXCEPT ![t] = r]
    BY <1>1, <1>2 DEF CloseSave, Proceed
  <1>4. /\ r.pc = "cancel.read" /\ r.pos = q.pos /\ r.after = i.after
        /\ r.ids = i.ids /\ r.book = i.book
    BY DEF TaskRecord
  <1> HIDE DEF r
  <1>5. i.after = "idle" /\ i.book = {} /\ (\A o \in Orders : i.ids[o] = o)
    BY <1>2 DEF Idle
  <1>6. task'[t] = r
    BY <1>3, Parts DEF Before, TasksOK
  <1>7. q.pos \in Positions /\ q.reason \in Reasons
    <2>1. q.pc \notin Resting
      BY <1>1 DEF CloseSave, Resting
    <2>2. QED
      BY <1>1, <2>1, Parts DEF Before, TasksOK, Working, TaskRecord
  <1>8. status'[q.pos] \in Closed
    BY <1>1, <1>7, Parts DEF Before, CloseSave, DbTypeOK, Reasons, Closed
  <1>9. UNCHANGED <<venue, band, opened, priced, entry, row, exId>>
    BY DEF CloseSave, venueVars
  <1>10. Own(t)'
    BY <1>4, <1>5, <1>6, <1>8
    DEF Own, PlacesOwn, CancelsClosed, FillsTriggered, Placing, Cancelling
  <1>11. Grows /\ NewBorn(t) /\ OrdersOK' /\ RowsOK'
    BY <1>9, StatusWritten
  <1>12. r.pc \notin Placing
    BY <1>4 DEF Placing
  <1>13. QED
    BY <1>3, <1>4, <1>5, <1>10, <1>11, <1>12, ChainStep

\* Returning from cancelPendingOrders.
LEMMA ReturnGuard ==
  ASSUME Before, NEW t \in Tasks, Return(t), task[t].pc \in Cancelling,
         UNCHANGED sync, Grows, NewBorn(t), OrdersOK', RowsOK'
  PROVE  GuardInv'
  <1>1. PICK q \in TaskRecord : q = task[t]
    BY Parts DEF Before, TasksOK
  <1>2. PICK i \in TaskRecord : i = Idle
    BY IdleType
  <1>3. q.after \in {"idle", "sync.apply", "sync.orphans"}
    <2>1. q.after \in Continuations /\ q.after # "place.ticker"
      BY <1>1 DEF Before, GuardInv, Own, CancelsClosed, TaskRecord
    <2>2. QED
      BY <2>1 DEF Continuations
  <1> DEFINE r == [i EXCEPT !.pc = q.after, !.pos = NoPos]
  <1>4. task' = [task EXCEPT ![t] = r]
    BY <1>1, <1>2, <1>3 DEF Return
  <1>5. /\ r.pc = q.after /\ r.after = i.after /\ r.ids = i.ids /\ r.book = i.book
    BY DEF TaskRecord
  <1> HIDE DEF r
  <1>6. i.after = "idle" /\ i.book = {} /\ (\A o \in Orders : i.ids[o] = o)
    BY <1>2 DEF Idle
  <1>7. task'[t] = r
    BY <1>4, Parts DEF Before, TasksOK
  <1>8. r.pc \notin Placing \cup Cancelling \cup {"fill.row", "fill.save"}
    BY <1>3, <1>5 DEF Placing, Cancelling
  <1>9. Own(t)'
    <2>1. PlacesOwn(t)' /\ FillsTriggered(t)'
      BY <1>7, <1>8 DEF PlacesOwn, FillsTriggered, Placing
    <2>2. CancelsClosed(t)'
      BY <1>5, <1>6, <1>7, <1>8 DEF CancelsClosed, Cancelling
    <2>3. QED
      BY <2>1, <2>2 DEF Own
  <1>10. r.pc \notin {"sync.contracts", "sync.classify"}
    BY <1>3, <1>5
  <1>11. r.pc = "sync.orphans" => Orphaning(t)
    BY <1>1, <1>5 DEF Orphaning
  <1>12. QED
    BY <1>4, <1>8, <1>9, <1>10, <1>11, ChainStep

\* Going on inside cancelPendingOrders.
LEMMA CancelStep ==
  ASSUME Before, NEW t \in Tasks, NEW r, task[t].pc \in Cancelling,
         task' = [task EXCEPT ![t] = r], UNCHANGED sync, r.pc \in Cancelling,
         r.after = task[t].after, r.pos = task[t].pos,
         r.pc # "cancel.read" => \A o \in r.todo : o.pos = r.pos /\ Born(o)',
         r.pc = "cancel.mark" => r.cur \in r.todo,
         \A o \in Orders : r.ids[o] = o,
         \A o \in r.book : Born(o)',
         Grows, NewBorn(t), OrdersOK', RowsOK'
  PROVE  GuardInv'
  <1>1. task'[t] = r /\ CancelsClosed(t)
    BY Parts DEF Before, TasksOK, GuardInv, Own
  <1>2. status'[r.pos] \in Closed
    <2>1. task[t].pos \in Positions
      BY Parts DEF Before, TasksOK, Working, Cancelling, Resting
    <2>2. QED
      BY <1>1, <2>1 DEF CancelsClosed, Grows, ClosedKept
  <1>3. CancelsClosed(t)'
    BY <1>1, <1>2 DEF CancelsClosed, Cancelling
  <1>4. r.pc \notin Placing \cup {"fill.row", "fill.save", "sync.contracts",
                                  "sync.classify", "sync.orphans"}
    BY DEF Cancelling, Placing
  <1>5. Own(t)'
    BY <1>1, <1>3, <1>4 DEF Own, PlacesOwn, FillsTriggered, Placing
  <1>6. QED
    BY <1>4, <1>5, ChainStep DEF Orphaning

\* CancelRead takes the PENDING rows of a position that is closed.
LEMMA CancelReadGuard ==
  ASSUME Before, NEW t \in Tasks, CancelRead(t), UNCHANGED sync
  PROVE  GuardInv'
  <1>1. UNCHANGED tables
    BY DEF CancelRead, tables, venueVars, dbVars
  <1>2. Grows /\ NewBorn(t) /\ OrdersOK' /\ RowsOK'
    BY <1>1, SameTables
  <1>3. CASE Return(t)
    <2>1. task[t].pc \in Cancelling
      BY DEF CancelRead, At, Cancelling
    <2>2. QED
      BY <1>2, <1>3, <2>1, ReturnGuard
  <1>4. CASE ~Return(t)
    <2>1. PICK q \in TaskRecord : q = task[t]
      BY Parts DEF Before, TasksOK
    <2>2. PICK ids \in [Orders -> Orders] : ids = exId
      BY Parts DEF Before, DbTypeOK
    <2>3. PICK todo \in SUBSET Orders : todo = PendingRows(q.pos)
      BY DEF PendingRows
    <2> DEFINE r == [q EXCEPT !.pc = "cancel.book", !.todo = todo, !.ids = ids]
    <2>4. task' = [task EXCEPT ![t] = r]
      BY <1>4, <2>1, <2>2, <2>3 DEF CancelRead
    <2>5. /\ r.pc = "cancel.book" /\ r.pos = q.pos /\ r.after = q.after
          /\ r.ids = ids /\ r.book = q.book /\ r.todo = todo
      BY DEF TaskRecord
    <2> HIDE DEF r
    <2>6. \A o \in todo : o.pos = q.pos /\ Born(o)
      BY <2>3 DEF PendingRows, Before, GuardInv, RowsOK
    <2>7. \A o \in Orders : ids[o] = o
      BY <2>2 DEF Before, GuardInv, RowsOK
    <2>8. \A o \in q.book : Born(o)
      BY <2>1 DEF Before, GuardInv, Own, CancelsClosed
    <2>9. venue' = venue /\ task[t].pc \in Cancelling /\ r.pc \in Cancelling
      BY <1>1, <2>5 DEF tables, CancelRead, At, Cancelling
    <2>10. /\ \A o \in r.todo : o.pos = r.pos /\ Born(o)'
           /\ \A o \in r.book : Born(o)'
      BY <2>5, <2>6, <2>8, <2>9 DEF Born
    <2>11. QED
      BY <1>2, <2>1, <2>4, <2>5, <2>7, <2>9, <2>10, CancelStep
  <1>5. QED
    BY <1>3, <1>4

\* CancelBook reads orders that exist, or none.
LEMMA CancelBookGuard ==
  ASSUME Before, NEW t \in Tasks, CancelBook(t), UNCHANGED sync
  PROVE  GuardInv'
  <1>1. UNCHANGED tables
    BY DEF CancelBook, tables, venueVars, dbVars
  <1>2. Grows /\ NewBorn(t) /\ OrdersOK' /\ RowsOK'
    BY <1>1, SameTables
  <1>3. PICK q \in TaskRecord : q = task[t]
    BY Parts DEF Before, TasksOK
  <1>4. PICK book \in {LiveOrders, {}} :
           task' = [task EXCEPT ![t].pc = "cancel.next",
                                ![t].book = book, ![t].claimed = {}]
    BY DEF CancelBook
  <1> DEFINE r == [q EXCEPT !.pc = "cancel.next", !.book = book, !.claimed = {}]
  <1>5. task' = [task EXCEPT ![t] = r]
    BY <1>3, <1>4
  <1>6. /\ r.pc = "cancel.next" /\ r.pos = q.pos /\ r.after = q.after
        /\ r.ids = q.ids /\ r.book = book /\ r.todo = q.todo
    BY DEF TaskRecord
  <1> HIDE DEF r
  <1>7. /\ venue' = venue /\ q.pc = "cancel.book" /\ task[t].pc \in Cancelling
        /\ r.pc \in Cancelling
    BY <1>1, <1>3, <1>6 DEF tables, CancelBook, At, Cancelling
  <1>8. /\ \A o \in q.todo : o.pos = q.pos /\ Born(o)
        /\ \A o \in Orders : q.ids[o] = o
    BY <1>3, <1>7 DEF Before, GuardInv, Own, CancelsClosed
  <1>9. \A o \in book : Born(o)'
    BY <1>4, <1>7 DEF LiveOrders, Born
  <1>10. /\ \A o \in r.todo : o.pos = r.pos /\ Born(o)'
         /\ \A o \in r.book : Born(o)'
         /\ \A o \in Orders : r.ids[o] = o
         /\ r.after = task[t].after /\ r.pos = task[t].pos /\ r.pc # "cancel.mark"
    BY <1>3, <1>6, <1>7, <1>8, <1>9 DEF Born
  <1>11. QED
    BY <1>2, <1>5, <1>7, <1>10, CancelStep

\* Two orders look alike only if they are the same: the fingerprint cannot heal
\* a row with another order's identity.
LEMMA MatchesOwn ==
  ASSUME Before, NEW r \in Orders, Born(r),
         NEW available \in SUBSET Orders, \A o \in available : Born(o),
         NEW m \in Matches(r, r, available)
  PROVE  /\ m \in {r, NoOrder}
         /\ r \in available => m = r
  <1>1. ASSUME NEW o \in available, o.type = r.type, band[o] = band[r]
        PROVE  o = r
    <2>1. band[o] \in MarkBands[o.pos] /\ band[o] \in MarkBands[r.pos]
      BY <1>1 DEF Before, GuardInv, OrdersOK
    <2>2. o.pos = r.pos
      BY <2>1 DEF Before, PricesApart, Orders
    <2>3. QED
      BY <1>1, <2>2 DEF Before, GuardInv, OrdersOK
  <1>2. QED
    BY <1>1 DEF Matches, ByFingerprint

\* CancelNext cancels the row's own order, and its position is closed.
LEMMA CancelNextGuard ==
  ASSUME Before, NEW t \in Tasks, CancelNext(t), UNCHANGED sync
  PROVE  GuardInv'
  <1>1. PICK q \in TaskRecord : q = task[t]
    BY Parts DEF Before, TasksOK
  <1>2. /\ q.pc = "cancel.next" /\ task[t].pc \in Cancelling
        /\ q.todo \subseteq Orders /\ q.book \subseteq Orders
    BY <1>1 DEF CancelNext, At, Cancelling, TaskRecord
  <1>3. /\ \A o \in q.todo : o.pos = q.pos /\ Born(o)
        /\ \A o \in q.book : Born(o)
        /\ \A o \in Orders : q.ids[o] = o
        /\ status[q.pos] \in Closed
    BY <1>1, <1>2 DEF Before, GuardInv, Own, CancelsClosed, Cancelling
  <1>4. PICK w \in q.todo : \E m \in Matches(w, q.ids[w], q.book \ q.claimed) :
          /\ exId' = Heal(exId, w, m)
          /\ \/ CancelConditional(IF m = NoOrder THEN q.ids[w] ELSE m)
             \/ UNCHANGED venueVars
          /\ task' = [task EXCEPT ![t].pc = "cancel.mark", ![t].cur = w,
                                  ![t].claimed = @ \cup ({m} \cap Orders)]
    BY <1>1 DEF CancelNext
  <1>5. w \in Orders /\ q.ids[w] = w /\ Born(w) /\ w.pos = q.pos
    BY <1>2, <1>3
  <1>6. PICK m \in Matches(w, w, q.book \ q.claimed) :
          /\ exId' = Heal(exId, w, m)
          /\ \/ CancelConditional(IF m = NoOrder THEN w ELSE m)
             \/ UNCHANGED venueVars
          /\ task' = [task EXCEPT ![t].pc = "cancel.mark", ![t].cur = w,
                                  ![t].claimed = @ \cup ({m} \cap Orders)]
    BY <1>4, <1>5
  <1>7. m \in {w, NoOrder}
    BY <1>2, <1>3, <1>5, MatchesOwn
  <1>8. /\ \A o \in Orders : exId'[o] = o
        /\ \A o \in Orders : venue'[o] = venue[o]
                \/ (o = w /\ venue[o] = "live" /\ venue'[o] = "canceled")
        /\ UNCHANGED <<band, opened, status, priced, entry, row>>
    <2>1. exId' = exId \/ exId' = [exId EXCEPT ![w] = w]
      BY <1>6, <1>7 DEF Heal
    <2>2. \A o \in Orders : exId'[o] = o
      BY <1>5, <2>1, Parts DEF Before, GuardInv, RowsOK, DbTypeOK
    <2>3. CancelConditional(w) \/ UNCHANGED venueVars
      BY <1>6, <1>7
    <2>4. UNCHANGED <<band, opened, status, priced, entry, row>>
      BY <2>3 DEF CancelNext, CancelConditional, venueVars
    <2>5. \A o \in Orders : venue'[o] = venue[o]
                \/ (o = w /\ venue[o] = "live" /\ venue'[o] = "canceled")
      BY <1>5, <2>3, Parts DEF Before, CancelConditional, venueVars, VenueTypeOK
    <2>6. QED
      BY <2>2, <2>4, <2>5
  <1>9. Grows /\ NewBorn(t)
    BY <1>8 DEF Before, Grows, NewBorn, Born
  <1>10. \A o \in Orders : Born(o)' <=> Born(o)
    BY <1>8 DEF Born
  <1>11. OrdersOK'
    <2>1. \A o \in Orders : venue'[o] = "canceled" => status'[o.pos] \in Closed
      BY <1>3, <1>5, <1>8 DEF Before, GuardInv, OrdersOK
    <2>2. QED
      BY <1>8, <1>10, <2>1 DEF Before, GuardInv, OrdersOK
  <1>12. RowsOK'
    BY <1>8, <1>10 DEF Before, GuardInv, RowsOK, Rowed
  <1>13. PICK c \in SUBSET Orders : c = q.claimed \cup ({m} \cap Orders)
    BY DEF TaskRecord
  <1> DEFINE r == [q EXCEPT !.pc = "cancel.mark", !.cur = w, !.claimed = c]
  <1>14. task' = [task EXCEPT ![t] = r]
    BY <1>1, <1>6, <1>13
  <1>15. /\ r.pc = "cancel.mark" /\ r.pos = q.pos /\ r.after = q.after
         /\ r.ids = q.ids /\ r.book = q.book /\ r.todo = q.todo /\ r.cur = w
    BY DEF TaskRecord
  <1> HIDE DEF r
  <1>16. /\ \A o \in r.todo : o.pos = r.pos /\ Born(o)'
         /\ \A o \in r.book : Born(o)'
         /\ r.pc \in Cancelling /\ r.cur \in r.todo
         /\ \A o \in Orders : r.ids[o] = o
         /\ r.after = task[t].after /\ r.pos = task[t].pos
    BY <1>1, <1>2, <1>3, <1>10, <1>15 DEF Cancelling
  <1>17. QED
    BY <1>2, <1>9, <1>11, <1>12, <1>14, <1>16, CancelStep

\* CancelMark marks a row of a closed position.
LEMMA CancelMarkGuard ==
  ASSUME Before, NEW t \in Tasks, CancelMark(t), UNCHANGED sync
  PROVE  GuardInv'
  <1>1. PICK q \in TaskRecord : q = task[t]
    BY Parts DEF Before, TasksOK
  <1>2. /\ q.pc = "cancel.mark" /\ task[t].pc \in Cancelling
        /\ q.todo \subseteq Orders /\ q.book \subseteq Orders
    BY <1>1 DEF CancelMark, At, Cancelling, TaskRecord
  <1>3. /\ \A o \in q.todo : o.pos = q.pos /\ Born(o)
        /\ \A o \in q.book : Born(o)
        /\ \A o \in Orders : q.ids[o] = o
        /\ status[q.pos] \in Closed /\ q.cur \in q.todo
    BY <1>1, <1>2 DEF Before, GuardInv, Own, CancelsClosed, Cancelling
  <1>4. /\ UNCHANGED <<venue, band, opened, status, priced, entry, exId>>
        /\ row' = [row EXCEPT ![q.cur] = "CANCELED"]
    BY <1>1 DEF CancelMark, venueVars
  <1>5. \A o \in Orders : /\ o # q.cur => row'[o] = row[o]
                          /\ o = q.cur => row'[o] = "CANCELED"
    BY <1>4, Parts DEF Before, DbTypeOK
  <1>6. Grows /\ NewBorn(t) /\ OrdersOK'
    BY <1>4, <1>5 DEF Before, GuardInv, Grows, NewBorn, OrdersOK, Born
  <1>7. RowsOK'
    <2>1. \A p, type : Rowed(p, type) => Rowed(p, type)'
      BY <1>5 DEF Rowed
    <2>2. QED
      BY <1>3, <1>4, <1>5, <2>1 DEF Before, GuardInv, RowsOK, Born
  <1>8. CASE Return(t)
    BY <1>2, <1>6, <1>7, <1>8, ReturnGuard
  <1>9. CASE ~Return(t)
    <2>1. PICK left \in SUBSET Orders : left = q.todo \ {q.cur}
      BY <1>2
    <2> DEFINE r == [q EXCEPT !.pc = "cancel.next", !.todo = left, !.cur = NoOrder]
    <2>2. task' = [task EXCEPT ![t] = r]
      BY <1>1, <1>9, <2>1 DEF CancelMark
    <2>3. /\ r.pc = "cancel.next" /\ r.pos = q.pos /\ r.after = q.after
          /\ r.ids = q.ids /\ r.book = q.book /\ r.todo = left
      BY DEF TaskRecord
    <2> HIDE DEF r
    <2>4. /\ \A o \in r.todo : o.pos = r.pos /\ Born(o)'
          /\ \A o \in r.book : Born(o)'
          /\ r.pc \in Cancelling /\ r.pc # "cancel.mark"
          /\ \A o \in Orders : r.ids[o] = o
          /\ r.after = task[t].after /\ r.pos = task[t].pos
      BY <1>1, <1>3, <1>4, <2>1, <2>3 DEF Cancelling, Born
    <2>5. QED
      BY <1>2, <1>6, <1>7, <2>2, <2>4, CancelStep
  <1>10. QED
    BY <1>8, <1>9

----------------------------------------------------------------------------
(* A round: what it reads, what it decides                                  *)

\* A step inside a round, between the calls of OrderService.
LEMMA SyncGuard ==
  ASSUME Before, NEW t \in Syncers, NEW r, NEW z,
         task' = [task EXCEPT ![t] = r], sync' = [sync EXCEPT ![t] = z],
         r.pc \in Resting, r.after # "place.ticker",
         \A o \in Orders : r.ids[o] = o, \A o \in r.book : Born(o)',
         Grows, NewBorn(t), OrdersOK', RowsOK', RoundOK(t)'
  PROVE  GuardInv'
  <1>1. t \in Tasks /\ task'[t] = r /\ Alone(t)
    BY SyncerIsTask, Parts DEF Before, TasksOK, SyncTypeOK, Alone
  <1>2. r.pc \notin Placing \cup Cancelling \cup {"fill.row", "fill.save"}
    BY DEF Resting, Placing, Cancelling
  <1>3. OnePlacer'
    BY <1>1, <1>2, StillOne
  <1>4. PlacesOwn(t)' /\ FillsTriggered(t)'
    BY <1>1, <1>2 DEF PlacesOwn, FillsTriggered, Placing
  <1>5. CancelsClosed(t)'
    BY <1>1, <1>2 DEF CancelsClosed, Cancelling
  <1>6. Own(t)'
    BY <1>4, <1>5 DEF Own
  <1>7. QED
    BY <1>1, <1>3, <1>6, GuardStep

\* A round starts with rows of orders that exist.
LEMMA ReadOpenGuard ==
  ASSUME Before, NEW t \in Syncers, NEW ps, NEW strategies,
         ReadOpen(t, ps, strategies)
  PROVE  GuardInv'
  <1>1. UNCHANGED tables
    BY DEF ReadOpen, tables, venueVars, dbVars
  <1>2. Grows /\ NewBorn(t) /\ OrdersOK' /\ RowsOK'
    BY <1>1, SameTables
  <1>3. PICK q \in TaskRecord : q = task[t]
    BY SyncerIsTask, Parts DEF Before, TasksOK
  <1>4. PICK n \in SyncRecord : n = NoSync
    BY NoSyncType, Parts DEF Before
  <1> DEFINE rows == UNION {PendingRows(p) : p \in ps}
             r == [q EXCEPT !.pc = "sync.book"]
             z == [n EXCEPT !.snap = ps, !.rows = rows, !.ids = exId,
                            !.left = strategies]
  <1>5. task' = [task EXCEPT ![t] = r] /\ sync' = [sync EXCEPT ![t] = z]
    BY <1>3, <1>4 DEF ReadOpen, Goto
  <1>6. /\ r.pc = "sync.book" /\ r.after = q.after /\ r.ids = q.ids
        /\ r.book = q.book
    BY DEF TaskRecord
  <1>7. /\ z.rows = rows /\ z.ids = exId /\ z.gone = n.gone /\ z.plan = n.plan
        /\ z.todo = n.todo
    BY DEF SyncRecord
  <1>8. n.gone = {} /\ n.plan = <<>> /\ n.todo = {}
    BY <1>4 DEF NoSync
  <1>9. \A o \in rows : Born(o)
    BY DEF PendingRows, Before, GuardInv, RowsOK
  <1> HIDE DEF r, z, rows
  <1>10. t \in Tasks /\ task'[t] = r /\ sync'[t] = z
    BY <1>5, SyncerIsTask, Parts DEF Before, TasksOK, SyncTypeOK
  <1>11. /\ q.after # "place.ticker" /\ (\A o \in Orders : q.ids[o] = o)
         /\ \A o \in q.book : Born(o)
    BY <1>3, <1>10 DEF Before, GuardInv, Own, CancelsClosed
  <1>12. RoundOK(t)'
    BY <1>1, <1>6, <1>7, <1>8, <1>9, <1>10
    DEF RoundOK, Before, GuardInv, RowsOK, Born, tables
  <1>13. /\ \A o \in r.book : Born(o)'
         /\ \A o \in Orders : r.ids[o] = o
         /\ r.after # "place.ticker" /\ r.pc \in Resting
    BY <1>1, <1>6, <1>11 DEF Born, tables, Resting
  <1>14. QED
    BY <1>2, <1>5, <1>12, <1>13, SyncGuard

\* The cron's rounds and the manual ones.
LEMMA RoundStartGuard ==
  ASSUME Before, NEW t \in Syncers, CronSync(t) \/ ManualSync(t)
  PROVE  GuardInv'
  BY ReadOpenGuard DEF CronSync, ManualSync

\* The book is read after the rows: a row's order is in it, or is gone.
LEMMA SyncBookGuard ==
  ASSUME Before, NEW t \in Syncers, SyncBook(t)
  PROVE  GuardInv'
  <1>1. UNCHANGED tables
    BY DEF SyncBook, tables, venueVars, dbVars
  <1>2. Grows /\ NewBorn(t) /\ OrdersOK' /\ RowsOK'
    BY <1>1, SameTables
  <1>3. PICK q \in TaskRecord : q = task[t]
    BY SyncerIsTask, Parts DEF Before, TasksOK
  <1>4. PICK y \in SyncRecord : y = sync[t]
    BY Parts DEF Before, SyncTypeOK
  <1>5. PICK s \in y.left :
          LET here == [y EXCEPT !.left = y.left \ {s}, !.strat = s,
                         !.todo = {p \in y.snap : StrategyOf[p] = s}] IN
          /\ sync' = [sync EXCEPT ![t] = here]
          /\ \/ task' = [task EXCEPT ![t].pc = "sync.contracts",
                                     ![t].book = LiveOrders, ![t].claimed = {}]
             \/ Goto(t, "sync.apply")
    BY <1>4 DEF SyncBook
  <1> DEFINE z == [y EXCEPT !.left = y.left \ {s}, !.strat = s,
                         !.todo = {p \in y.snap : StrategyOf[p] = s}]
  <1>6. sync' = [sync EXCEPT ![t] = z]
    BY <1>5
  <1>7. z.rows = y.rows /\ z.ids = y.ids /\ z.gone = y.gone /\ z.plan = y.plan
    BY DEF SyncRecord
  <1> HIDE DEF z
  <1>8. t \in Tasks /\ sync'[t] = z
    BY <1>6, SyncerIsTask, Parts DEF Before, SyncTypeOK
  <1>9. RoundOK(t) /\ Own(t)
    BY <1>8 DEF Before, GuardInv
  <1>10. \A p, type : LatestPending(t, p, type)' = LatestPending(t, p, type)
    BY <1>4, <1>7, <1>8 DEF LatestPending
  <1>11. \A o \in Orders : Born(o) => o \in LiveOrders \/ Gone(o)
    BY Parts DEF Before, GuardInv, OrdersOK, LiveOrders, Gone, Born, VenueTypeOK,
       VenueState
  <1>12. y.rows \subseteq Orders
    BY DEF SyncRecord
  <1>13. CASE task' = [task EXCEPT ![t].pc = "sync.contracts",
                                   ![t].book = LiveOrders, ![t].claimed = {}]
    <2>1. PICK live \in SUBSET Orders : live = LiveOrders
      BY DEF LiveOrders
    <2> DEFINE r == [q EXCEPT !.pc = "sync.contracts", !.book = live, !.claimed = {}]
    <2>2. task' = [task EXCEPT ![t] = r]
      BY <1>3, <1>13, <2>1
    <2>3. /\ r.pc = "sync.contracts" /\ r.after = q.after /\ r.ids = q.ids
          /\ r.book = live /\ r.claimed = {}
      BY DEF TaskRecord
    <2> HIDE DEF r
    <2>4. task'[t] = r
      BY <1>8, <2>2, Parts DEF Before, TasksOK
    <2>5. /\ \A o \in y.rows : o \in live \/ Gone(o)'
          /\ \A o \in live : Born(o)'
      BY <1>1, <1>4, <1>9, <1>11, <1>12, <2>1
      DEF RoundOK, Gone, Born, LiveOrders, tables
    <2>6. RoundOK(t)'
      BY <1>1, <1>4, <1>7, <1>8, <1>9, <1>10, <2>3, <2>4, <2>5
      DEF RoundOK, Orphaning, Cancelling, Born, Gone, tables
    <2>7. /\ \A o \in r.book : Born(o)'
          /\ \A o \in Orders : r.ids[o] = o
          /\ r.after # "place.ticker" /\ r.pc \in Resting
      BY <1>3, <1>9, <2>3, <2>5 DEF Resting, Own, CancelsClosed
    <2>8. QED
      BY <1>2, <1>6, <2>2, <2>6, <2>7, SyncGuard
  <1>14. CASE Goto(t, "sync.apply")
    <2> DEFINE r == [q EXCEPT !.pc = "sync.apply"]
    <2>1. task' = [task EXCEPT ![t] = r]
      BY <1>3, <1>14 DEF Goto
    <2>2. /\ r.pc = "sync.apply" /\ r.after = q.after /\ r.ids = q.ids
          /\ r.book = q.book
      BY DEF TaskRecord
    <2> HIDE DEF r
    <2>3. task'[t] = r
      BY <1>8, <2>1, Parts DEF Before, TasksOK
    <2>4. RoundOK(t)'
      BY <1>1, <1>4, <1>7, <1>8, <1>9, <1>10, <2>2, <2>3
      DEF RoundOK, Orphaning, Cancelling, Born, Gone, tables
    <2>5. /\ \A o \in r.book : Born(o)'
          /\ \A o \in Orders : r.ids[o] = o
          /\ r.after # "place.ticker" /\ r.pc \in Resting
      BY <1>1, <1>3, <1>9, <2>2 DEF Resting, Own, CancelsClosed, Born, tables
    <2>6. QED
      BY <1>2, <1>6, <2>1, <2>4, <2>5, SyncGuard
  <1>15. QED
    BY <1>5, <1>13, <1>14

\* The contracts tell nothing of single orders.
LEMMA SyncContractsGuard ==
  ASSUME Before, NEW t \in Syncers, SyncContracts(t)
  PROVE  GuardInv'
  <1>1. UNCHANGED tables
    BY DEF SyncContracts, tables, venueVars, dbVars
  <1>2. Grows /\ NewBorn(t) /\ OrdersOK' /\ RowsOK'
    BY <1>1, SameTables
  <1>3. PICK q \in TaskRecord : q = task[t]
    BY SyncerIsTask, Parts DEF Before, TasksOK
  <1>4. PICK y \in SyncRecord : y = sync[t]
    BY Parts DEF Before, SyncTypeOK
  <1> DEFINE r == [q EXCEPT !.pc = "sync.classify"]
  <1>5. task' = [task EXCEPT ![t] = r]
    BY <1>3 DEF SyncContracts, Goto
  <1>6. /\ r.pc = "sync.classify" /\ r.after = q.after /\ r.ids = q.ids
        /\ r.book = q.book /\ r.claimed = q.claimed
    BY DEF TaskRecord
  <1>7. PICK z : /\ sync' = [sync EXCEPT ![t] = z]
                 /\ z.rows = y.rows /\ z.ids = y.ids /\ z.gone = y.gone
                 /\ z.plan = y.plan /\ z.todo = y.todo
    <2> DEFINE a(e) == [y EXCEPT !.posOk = TRUE, !.excess = e]
               b == [y EXCEPT !.posOk = FALSE]
    <2>1. /\ \A e : /\ a(e).rows = y.rows /\ a(e).ids = y.ids /\ a(e).gone = y.gone
                    /\ a(e).plan = y.plan /\ a(e).todo = y.todo
          /\ b.rows = y.rows /\ b.ids = y.ids /\ b.gone = y.gone
          /\ b.plan = y.plan /\ b.todo = y.todo
      BY DEF SyncRecord
    <2>2. \/ \E e : sync' = [sync EXCEPT ![t] = a(e)]
          \/ sync' = [sync EXCEPT ![t] = b]
      BY <1>4 DEF SyncContracts
    <2> HIDE DEF a, b
    <2>3. QED
      BY <2>1, <2>2
  <1> HIDE DEF r
  <1>8. t \in Tasks /\ sync'[t] = z /\ task'[t] = r
    BY <1>5, <1>7, SyncerIsTask, Parts DEF Before, SyncTypeOK, TasksOK
  <1>9. RoundOK(t) /\ Own(t) /\ task[t].pc = "sync.contracts"
    BY <1>8 DEF Before, GuardInv, SyncContracts, At
  <1>10. \A p, type : LatestPending(t, p, type)' = LatestPending(t, p, type)
    BY <1>4, <1>7, <1>8 DEF LatestPending
  <1>11. RoundOK(t)'
    BY <1>1, <1>3, <1>4, <1>6, <1>7, <1>8, <1>9, <1>10
    DEF RoundOK, Orphaning, Cancelling, Born, Gone, tables
  <1>12. /\ \A o \in r.book : Born(o)'
         /\ \A o \in Orders : r.ids[o] = o
         /\ r.after # "place.ticker" /\ r.pc \in Resting
    BY <1>1, <1>3, <1>6, <1>9 DEF Resting, Own, CancelsClosed, Born, tables
  <1>13. QED
    BY <1>2, <1>5, <1>7, <1>11, <1>12, SyncGuard

\* A row of the snapshot is matched by its own order, if that is on the book.
LEMMA MatchOneOwn ==
  ASSUME Before, NEW t \in Syncers, NEW p \in Positions, NEW type \in Types,
         NEW available \in SUBSET task[t].book,
         NEW ex \in MatchOne(LatestPending(t, p, type), sync[t].ids, available)
  PROVE  /\ LatestPending(t, p, type) = {} => ex = NoOrder
         /\ \A r \in LatestPending(t, p, type) :
               ex \in {r, NoOrder} /\ (r \in available => ex = r)
  <1> DEFINE rs == LatestPending(t, p, type)
  <1>1. /\ \A r \in sync[t].rows : Born(r)
        /\ \A o \in Orders : sync[t].ids[o] = o
        /\ \A o \in available : Born(o)
    BY SyncerIsTask DEF Before, GuardInv, RoundOK, Own, CancelsClosed
  <1>2. available \subseteq Orders /\ sync[t].rows \subseteq Orders
    BY SyncerIsTask, Parts
    DEF Before, TasksOK, TaskRecord, SyncTypeOK, SyncRecord
  <1>3. \A r \in rs : r \in Orders /\ Born(r) /\ r.pos = p /\ r.type = type
    BY <1>1, <1>2 DEF LatestPending
  <1>4. \A r, s \in rs : r = s
    BY <1>3 DEF Before, GuardInv, OrdersOK
  <1>5. CASE rs = {}
    BY <1>5 DEF MatchOne
  <1>6. ASSUME NEW r \in rs
        PROVE  ex \in {r, NoOrder} /\ (r \in available => ex = r)
    <2>1. PICK s \in rs : ex \in Matches(s, sync[t].ids[s], available)
      BY <1>6 DEF MatchOne
    <2>2. s = r /\ ex \in Matches(r, r, available)
      BY <1>1, <1>3, <1>4, <1>6, <2>1
    <2>3. QED
      BY <1>1, <1>2, <1>3, <2>2, MatchesOwn
  <1>7. QED
    BY <1>5, <1>6 DEF MatchOne

\* What the classification of p adds to the round's plans.
Adds(z, y, p, tp, sl, tpEx, slEx) ==
    /\ z.rows = y.rows /\ z.ids = y.ids /\ z.todo = y.todo \ {p}
    /\ \/ z.gone = y.gone
       \/ z.gone = y.gone \cup {p} /\ tpEx = NoOrder /\ slEx = NoOrder
    /\ \/ z.plan = y.plan
       \/ \E r \in Orders :
            /\ z.plan = Append(y.plan, [pos |-> p, row |-> r])
            /\ \/ r \in tp /\ tpEx = NoOrder
               \/ r \in sl /\ slEx = NoOrder

\* A fill is planned only of a row that no open order was matched to.
LEMMA ClassifyAdds ==
  ASSUME NEW y \in SyncRecord, NEW p \in Positions,
         NEW tp \in SUBSET Orders, NEW sl \in SUBSET Orders, NEW tpEx, NEW slEx
  PROVE  Adds(Classify(y, p, tp, sl, tpEx, slEx), y, p, tp, sl, tpEx, slEx)
  <1> DEFINE rest == [y EXCEPT !.todo = @ \ {p}]
             tpGone == tp # {} /\ tpEx = NoOrder
             slGone == sl # {} /\ slEx = NoOrder
             a == [rest EXCEPT !.gone = @ \cup {p}]
             b == [rest EXCEPT !.plan =
                     Append(y.plan, [pos |-> p, row |-> CHOOSE r \in tp : TRUE])]
             c == [rest EXCEPT !.plan =
                     Append(y.plan, [pos |-> p, row |-> CHOOSE r \in sl : TRUE])]
             z == Classify(y, p, tp, sl, tpEx, slEx)
  <1>1. /\ rest.rows = y.rows /\ rest.ids = y.ids /\ rest.todo = y.todo \ {p}
        /\ rest.gone = y.gone /\ rest.plan = y.plan
    BY DEF SyncRecord
  <1>2. /\ a.rows = y.rows /\ a.ids = y.ids /\ a.todo = y.todo \ {p}
        /\ a.gone = y.gone \cup {p} /\ a.plan = y.plan
    BY DEF SyncRecord
  <1>3. /\ b.rows = y.rows /\ b.ids = y.ids /\ b.todo = y.todo \ {p}
        /\ b.gone = y.gone
        /\ b.plan = Append(y.plan, [pos |-> p, row |-> CHOOSE r \in tp : TRUE])
    BY DEF SyncRecord
  <1>4. /\ c.rows = y.rows /\ c.ids = y.ids /\ c.todo = y.todo \ {p}
        /\ c.gone = y.gone
        /\ c.plan = Append(y.plan, [pos |-> p, row |-> CHOOSE r \in sl : TRUE])
    BY DEF SyncRecord
  <1>5. /\ tpGone /\ slGone => z = a
        /\ tpGone /\ ~slGone => z = b
        /\ ~tpGone /\ slGone => z = c
        /\ ~tpGone /\ ~slGone => z = rest
    BY DEF Classify
  <1> HIDE DEF rest, a, b, c, z
  <1>6. CASE tpGone /\ slGone
    BY <1>2, <1>5, <1>6 DEF z, Adds
  <1>7. CASE tpGone /\ ~slGone
    BY <1>3, <1>5, <1>7 DEF z, Adds
  <1>8. CASE ~tpGone /\ slGone
    BY <1>4, <1>5, <1>8 DEF z, Adds
  <1>9. CASE ~tpGone /\ ~slGone
    BY <1>1, <1>5, <1>9 DEF z, Adds
  <1>10. QED
    BY <1>6, <1>7, <1>8, <1>9 DEF z

\* A plan that grows by a fill of a gone order is still one of gone orders.
LEMMA PlanGrows ==
  ASSUME NEW plan \in Seq(Fill), \A i \in 1..Len(plan) : Gone(plan[i].row),
         NEW f, Gone(f.row)
  PROVE  \A i \in 1..Len(Append(plan, f)) : Gone(Append(plan, f)[i].row)
  <1>1. /\ Len(Append(plan, f)) = Len(plan) + 1 /\ Len(plan) \in Nat
        /\ \A i \in 1..Len(plan) : Append(plan, f)[i] = plan[i]
        /\ Append(plan, f)[Len(plan) + 1] = f
    OBVIOUS
  <1>2. QED
    BY <1>1

\* Dropping what the round no longer needs.
LEMMA DecidedOwn ==
  ASSUME Before, NEW y
  PROVE  /\ Decided(y).rows \in {y.rows, {}} /\ Decided(y).plan = y.plan
         /\ Decided(y).todo = {} /\ Decided(y).gone = {}
         /\ \A o \in Orders : Decided(y).ids[o] \in {y.ids[o], o}
  <1>1. PICK n \in SyncRecord : n = NoSync
    BY NoSyncType, Parts DEF Before
  <1>2. /\ n.rows = {} /\ n.todo = {} /\ n.gone = {}
        /\ \A o \in Orders : n.ids[o] = o
    BY <1>1 DEF NoSync
  <1>3. CASE y.left = {}
    <2> DEFINE made == [n EXCEPT !.snap = n.snap, !.rows = n.rows, !.ids = n.ids,
                                 !.left = y.left, !.strat = y.strat, !.plan = y.plan]
    <2>1. Decided(y) = made
      BY <1>1, <1>3 DEF Decided
    <2>2. /\ made.rows = n.rows /\ made.plan = y.plan /\ made.todo = n.todo
          /\ made.gone = n.gone /\ made.ids = n.ids
      BY DEF SyncRecord
    <2> HIDE DEF made
    <2>3. QED
      BY <1>2, <2>1, <2>2
  <1>4. CASE y.left # {}
    <2> DEFINE made == [n EXCEPT !.snap = y.snap, !.rows = y.rows, !.ids = y.ids,
                                 !.left = y.left, !.strat = y.strat, !.plan = y.plan]
    <2>1. Decided(y) = made
      BY <1>1, <1>4 DEF Decided
    <2>2. /\ made.rows = y.rows /\ made.plan = y.plan /\ made.todo = n.todo
          /\ made.gone = n.gone /\ made.ids = y.ids
      BY DEF SyncRecord
    <2> HIDE DEF made
    <2>3. QED
      BY <1>2, <2>1, <2>2
  <1>5. QED
    BY <1>3, <1>4

\* What the round has decided, when the step writes nothing but identities.
LEMMA RoundDecides ==
  ASSUME Before, NEW t \in Syncers, NEW z, sync'[t] = z,
         UNCHANGED <<venue, status>>,
         z.rows \in {sync[t].rows, {}}, \A o \in Orders : z.ids[o] = o,
         z.gone = {} \/ z.rows = sync[t].rows,
         \A p \in z.gone : \A type \in Types :
             \A r \in LatestPending(t, p, type) : Gone(r),
         \A i \in 1..Len(z.plan) : Gone(z.plan[i].row),
         task'[t].pc # "sync.contracts",
         task'[t].pc = "sync.classify" =>
             /\ At(t, "sync.classify") /\ task'[t].book = task[t].book
             /\ \A o \in task'[t].claimed : o.pos \notin z.todo,
         Orphaning(t)' => \A p \in z.todo : status[p] \in Closed
  PROVE  RoundOK(t)'
  <1>1. RoundOK(t)
    BY DEF Before, GuardInv
  <1>2. \A r \in z.rows : Born(r)'
    BY <1>1 DEF RoundOK, Born
  <1>3. \A o : Gone(o)' <=> Gone(o)
    BY DEF Gone
  <1>4. \A p \in z.gone : \A type \in Types :
           \A r \in LatestPending(t, p, type)' : Gone(r)'
    BY <1>3 DEF LatestPending
  <1>5. task'[t].pc = "sync.classify" =>
          \A r \in z.rows : r \in task'[t].book \/ Gone(r)'
    BY <1>1, <1>3 DEF RoundOK, At
  <1>6. QED
    BY <1>2, <1>3, <1>4, <1>5 DEF RoundOK

\* SyncClassify infers a fill only of an order that is gone.
LEMMA SyncClassifyGuard ==
  ASSUME Before, NEW t \in Syncers, NEW p \in Positions, SyncClassify(t, p)
  PROVE  GuardInv'
  <1> DEFINE tp == LatestPending(t, p, "TP")
             sl == LatestPending(t, p, "SL")
  <1>1. PICK y \in SyncRecord : y = sync[t]
    BY Parts DEF Before, SyncTypeOK
  <1>2. PICK q \in TaskRecord : q = task[t]
    BY SyncerIsTask, Parts DEF Before, TasksOK
  <1>3. t \in Tasks /\ RoundOK(t) /\ Own(t) /\ At(t, "sync.classify") /\ p \in y.todo
    BY <1>1, SyncerIsTask DEF Before, GuardInv, SyncClassify
  <1>4. PICK open \in SUBSET Orders : open = q.book \ q.claimed
    BY DEF TaskRecord
  <1> DEFINE Then(tpEx, slEx) ==
        LET made == Classify(y, p, tp, sl, tpEx, slEx)
            pc == AfterClassify(made)
        IN /\ sync' = [sync EXCEPT ![t] =
                IF pc = "sync.apply" THEN Decided(made) ELSE made]
           /\ exId' = [o \in Orders |->
                         IF o \in tp /\ tpEx # NoOrder THEN tpEx
                         ELSE IF o \in sl /\ slEx # NoOrder THEN slEx
                         ELSE exId[o]]
           /\ task' = [task EXCEPT ![t] =
                IF pc = "sync.classify"
                THEN [task[t] EXCEPT !.claimed =
                         task[t].claimed \cup ({tpEx, slEx} \cap Orders)]
                ELSE [Idle EXCEPT !.pc = pc]]
  <1>5. PICK tpEx \in MatchOne(tp, y.ids, task[t].book \ task[t].claimed) :
          \E slEx \in MatchOne(sl, y.ids,
                               (task[t].book \ task[t].claimed) \ {tpEx}) :
             Then(tpEx, slEx)
    BY <1>1 DEF SyncClassify
  <1>6. PICK slEx \in MatchOne(sl, y.ids,
                               (task[t].book \ task[t].claimed) \ {tpEx}) :
             Then(tpEx, slEx)
    BY <1>5
  <1> DEFINE made == Classify(y, p, tp, sl, tpEx, slEx)
             pc == AfterClassify(made)
  <1>7. UNCHANGED <<venue, band, opened, status, priced, entry, row>>
    BY DEF SyncClassify, venueVars
  <1>8. /\ tp \in SUBSET {o \in Orders : o.pos = p}
        /\ sl \in SUBSET {o \in Orders : o.pos = p}
    BY LatestPendingType DEF Before
  <1>9. /\ \A r \in tp : r.type = "TP"
        /\ \A r \in sl : r.type = "SL"
        /\ tp \subseteq y.rows /\ sl \subseteq y.rows
    BY <1>1 DEF LatestPending
  <1>10. /\ open \in SUBSET task[t].book
         /\ tpEx \in MatchOne(tp, sync[t].ids, open)
         /\ slEx \in MatchOne(sl, sync[t].ids, open \ {tpEx})
    BY <1>1, <1>2, <1>4, <1>5, <1>6
  <1>11. /\ tp = {} => tpEx = NoOrder
         /\ \A r \in tp : tpEx \in {r, NoOrder} /\ (r \in open => tpEx = r)
    BY <1>10, MatchOneOwn DEF Types
  <1>12. /\ sl = {} => slEx = NoOrder
         /\ \A r \in sl : slEx \in {r, NoOrder} /\ (r \in open \ {tpEx} => slEx = r)
    <2>1. PICK others \in SUBSET task[t].book : others = open \ {tpEx}
      BY <1>10
    <2>2. slEx \in MatchOne(sl, sync[t].ids, others) /\ "SL" \in Types
      BY <1>10, <2>1 DEF Types
    <2>3. /\ sl = {} => slEx = NoOrder
          /\ \A r \in sl : slEx \in {r, NoOrder} /\ (r \in others => slEx = r)
      BY <2>2, MatchOneOwn
    <2>4. QED
      BY <2>1, <2>3
  <1>13. NoOrder \notin Orders
    BY PositionsAssumption DEF NoOrder, Orders, NoPos
  <1>14. \A r \in y.rows : r \in q.book \/ Gone(r)
    BY <1>1, <1>2, <1>3 DEF RoundOK, At
  <1>15. \A o \in q.claimed : o.pos # p
    BY <1>1, <1>2, <1>3 DEF RoundOK, At
  <1>16. /\ tpEx = NoOrder => \A r \in tp : Gone(r)
         /\ slEx = NoOrder => \A r \in sl : Gone(r)
    <2>1. \A r \in tp \cup sl : r \in Orders /\ r.pos = p /\ r # NoOrder
      BY <1>8, <1>13
    <2>2. \A r \in tp \cup sl : r \in open \/ Gone(r)
      BY <1>4, <1>9, <1>14, <1>15, <2>1
    <2>3. \A r \in sl : r # tpEx
      BY <1>9, <1>11, <2>1
    <2>4. QED
      BY <1>11, <1>12, <2>1, <2>2, <2>3
  <1>17. \A o \in Orders : exId'[o] = o
    BY <1>6, <1>11, <1>12 DEF Before, GuardInv, RowsOK
  <1>18. {tpEx, slEx} \cap Orders \subseteq {o \in Orders : o.pos = p}
    BY <1>8, <1>11, <1>12, <1>13
  <1>19. Grows /\ NewBorn(t) /\ OrdersOK' /\ RowsOK'
    BY <1>7, <1>17
    DEF Before, GuardInv, Grows, NewBorn, OrdersOK, RowsOK, Born, Rowed
  <1>20. made \in SyncRecord
    BY <1>8, ClassifyType
  <1>21. /\ made.rows = y.rows /\ made.ids = y.ids /\ made.todo = y.todo \ {p}
         /\ \/ made.gone = y.gone
            \/ /\ made.gone = y.gone \cup {p}
               /\ tpEx = NoOrder /\ slEx = NoOrder
         /\ \/ made.plan = y.plan
            \/ \E r \in Orders :
                 /\ made.plan = Append(y.plan, [pos |-> p, row |-> r])
                 /\ \/ r \in tp /\ tpEx = NoOrder
                    \/ r \in sl /\ slEx = NoOrder
    <2>1. tp \in SUBSET Orders /\ sl \in SUBSET Orders
      BY <1>8
    <2> HIDE DEF tp, sl
    <2>2. Adds(made, y, p, tp, sl, tpEx, slEx)
      BY <2>1, ClassifyAdds
    <2> HIDE DEF made
    <2>3. QED
      BY <2>2 DEF Adds
  <1>22. pc \in {"sync.classify", "sync.absorb", "sync.apply"}
    BY DEF AfterClassify
  <1>23. PICK c \in SUBSET Orders : c = q.claimed \cup ({tpEx, slEx} \cap Orders)
    BY DEF TaskRecord
  <1>24. PICK i \in TaskRecord : i = Idle
    BY IdleType
  <1> DEFINE w == IF pc = "sync.apply" THEN Decided(made) ELSE made
             a == [q EXCEPT !.claimed = c]
             b == [i EXCEPT !.pc = pc]
             r == IF pc = "sync.classify" THEN a ELSE b
  <1>25. sync' = [sync EXCEPT ![t] = w] /\ task' = [task EXCEPT ![t] = r]
    BY <1>2, <1>6, <1>23, <1>24
  <1>26. /\ a.pc = q.pc /\ a.after = q.after /\ a.ids = q.ids /\ a.book = q.book
         /\ a.claimed = c
         /\ b.pc = pc /\ b.after = i.after /\ b.ids = i.ids /\ b.book = i.book
    BY DEF TaskRecord
  <1>27. i.after = "idle" /\ i.book = {} /\ (\A o \in Orders : i.ids[o] = o)
    BY <1>24 DEF Idle
  <1> HIDE DEF made, tp, sl, pc, a, b, Then
  <1>28. q.pc = "sync.classify" /\ r.pc = pc
    BY <1>2, <1>3, <1>26 DEF At
  <1>29. /\ \A o \in Orders : made.ids[o] = o
         /\ \A x \in made.gone : \A type \in Types :
               \A o \in LatestPending(t, x, type) : Gone(o)
         /\ \A k \in 1..Len(made.plan) : Gone(made.plan[k].row)
    <2>1. \A o \in Orders : made.ids[o] = o
      BY <1>1, <1>3, <1>21 DEF RoundOK
    <2>2. \A x \in made.gone : \A type \in Types :
             \A o \in LatestPending(t, x, type) : Gone(o)
      BY <1>1, <1>3, <1>16, <1>21 DEF RoundOK, Types, tp, sl
    <2>3. y.plan \in Seq(Fill) /\ \A k \in 1..Len(y.plan) : Gone(y.plan[k].row)
      BY <1>1, <1>3 DEF RoundOK, SyncRecord
    <2>4. \A k \in 1..Len(made.plan) : Gone(made.plan[k].row)
      <3>1. CASE made.plan = y.plan
        BY <2>3, <3>1
      <3>2. ASSUME NEW o \in Orders, made.plan = Append(y.plan, [pos |-> p, row |-> o]),
                   Gone(o)
            PROVE  \A k \in 1..Len(made.plan) : Gone(made.plan[k].row)
        BY <2>3, <3>2, PlanGrows
      <3>3. QED
        BY <1>16, <1>21, <3>1, <3>2
    <2>5. QED
      BY <2>1, <2>2, <2>4
  <1>30. /\ w.rows \in {y.rows, {}} /\ (\A o \in Orders : w.ids[o] = o)
         /\ w.plan = made.plan /\ (w.gone = {} \/ (w.gone = made.gone /\ w.rows = y.rows))
         /\ pc = "sync.classify" => w.todo = y.todo \ {p}
    BY <1>20, <1>21, <1>29, DecidedOwn
  <1> HIDE DEF w
  <1>31. sync'[t] = w /\ task'[t] = r
    BY <1>3, <1>25, Parts DEF Before, SyncTypeOK, TasksOK
  <1>32. pc = "sync.classify" => \A o \in c : o.pos \notin w.todo
    BY <1>1, <1>2, <1>3, <1>18, <1>23, <1>30 DEF RoundOK, At
  <1>33. RoundOK(t)'
    <2>1. task'[t].pc # "sync.contracts"
      BY <1>22, <1>28, <1>31
    <2>2. task'[t].pc = "sync.classify" =>
             /\ At(t, "sync.classify") /\ task'[t].book = task[t].book
             /\ \A o \in task'[t].claimed : o.pos \notin w.todo
      BY <1>2, <1>3, <1>26, <1>28, <1>31, <1>32
    <2>3. ~Orphaning(t)'
      BY <1>22, <1>28, <1>31 DEF Orphaning, Cancelling
    <2>4. \A x \in w.gone : \A type \in Types :
             \A o \in LatestPending(t, x, type) : Gone(o)
      BY <1>29, <1>30
    <2>5. w.rows \in {sync[t].rows, {}} /\ (w.gone = {} \/ w.rows = sync[t].rows)
      BY <1>1, <1>30
    <2>6. \A k \in 1..Len(w.plan) : Gone(w.plan[k].row)
      BY <1>29, <1>30
    <2>7. QED
      BY <1>7, <1>30, <1>31, <2>1, <2>2, <2>3, <2>4, <2>5, <2>6, RoundDecides
  <1>34. /\ r.pc \in Resting /\ r.after # "place.ticker"
         /\ \A o \in Orders : r.ids[o] = o
         /\ \A o \in r.book : Born(o)'
    BY <1>2, <1>3, <1>7, <1>22, <1>26, <1>27, <1>28
    DEF Own, CancelsClosed, Resting, Born
  <1>35. QED
    BY <1>19, <1>25, <1>33, <1>34, SyncGuard

\* SyncAbsorb plans a fill of a row that is gone.
LEMMA SyncAbsorbGuard ==
  ASSUME Before, NEW t \in Syncers, NEW p \in Positions, SyncAbsorb(t, p)
  PROVE  GuardInv'
  <1>1. UNCHANGED tables
    BY DEF SyncAbsorb, tables, venueVars, dbVars
  <1>2. Grows /\ NewBorn(t) /\ OrdersOK' /\ RowsOK'
    BY <1>1, SameTables
  <1>3. PICK q \in TaskRecord : q = task[t]
    BY SyncerIsTask, Parts DEF Before, TasksOK
  <1>4. PICK y \in SyncRecord : y = sync[t]
    BY Parts DEF Before, SyncTypeOK
  <1>5. PICK pc \in {"sync.apply", "sync.absorb"} : Goto(t, pc)
    BY DEF SyncAbsorb
  <1>6. t \in Tasks /\ RoundOK(t) /\ Own(t) /\ p \in y.gone
    BY <1>4, SyncerIsTask DEF Before, GuardInv, SyncAbsorb
  <1> DEFINE Then(locals) == IF locals.gone = {} THEN Decided(locals) ELSE locals
  <1>7. PICK z : /\ sync' = [sync EXCEPT ![t] = Then(z)]
                 /\ z.rows = y.rows /\ z.ids = y.ids /\ z.gone = y.gone \ {p}
                 /\ \/ z.plan = y.plan
                    \/ \E r \in Orders :
                         /\ z.plan = Append(y.plan, [pos |-> p, row |-> r])
                         /\ Gone(r)
    <2> DEFINE rest == [y EXCEPT !.gone = @ \ {p}]
               planned(r) ==
                 [rest EXCEPT !.excess = rest.excess - 1,
                              !.plan = Append(rest.plan, [pos |-> p, row |-> r])]
    <2>1. /\ rest.rows = y.rows /\ rest.ids = y.ids /\ rest.plan = y.plan
          /\ rest.gone = y.gone \ {p}
      BY DEF SyncRecord
    <2>2. \A r : /\ planned(r).rows = y.rows /\ planned(r).ids = y.ids
                 /\ planned(r).gone = y.gone \ {p}
                 /\ planned(r).plan = Append(y.plan, [pos |-> p, row |-> r])
      BY DEF SyncRecord
    <2>3. CASE sync[t].excess >= 1
      <3>1. PICK type \in Types : \E r \in LatestPending(t, p, type) :
               sync' = [sync EXCEPT ![t] = Then(planned(r))]
        BY <1>4, <2>3 DEF SyncAbsorb
      <3>2. PICK r \in LatestPending(t, p, type) :
               sync' = [sync EXCEPT ![t] = Then(planned(r))]
        BY <3>1
      <3>3. r \in Orders /\ Gone(r)
        BY <1>4, <1>6, LatestPendingType DEF RoundOK, Before
      <3> HIDE DEF planned, Then
      <3>4. QED
        BY <2>2, <3>2, <3>3
    <2>4. CASE ~(sync[t].excess >= 1)
      <3>1. sync' = [sync EXCEPT ![t] = Then(rest)]
        BY <1>4, <2>4 DEF SyncAbsorb
      <3> HIDE DEF rest, Then
      <3>2. QED
        BY <2>1, <3>1
    <2>5. QED
      BY <2>3, <2>4
  <1> DEFINE w == Then(z)
  <1>8. /\ w.rows \in {y.rows, {}} /\ (\A o \in Orders : w.ids[o] = o)
        /\ w.plan = z.plan /\ (w.gone = {} \/ (w.gone = z.gone /\ w.rows = y.rows))
    <2>1. \A o \in Orders : z.ids[o] = o
      BY <1>4, <1>6, <1>7 DEF RoundOK
    <2>2. QED
      BY <1>7, <2>1, DecidedOwn
  <1>9. /\ \A x \in z.gone : \A type \in Types :
              \A o \in LatestPending(t, x, type) : Gone(o)
        /\ \A k \in 1..Len(z.plan) : Gone(z.plan[k].row)
    <2>1. \A x \in z.gone : \A type \in Types :
             \A o \in LatestPending(t, x, type) : Gone(o)
      BY <1>4, <1>6, <1>7 DEF RoundOK
    <2>2. y.plan \in Seq(Fill) /\ \A k \in 1..Len(y.plan) : Gone(y.plan[k].row)
      BY <1>4, <1>6 DEF RoundOK, SyncRecord
    <2>3. ASSUME NEW o \in Orders, z.plan = Append(y.plan, [pos |-> p, row |-> o]),
                 Gone(o)
          PROVE  \A k \in 1..Len(z.plan) : Gone(z.plan[k].row)
      BY <2>2, <2>3, PlanGrows
    <2>4. QED
      BY <1>7, <2>1, <2>2, <2>3
  <1>10. sync' = [sync EXCEPT ![t] = w]
    BY <1>7
  <1> HIDE DEF w, Then
  <1> DEFINE r == [q EXCEPT !.pc = pc]
  <1>11. task' = [task EXCEPT ![t] = r]
    BY <1>3, <1>5 DEF Goto
  <1>12. r.pc = pc /\ r.after = q.after /\ r.ids = q.ids /\ r.book = q.book
    BY DEF TaskRecord
  <1> HIDE DEF r
  <1>13. sync'[t] = w /\ task'[t] = r
    BY <1>6, <1>10, <1>11, Parts DEF Before, SyncTypeOK, TasksOK
  <1>14. RoundOK(t)'
    <2>1. task'[t].pc \notin {"sync.contracts", "sync.classify"} /\ ~Orphaning(t)'
      BY <1>5, <1>12, <1>13 DEF Orphaning, Cancelling
    <2>2. UNCHANGED <<venue, status>>
      BY <1>1 DEF tables
    <2>3. /\ w.rows \in {sync[t].rows, {}} /\ (w.gone = {} \/ w.rows = sync[t].rows)
          /\ \A x \in w.gone : \A type \in Types :
                \A o \in LatestPending(t, x, type) : Gone(o)
          /\ \A k \in 1..Len(w.plan) : Gone(w.plan[k].row)
      BY <1>4, <1>8, <1>9
    <2>4. QED
      BY <1>8, <1>13, <2>1, <2>2, <2>3, RoundDecides
  <1>15. /\ r.pc \in Resting /\ r.after # "place.ticker"
         /\ \A o \in Orders : r.ids[o] = o
         /\ \A o \in r.book : Born(o)'
    BY <1>1, <1>3, <1>5, <1>6, <1>12 DEF Own, CancelsClosed, Resting, Born, tables
  <1>16. QED
    BY <1>2, <1>10, <1>11, <1>14, <1>15, SyncGuard

\* SyncApplied leaves the strategy: what is kept was read, and the rows that a
\* manual round goes on to cancel are of closed positions.
LEMMA SyncAppliedGuard ==
  ASSUME Before, NEW t \in Syncers, SyncApplied(t)
  PROVE  GuardInv'
  <1>1. UNCHANGED tables
    BY DEF SyncApplied, tables, venueVars, dbVars
  <1>2. Grows /\ NewBorn(t) /\ OrdersOK' /\ RowsOK'
    BY <1>1, SameTables
  <1>3. PICK y \in SyncRecord : y = sync[t]
    BY Parts DEF Before, SyncTypeOK
  <1>4. PICK pc \in {"sync.book", "idle", "sync.orphans"} : pc = NextStrategy(t)
    BY DEF NextStrategy
  <1>5. PICK n \in SyncRecord : n = NoSync
    BY Parts, NoSyncType DEF Before
  <1>6. PICK i \in TaskRecord : i = Idle
    BY IdleType
  <1>7. t \in Tasks /\ RoundOK(t)
    BY SyncerIsTask DEF Before, GuardInv
  <1>8. /\ n.rows = {} /\ n.todo = {} /\ n.gone = {} /\ n.plan = <<>>
        /\ \A o \in Orders : n.ids[o] = o
    BY <1>5 DEF NoSync
  <1>9. i.after = "idle" /\ i.book = {} /\ (\A o \in Orders : i.ids[o] = o)
    BY <1>6 DEF Idle
  <1> DEFINE a == [n EXCEPT !.todo = OrphanPositions(y.strat)]
             b == [n EXCEPT !.snap = y.snap, !.rows = y.rows, !.ids = y.ids,
                            !.left = y.left]
             w == IF pc = "idle" THEN n ELSE IF pc = "sync.orphans" THEN a ELSE b
             r == [i EXCEPT !.pc = pc]
  <1>10. sync' = [sync EXCEPT ![t] = w] /\ task' = [task EXCEPT ![t] = r]
    BY <1>3, <1>4, <1>5, <1>6 DEF SyncApplied, LeaveStrategy
  <1>11. /\ a.rows = {} /\ a.todo = OrphanPositions(y.strat) /\ a.gone = {}
         /\ a.plan = <<>> /\ a.ids = n.ids
         /\ b.rows = y.rows /\ b.todo = {} /\ b.gone = {} /\ b.plan = <<>>
         /\ b.ids = y.ids
    BY <1>8 DEF SyncRecord
  <1>12. r.pc = pc /\ r.after = i.after /\ r.ids = i.ids /\ r.book = i.book
    BY DEF TaskRecord
  <1> HIDE DEF a, b, r
  <1>13. /\ w.rows \in {y.rows, {}} /\ (\A o \in Orders : w.ids[o] = o)
         /\ w.gone = {} /\ w.plan = <<>>
         /\ \A p \in w.todo : status[p] \in Closed
    BY <1>3, <1>7, <1>8, <1>11 DEF RoundOK, OrphanPositions
  <1> HIDE DEF w
  <1>14. sync'[t] = w /\ task'[t] = r
    BY <1>7, <1>10, Parts DEF Before, SyncTypeOK, TasksOK
  <1>15. RoundOK(t)'
    <2>1. task'[t].pc \notin {"sync.contracts", "sync.classify"}
      BY <1>4, <1>12, <1>14
    <2>2. UNCHANGED <<venue, status>>
      BY <1>1 DEF tables
    <2>3. /\ w.rows \in {sync[t].rows, {}}
          /\ \A k \in 1..Len(w.plan) : Gone(w.plan[k].row)
      BY <1>3, <1>13
    <2>4. QED
      BY <1>13, <1>14, <2>1, <2>2, <2>3, RoundDecides
  <1>16. /\ r.pc \in Resting /\ r.after # "place.ticker"
         /\ \A o \in Orders : r.ids[o] = o
         /\ \A o \in r.book : Born(o)'
    BY <1>4, <1>9, <1>12 DEF Resting
  <1>17. QED
    BY <1>2, <1>10, <1>15, <1>16, SyncGuard

\* A round that ends knows nothing any more.
LEMMA SyncOrphansDoneGuard ==
  ASSUME Before, NEW t \in Syncers, SyncOrphansDone(t)
  PROVE  GuardInv'
  <1>1. UNCHANGED tables
    BY DEF SyncOrphansDone, tables, venueVars, dbVars
  <1>2. Grows /\ NewBorn(t) /\ OrdersOK' /\ RowsOK'
    BY <1>1, SameTables
  <1>3. PICK n \in SyncRecord : n = NoSync
    BY Parts, NoSyncType DEF Before
  <1>4. PICK i \in TaskRecord : i = Idle
    BY IdleType
  <1>5. /\ n.rows = {} /\ n.todo = {} /\ n.gone = {} /\ n.plan = <<>>
        /\ \A o \in Orders : n.ids[o] = o
    BY <1>3 DEF NoSync
  <1>6. /\ i.pc = "idle" /\ i.after = "idle" /\ i.book = {}
        /\ \A o \in Orders : i.ids[o] = o
    BY <1>4 DEF Idle
  <1>7. sync' = [sync EXCEPT ![t] = n] /\ task' = [task EXCEPT ![t] = i]
    BY <1>3, <1>4 DEF SyncOrphansDone, Finish
  <1>8. sync'[t] = n /\ task'[t] = i
    BY <1>7, SyncerIsTask, Parts DEF Before, SyncTypeOK, TasksOK
  <1>9. RoundOK(t)'
    BY <1>5, <1>6, <1>8 DEF RoundOK, Orphaning, Cancelling
  <1>10. i.pc \in Resting /\ i.after # "place.ticker" /\ \A o \in i.book : Born(o)'
    BY <1>6 DEF Resting
  <1>11. QED
    BY <1>2, <1>6, <1>7, <1>9, <1>10, SyncGuard

\* SyncApply takes up a fill whose order is gone: if the position is still OPEN,
\* the order has triggered.
LEMMA SyncApplyGuard ==
  ASSUME Before, NEW t \in Syncers, SyncApply(t)
  PROVE  GuardInv'
  <1>1. UNCHANGED tables
    BY DEF SyncApply, tables, venueVars, dbVars
  <1>2. Grows /\ NewBorn(t) /\ OrdersOK' /\ RowsOK'
    BY <1>1, SameTables
  <1>3. PICK y \in SyncRecord : y = sync[t]
    BY Parts DEF Before, SyncTypeOK
  <1>4. PICK q \in TaskRecord : q = task[t]
    BY SyncerIsTask, Parts DEF Before, TasksOK
  <1>5. t \in Tasks /\ RoundOK(t) /\ Own(t) /\ q.pc = "sync.apply"
    BY <1>4, SyncerIsTask DEF Before, GuardInv, SyncApply, At
  <1>6. y.plan \in Seq(Fill) /\ y.plan # <<>>
    BY <1>3 DEF SyncApply, SyncRecord
  <1>7. PICK f \in Fill : f = Head(y.plan)
    BY <1>6, HeadTailProperties
  <1>8. PICK plan \in Seq(Fill) : plan = Tail(y.plan)
    BY <1>6, HeadTailProperties
  <1>9. /\ f = y.plan[1] /\ Len(plan) = Len(y.plan) - 1 /\ Len(y.plan) \in Nat \ {0}
        /\ \A k \in 1..Len(plan) : plan[k] = y.plan[k + 1]
    BY <1>6, <1>7, <1>8
  <1>10. /\ Gone(f.row) /\ f.row.pos = f.pos
         /\ \A k \in 1..Len(plan) : Gone(plan[k].row)
    BY <1>3, <1>5, <1>9 DEF RoundOK, Fill
  <1> DEFINE z == [y EXCEPT !.plan = plan]
             a == [q EXCEPT !.pc = "fill.row", !.pos = f.pos, !.cur = f.row]
             r == IF status[f.pos] = "OPEN" THEN a ELSE q
  <1>11. sync' = [sync EXCEPT ![t] = z]
    BY <1>3, <1>8 DEF SyncApply
  <1>12. task' = [task EXCEPT ![t] = r]
    <2>1. task = [task EXCEPT ![t] = q]
      BY <1>4, <1>5, Parts DEF Before, TasksOK
    <2>2. status[f.pos] = "OPEN" => task' = [task EXCEPT ![t] = a]
      BY <1>3, <1>4, <1>7 DEF SyncApply
    <2>3. status[f.pos] # "OPEN" => task' = task
      BY <1>3, <1>7 DEF SyncApply
    <2>4. QED
      BY <2>1, <2>2, <2>3
  <1>13. /\ z.rows = y.rows /\ z.ids = y.ids /\ z.gone = y.gone /\ z.plan = plan
         /\ a.pc = "fill.row" /\ a.cur = f.row /\ a.after = q.after
         /\ a.ids = q.ids /\ a.book = q.book
    BY DEF SyncRecord, TaskRecord
  <1> HIDE DEF z, a
  <1>14. /\ r.pc \in {"fill.row", "sync.apply"}
         /\ r.pc = "fill.row" => status[f.pos] = "OPEN" /\ r.cur = f.row
         /\ r.after = q.after /\ r.ids = q.ids /\ r.book = q.book
    BY <1>5, <1>13
  <1> HIDE DEF r
  <1>15. sync'[t] = z /\ task'[t] = r /\ Alone(t)
    BY <1>5, <1>11, <1>12, Parts DEF Before, SyncTypeOK, TasksOK, Alone
  <1>16. RoundOK(t)'
    <2>1. task'[t].pc \notin {"sync.contracts", "sync.classify"} /\ ~Orphaning(t)'
      BY <1>14, <1>15 DEF Orphaning, Cancelling
    <2>2. UNCHANGED <<venue, status>>
      BY <1>1 DEF tables
    <2>3. /\ \A x \in z.gone : \A type \in Types :
                \A o \in LatestPending(t, x, type) : Gone(o)
          /\ \A o \in Orders : z.ids[o] = o
          /\ z.rows = sync[t].rows
          /\ \A k \in 1..Len(z.plan) : Gone(z.plan[k].row)
      BY <1>3, <1>5, <1>10, <1>13 DEF RoundOK
    <2>4. QED
      BY <1>15, <2>1, <2>2, <2>3, RoundDecides
  <1>17. Own(t)'
    <2>1. r.pc = "fill.row" => venue'[r.cur] = "triggered"
      BY <1>1, <1>10, <1>14 DEF Gone, Closed, tables
    <2>2. PlacesOwn(t)' /\ FillsTriggered(t)'
      BY <1>14, <1>15, <2>1 DEF PlacesOwn, FillsTriggered, Placing
    <2>3. CancelsClosed(t)'
      BY <1>1, <1>4, <1>5, <1>14, <1>15
      DEF Own, CancelsClosed, Cancelling, Born, tables
    <2>4. QED
      BY <2>2, <2>3 DEF Own
  <1>18. OnePlacer'
    BY <1>5, <1>14, <1>15, StillOne DEF Placing
  <1>19. QED
    BY <1>2, <1>5, <1>15, <1>16, <1>17, <1>18, GuardStep

\* FillRow writes the row of an order that has triggered.
LEMMA FillRowGuard ==
  ASSUME Before, NEW t \in Syncers, FillRow(t)
  PROVE  GuardInv'
  <1>1. PICK q \in TaskRecord : q = task[t]
    BY SyncerIsTask, Parts DEF Before, TasksOK
  <1>2. t \in Tasks /\ Own(t) /\ q.pc = "fill.row"
    BY <1>1, SyncerIsTask DEF Before, GuardInv, FillRow, At
  <1>3. q.cur \in Orders /\ venue[q.cur] = "triggered"
    BY <1>1, <1>2 DEF Before, RecordInv, FillsOwnRow, Own, FillsTriggered
  <1> DEFINE r == [q EXCEPT !.pc = "fill.save"]
  <1>4. task' = [task EXCEPT ![t] = r] /\ UNCHANGED sync
    BY <1>1 DEF FillRow, Goto
  <1>5. /\ r.pc = "fill.save" /\ r.cur = q.cur /\ r.after = q.after
        /\ r.ids = q.ids /\ r.book = q.book
    BY DEF TaskRecord
  <1> HIDE DEF r
  <1>6. task'[t] = r
    BY <1>2, <1>4, Parts DEF Before, TasksOK
  <1>7. /\ UNCHANGED <<venue, band, opened, status, priced, entry, exId>>
        /\ row' = [row EXCEPT ![q.cur] = "FILLED"]
    BY <1>1 DEF FillRow, venueVars
  <1>8. \A o \in Orders : /\ o # q.cur => row'[o] = row[o]
                          /\ o = q.cur => row'[o] = "FILLED"
    BY <1>7, Parts DEF Before, DbTypeOK
  <1>9. Grows /\ NewBorn(t) /\ OrdersOK'
    BY <1>7, <1>8 DEF Before, GuardInv, Grows, NewBorn, OrdersOK, Born
  <1>10. RowsOK'
    <2>1. \A p, type : Rowed(p, type) => Rowed(p, type)'
      BY <1>8 DEF Rowed
    <2>2. QED
      BY <1>3, <1>7, <1>8, <2>1 DEF Before, GuardInv, RowsOK, Born
  <1>11. Own(t)'
    BY <1>1, <1>2, <1>3, <1>5, <1>6, <1>7
    DEF Own, PlacesOwn, CancelsClosed, FillsTriggered, Placing, Cancelling, Born
  <1>12. r.pc \notin Placing \cup Cancelling \cup {"sync.contracts",
                                  "sync.classify", "sync.orphans"}
    BY <1>5 DEF Placing, Cancelling
  <1>13. QED
    BY <1>2, <1>4, <1>9, <1>10, <1>11, <1>12, ChainStep

\* FillSave closes the position before the other side is cancelled.
LEMMA FillSaveGuard ==
  ASSUME Before, NEW t \in Syncers, FillSave(t)
  PROVE  GuardInv'
  <1>1. PICK q \in TaskRecord : q = task[t]
    BY SyncerIsTask, Parts DEF Before, TasksOK
  <1>2. t \in Tasks /\ Own(t) /\ q.pc = "fill.save" /\ q.pos \in Positions
    BY <1>1, SyncerIsTask, Parts
    DEF Before, GuardInv, FillSave, At, TasksOK, Working, Resting
  <1> DEFINE r == [q EXCEPT !.pc = "cancel.read", !.after = "sync.apply",
                            !.cur = NoOrder]
  <1>3. task' = [task EXCEPT ![t] = r] /\ UNCHANGED sync
    BY <1>1 DEF FillSave
  <1>4. /\ r.pc = "cancel.read" /\ r.pos = q.pos /\ r.after = "sync.apply"
        /\ r.ids = q.ids /\ r.book = q.book
    BY DEF TaskRecord
  <1> HIDE DEF r
  <1>5. task'[t] = r
    BY <1>2, <1>3, Parts DEF Before, TasksOK
  <1>6. UNCHANGED <<venue, band, opened, priced, entry, row, exId>>
    BY DEF FillSave, venueVars
  <1>7. status'[q.pos] \in Closed
    BY <1>1, <1>2, Parts DEF Before, FillSave, DbTypeOK, HitReason, Closed
  <1>8. Grows /\ NewBorn(t) /\ OrdersOK' /\ RowsOK'
    BY <1>6, StatusWritten
  <1>9. Own(t)'
    BY <1>1, <1>2, <1>4, <1>5, <1>6, <1>7
    DEF Own, PlacesOwn, CancelsClosed, FillsTriggered, Placing, Cancelling, Born
  <1>10. r.pc \notin Placing
    BY <1>4 DEF Placing
  <1>11. QED
    BY <1>2, <1>3, <1>4, <1>8, <1>9, <1>10, ChainStep

\* SyncOrphan cancels for a position that is closed.
LEMMA SyncOrphanGuard ==
  ASSUME Before, NEW t \in Syncers, NEW p \in Positions, SyncOrphan(t, p)
  PROVE  GuardInv'
  <1>1. UNCHANGED tables
    BY DEF SyncOrphan, tables, venueVars, dbVars
  <1>2. Grows /\ NewBorn(t) /\ OrdersOK' /\ RowsOK'
    BY <1>1, SameTables
  <1>3. PICK y \in SyncRecord : y = sync[t]
    BY Parts DEF Before, SyncTypeOK
  <1>4. PICK q \in TaskRecord : q = task[t]
    BY SyncerIsTask, Parts DEF Before, TasksOK
  <1>5. t \in Tasks /\ RoundOK(t) /\ Own(t) /\ q.pc = "sync.orphans" /\ p \in y.todo
    BY <1>3, <1>4, SyncerIsTask DEF Before, GuardInv, SyncOrphan, At
  <1> DEFINE z == [y EXCEPT !.todo = y.todo \ {p}]
             r == [q EXCEPT !.pc = "cancel.read", !.pos = p,
                            !.after = "sync.orphans"]
  <1>6. sync' = [sync EXCEPT ![t] = z] /\ task' = [task EXCEPT ![t] = r]
    BY <1>3, <1>4 DEF SyncOrphan
  <1>7. /\ z.rows = y.rows /\ z.ids = y.ids /\ z.gone = y.gone
        /\ z.plan = y.plan /\ z.todo = y.todo \ {p}
        /\ r.pc = "cancel.read" /\ r.pos = p /\ r.after = "sync.orphans"
        /\ r.ids = q.ids /\ r.book = q.book
    BY DEF SyncRecord, TaskRecord
  <1> HIDE DEF z, r
  <1>8. sync'[t] = z /\ task'[t] = r /\ Alone(t)
    BY <1>5, <1>6, Parts DEF Before, SyncTypeOK, TasksOK, Alone
  <1>9. \A x \in y.todo : status[x] \in Closed
    BY <1>3, <1>4, <1>5 DEF RoundOK, Orphaning
  <1>10. RoundOK(t)'
    <2>1. UNCHANGED <<venue, status>>
      BY <1>1 DEF tables
    <2>2. /\ \A x \in z.gone : \A type \in Types :
                \A o \in LatestPending(t, x, type) : Gone(o)
          /\ \A o \in Orders : z.ids[o] = o
          /\ z.rows = sync[t].rows
          /\ \A k \in 1..Len(z.plan) : Gone(z.plan[k].row)
          /\ \A x \in z.todo : status[x] \in Closed
      BY <1>3, <1>5, <1>7, <1>9 DEF RoundOK
    <2>3. task'[t].pc \notin {"sync.contracts", "sync.classify"}
      BY <1>7, <1>8
    <2>4. QED
      BY <1>8, <2>1, <2>2, <2>3, RoundDecides
  <1>11. Own(t)'
    BY <1>1, <1>4, <1>5, <1>7, <1>8, <1>9
    DEF Own, PlacesOwn, CancelsClosed, FillsTriggered, Placing, Cancelling, Born,
        tables
  <1>12. OnePlacer'
    BY <1>5, <1>7, <1>8, StillOne DEF Placing
  <1>13. QED
    BY <1>2, <1>5, <1>8, <1>10, <1>11, <1>12, GuardStep

----------------------------------------------------------------------------
(* Every step                                                               *)

\* An order that triggers was live; what was known of it is still true.
LEMMA TriggerGuard ==
  ASSUME Before, NEW o \in Orders, ExchangeTrigger(o), UNCHANGED sync
  PROVE  GuardInv'
  <1>1. /\ UNCHANGED <<band, opened, status, priced, entry, row, exId, task, sync>>
        /\ venue[o] = "live" /\ venue' = [venue EXCEPT ![o] = "triggered"]
    BY DEF ExchangeTrigger, Trigger, dbVars
  <1>2. \A x \in Orders : /\ x # o => venue'[x] = venue[x]
                          /\ x = o => venue'[x] = "triggered"
    BY <1>1, Parts DEF Before, VenueTypeOK
  <1>3. Grows /\ (\A x \in Orders : Born(x)' <=> Born(x))
    BY <1>1, <1>2 DEF Before, Grows, Born
  <1>4. OrdersOK' /\ RowsOK'
    <2>1. \A p, type : Rowed(p, type)' <=> Rowed(p, type)
      BY <1>1 DEF Rowed
    <2>2. \A x \in Orders : venue'[x] = "canceled" => venue[x] = "canceled"
      BY <1>2
    <2>3. QED
      BY <1>1, <1>3, <2>1, <2>2 DEF Before, GuardInv, OrdersOK, RowsOK
  <1>5. \A t \in Tasks : Own(t)'
    BY <1>1, <1>3, OwnKept
  <1>6. ASSUME NEW t \in Syncers
        PROVE  RoundOK(t)'
    <2>1. Orphaning(t)' => Orphaning(t)
      BY <1>1 DEF Orphaning
    <2>2. QED
      BY <1>1, <1>3, <2>1, RoundKept
  <1>7. QED
    BY <1>1, <1>4, <1>5, <1>6 DEF Before, GuardInv, OnePlacer

\* Nothing moves.
LEMMA QuietGuard ==
  ASSUME Before, UNCHANGED vars
  PROVE  GuardInv'
  <1>1. UNCHANGED tables /\ task' = task /\ sync' = sync
    BY DEF vars, orderVars, venueVars, dbVars, tables
  <1>2. Grows /\ OrdersOK' /\ RowsOK'
    BY <1>1, SameTables
  <1>3. \A x \in Orders : Born(x)' <=> Born(x)
    BY <1>1 DEF tables, Born
  <1>4. \A t \in Tasks : Own(t)'
    BY <1>1, <1>2, <1>3, OwnKept
  <1>5. ASSUME NEW t \in Syncers
        PROVE  RoundOK(t)'
    <2>1. Orphaning(t)' => Orphaning(t)
      BY <1>1 DEF Orphaning
    <2>2. QED
      BY <1>1, <1>2, <2>1, RoundKept
  <1>6. QED
    BY <1>1, <1>2, <1>4, <1>5 DEF Before, GuardInv, OnePlacer

\* Initially the protected positions have one order of each type.
LEMMA InitGuard == Init => GuardInv
  <1> SUFFICES ASSUME Init PROVE GuardInv
    OBVIOUS
  <1>1. /\ \A o \in Orders : Born(o) <=> o.pos \in Protected /\ o.gen = 1
        /\ \A o \in Orders : venue[o] # "canceled"
        /\ \A o \in Orders : row[o] = IF Born(o) THEN "PENDING" ELSE "NONE"
        /\ \A o \in Orders : exId[o] = o /\ band[o] = SomeBand(o.pos)
        /\ \A p \in Positions : entry[p] = SomeBand(p)
        /\ \A p \in Positions : priced[p] => p \in Protected
        /\ opened = Protected
    BY DEF Init, OrderInit, Born, Orders
  <1>2. \A p \in Positions : SomeBand(p) \in MarkBands[p]
    BY MarkBandsAssumption DEF SomeBand
  <1>3. OrdersOK
    <2>1. \A o, q \in Orders :
             Born(o) /\ Born(q) /\ o.pos = q.pos /\ o.type = q.type => o = q
      BY <1>1 DEF Orders
    <2>2. \A o \in Orders : o.pos \in Positions
      BY DEF Orders
    <2>3. QED
      BY <1>1, <1>2, <2>1, <2>2 DEF OrdersOK
  <1>4. RowsOK
    <2>1. ASSUME NEW p \in Positions, priced[p], NEW type \in Types
          PROVE  Rowed(p, type)
      <3>1. PICK o : o = [pos |-> p, type |-> type, gen |-> 1]
        OBVIOUS
      <3>2. o \in Orders /\ o.pos = p /\ o.type = type /\ o.gen = 1
        BY <3>1, MaxGenAssumption DEF Orders
      <3>3. QED
        BY <1>1, <2>1, <3>2 DEF Rowed
    <2>2. QED
      BY <1>1, <2>1 DEF RowsOK
  <1>5. PICK i \in TaskRecord : i = Idle
    BY IdleType
  <1>6. /\ i.pc = "idle" /\ i.after = "idle" /\ i.book = {}
        /\ \A o \in Orders : i.ids[o] = o
    BY <1>5 DEF Idle
  <1>7. \A t \in Tasks : task[t] = i
    BY <1>5 DEF Init, OrderInit
  <1>8. OnePlacer /\ \A t \in Tasks : Own(t)
    BY <1>6, <1>7 DEF OnePlacer, Own, PlacesOwn, CancelsClosed, FillsTriggered,
       Placing, Cancelling
  <1>9. PICK n : n = NoSync
    OBVIOUS
  <1>10. /\ n.rows = {} /\ n.gone = {} /\ n.plan = <<>>
         /\ \A o \in Orders : n.ids[o] = o
    BY <1>9 DEF NoSync
  <1>11. \A t \in Syncers : sync[t] = n
    BY <1>9 DEF Init, SyncInit
  <1>12. \A t \in Syncers : RoundOK(t)
    BY <1>6, <1>7, <1>10, <1>11, SyncerIsTask
    DEF RoundOK, Orphaning, Cancelling
  <1>13. QED
    BY <1>3, <1>4, <1>8, <1>12 DEF GuardInv

\* The steps of OrderService,
LEMMA OrderStepGuard ==
  ASSUME Before, NEW t \in Tasks, OrderStep(t), UNCHANGED sync
  PROVE  GuardInv'
  BY OpenSaveGuard, OpenUntrackedGuard, PlaceTickerGuard, PlaceTpSlGuard,
     PlaceRowGuard, PlaceDoneGuard, ClosingGuard, CloseSaveGuard,
     CancelReadGuard, CancelBookGuard, CancelNextGuard, CancelMarkGuard
  DEF OrderStep

\* those of a round,
LEMMA SyncStepGuard ==
  ASSUME Before, NEW t \in Syncers, SyncStep(t)
  PROVE  GuardInv'
  BY SyncBookGuard, SyncContractsGuard, SyncApplyGuard, SyncAppliedGuard,
     FillRowGuard, FillSaveGuard, SyncOrphansDoneGuard, SyncClassifyGuard,
     SyncAbsorbGuard, SyncOrphanGuard
  DEF SyncStep

\* and all others.
LEMMA NextGuard ==
  ASSUME Replenishers = {}, PricesApart,
         TypeInv, RecordInv, GuardInv, [Next]_vars
  PROVE  TypeInv' /\ RecordInv' /\ ClosedKept /\ GuardInv'
  <1>1. TypeInv' /\ RecordInv' /\ ClosedKept
    BY NextType, NextRecordInv DEF ClosedKept
  <1>2. Before
    BY <1>1 DEF Before
  <1>3. CASE OrderStart /\ UNCHANGED sync
    <2>1. \A t \in Tasks, p \in Positions : ~Replenish(t, p)
      BY DEF Replenish
    <2>2. QED
      BY <1>1, <1>2, <1>3, <2>1, OpenMarketGuard, CloseRequestGuard DEF OrderStart
  <1>4. ASSUME NEW t \in Syncers, CronSync(t) \/ ManualSync(t)
        PROVE  GuardInv'
    BY <1>2, <1>4, RoundStartGuard
  <1>5. ASSUME NEW t \in Tasks, Step(t)
        PROVE  GuardInv'
    BY <1>2, <1>5, OrderStepGuard, SyncStepGuard DEF Step
  <1>6. ASSUME NEW o \in Orders, ExchangeTrigger(o), UNCHANGED sync
        PROVE  GuardInv'
    BY <1>2, <1>6, TriggerGuard
  <1>7. CASE Rest \/ UNCHANGED vars
    BY <1>1, <1>2, <1>7, QuietGuard DEF Rest
  <1>8. QED
    BY <1>1, <1>3, <1>4, <1>5, <1>6, <1>7 DEF Next

\* The invariant holds in every state.
LEMMA GuardInvariant ==
  ASSUME Replenishers = {}, PricesApart
  PROVE  Spec => [](TypeInv /\ RecordInv /\ GuardInv)
  <1>1. Init => TypeInv /\ RecordInv /\ GuardInv
    BY InitType, InitRecordInv, InitGuard
  <1>2. TypeInv /\ RecordInv /\ GuardInv /\ [Next]_vars
           => (TypeInv /\ RecordInv /\ GuardInv)'
    BY NextGuard
  <1>3. QED
    BY <1>1, <1>2, PTL DEF Spec

----------------------------------------------------------------------------
(* An OPEN position that was priced keeps both its orders                   *)

\* What the invariant says of such a position.
LEMMA GuardedIsKept ==
  ASSUME TypeInv, RecordInv, GuardInv
  PROVE  StaysGuarded
  <1> SUFFICES ASSUME NEW p \in Positions, status[p] = "OPEN", priced[p], ~Busy(p),
                      \A type \in Types : ~Triggered(p, type),
                      NEW type \in Types
               PROVE  \E o \in Orders : /\ o.pos = p /\ o.type = type
                                        /\ row[o] = "PENDING" /\ venue[o] = "live"
    BY DEF StaysGuarded
  <1>1. PICK o \in Orders : o.pos = p /\ o.type = type /\ row[o] # "NONE"
    BY DEF GuardInv, RowsOK, Rowed
  <1>2. venue[o] \notin {"unborn", "triggered"}
    BY <1>1 DEF GuardInv, RowsOK, Born, Triggered
  <1>3. venue[o] # "canceled" /\ row[o] # "CANCELED"
    BY <1>1 DEF GuardInv, OrdersOK, RowsOK, Closed
  <1>4. row[o] # "FILLED"
    <2>1. SUFFICES ASSUME row[o] = "FILLED"
                   PROVE  FALSE
      OBVIOUS
    <2>2. PICK t \in Syncers : At(t, "fill.save") /\ task[t].cur = o
      BY <1>1, <2>1 DEF RecordInv, FilledIsSettled, Closed
    <2>3. t \in Tasks /\ task[t].pos = p
      BY <1>1, <2>2, SyncerIsTask DEF RecordInv, FillsOwnRow, At
    <2>4. QED
      BY <2>3 DEF Busy
  <1>5. venue[o] = "live" /\ row[o] = "PENDING"
    <2>1. venue[o] \in VenueState /\ row[o] \in RowStatus
      BY Parts DEF VenueTypeOK, DbTypeOK
    <2>2. QED
      BY <1>1, <1>2, <1>3, <1>4, <2>1 DEF VenueState, RowStatus
  <1>6. QED
    BY <1>1, <1>5

\* No interleaving of cycles, close requests and rounds takes a guard from an
\* OPEN position: not the closing of another cycle of the leg, not a round that
\* reads the book while orders are placed, nor a failing exchange call; for any
\* number of positions and rounds, while nothing replenishes and the prices of
\* the positions are apart.
THEOREM PositionsStayGuarded ==
  ASSUME Replenishers = {}, PricesApart
  PROVE  Spec => []StaysGuarded
  <1>1. Spec => [](TypeInv /\ RecordInv /\ GuardInv)
    BY GuardInvariant
  <1>2. TypeInv /\ RecordInv /\ GuardInv => StaysGuarded
    BY GuardedIsKept
  <1>3. QED
    BY <1>1, <1>2, PTL

----------------------------------------------------------------------------
(* TP_HIT and SL_HIT are told only of what happened                         *)

AllManual == \A t \in Tasks : task[t].reason = "MANUAL"

\* A triggered order stays triggered.
LEMMA TriggeredStays ==
  ASSUME TypeInv, [Next]_vars, NEW o \in Orders, venue[o] = "triggered"
  PROVE  venue'[o] = "triggered"
  <1>1. venue \in [Orders -> VenueState]
    BY Parts DEF VenueTypeOK
  <1>2. ASSUME NEW t \in Tasks, PlaceTp(t) \/ PlaceSl(t)
        PROVE  venue'[o] = "triggered"
    BY <1>1, <1>2 DEF PlaceTp, PlaceSl, PlaceAt, AcceptConditional, IsNextOrder,
       venueVars
  <1>3. ASSUME NEW t \in Tasks, CancelNext(t)
        PROVE  venue'[o] = "triggered"
    BY <1>1, <1>3 DEF CancelNext, CancelConditional, venueVars
  <1>4. ASSUME NEW x \in Orders, ExchangeTrigger(x)
        PROVE  venue'[o] = "triggered"
    BY <1>1, <1>4 DEF ExchangeTrigger, Trigger
  <1>5. ASSUME NEW t \in Tasks, OrderStep(t)
        PROVE  venue'[o] = "triggered"
    BY <1>2, <1>3, <1>5 DEF OrderStep, OpenSave, OpenUntracked, PlaceTicker,
       PlaceRow, PlaceDone, CloseRead, CloseMarket, CloseFlat, CloseSave,
       CancelRead, CancelBook, CancelMark, ExecuteClose, venueVars
  <1>6. ASSUME NEW t \in Syncers, SyncStep(t)
        PROVE  venue'[o] = "triggered"
    BY <1>6 DEF SyncStep, SyncBook, SyncContracts, SyncApply, SyncApplied, FillRow,
       FillSave, SyncOrphansDone, SyncClassify, SyncAbsorb, SyncOrphan, venueVars
  <1>7. CASE OrderStart
    BY <1>7 DEF OrderStart, OpenMarket, ExecuteOpen, Replenish, CloseRequest,
       venueVars
  <1>8. ASSUME NEW t \in Syncers, CronSync(t) \/ ManualSync(t)
        PROVE  venue'[o] = "triggered"
    BY <1>8 DEF CronSync, ManualSync, ReadOpen, venueVars
  <1>9. CASE Rest \/ UNCHANGED vars
    BY <1>9 DEF Rest, vars, orderVars, venueVars
  <1>10. QED
    BY <1>4, <1>5, <1>6, <1>7, <1>8, <1>9 DEF Next, Step

\* How a chain's step moves closePosition's reason, when nobody closes early.
Unreasoned(t) ==
    /\ \A u \in Tasks \ {t} : task'[u] = task[u]
    /\ task'[t].reason \in {task[t].reason, "MANUAL"}

\* The steps of OrderService,
LEMMA OrderStepReason ==
  ASSUME TypeInv, NEW t \in Tasks, OrderStep(t), Replenishers = {},
         "immediate" \notin Faults
  PROVE  Unreasoned(t)
  <1>1. PICK q \in TaskRecord : q = task[t]
    BY Parts DEF TasksOK
  <1>2. task \in [Tasks -> TaskRecord]
    BY Parts DEF TasksOK
  <1>3. ASSUME NEW pc, Goto(t, pc)
        PROVE  Unreasoned(t)
    BY <1>1, <1>2, <1>3 DEF Goto, Unreasoned, TaskRecord
  <1>4. ASSUME Finish(t)
        PROVE  Unreasoned(t)
    BY <1>2, <1>4 DEF Finish, Unreasoned, Idle
  <1>5. ASSUME NEW pc, Proceed(t, pc)
        PROVE  Unreasoned(t)
    BY <1>2, <1>5 DEF Proceed, Unreasoned, Idle
  <1>6. ASSUME Return(t)
        PROVE  Unreasoned(t)
    BY <1>2, <1>6 DEF Return, Unreasoned, Idle
  <1>7. CASE OpenSave(t) \/ OpenUntracked(t) \/ PlaceTicker(t) \/ PlaceRow(t)
             \/ PlaceDone(t)
    BY <1>3, <1>4, <1>5, <1>7 DEF OpenSave, OpenUntracked, PlaceTicker, PlaceRow,
       PlaceDone
  <1>8. CASE CloseRead(t) \/ CloseMarket(t) \/ CloseFlat(t) \/ CloseSave(t)
    BY <1>3, <1>4, <1>5, <1>8 DEF CloseRead, CloseMarket, CloseFlat, CloseSave
  <1>9. CASE PlaceTp(t) \/ PlaceSl(t)
    <2>1. ASSUME NEW pc, NEW o,
                 task' = [task EXCEPT ![t].pc = pc, ![t].cur = o]
          PROVE  Unreasoned(t)
      BY <1>1, <1>2, <2>1 DEF Unreasoned, TaskRecord
    <2>2. QED
      BY <1>4, <1>9, <2>1 DEF PlaceTp, PlaceSl, PlaceAt
  <1>10. CASE CancelRead(t)
    <2>1. ASSUME NEW todo, NEW ids,
                 task' = [task EXCEPT ![t].pc = "cancel.book", ![t].todo = todo,
                                      ![t].ids = ids]
          PROVE  Unreasoned(t)
      BY <1>1, <1>2, <2>1 DEF Unreasoned, TaskRecord
    <2>2. QED
      BY <1>6, <1>10, <2>1 DEF CancelRead
  <1>11. CASE CancelBook(t)
    BY <1>1, <1>2, <1>11 DEF CancelBook, Unreasoned, TaskRecord
  <1>12. CASE CancelNext(t)
    BY <1>1, <1>2, <1>12 DEF CancelNext, Unreasoned, TaskRecord
  <1>13. CASE CancelMark(t)
    <2>1. ASSUME NEW left,
                 task' = [task EXCEPT ![t].pc = "cancel.next", ![t].todo = left,
                                      ![t].cur = NoOrder]
          PROVE  Unreasoned(t)
      BY <1>1, <1>2, <2>1 DEF Unreasoned, TaskRecord
    <2>2. QED
      BY <1>6, <1>13, <2>1 DEF CancelMark
  <1>14. QED
    BY <1>7, <1>8, <1>9, <1>10, <1>11, <1>12, <1>13 DEF OrderStep

\* and those of a round.
LEMMA SyncStepReason ==
  ASSUME TypeInv, NEW t \in Syncers, SyncStep(t) \/ CronSync(t) \/ ManualSync(t)
  PROVE  Unreasoned(t)
  <1>1. PICK q \in TaskRecord : q = task[t]
    BY SyncerIsTask, Parts DEF TasksOK
  <1>2. task \in [Tasks -> TaskRecord] /\ t \in Tasks
    BY SyncerIsTask, Parts DEF TasksOK
  <1>3. ASSUME NEW pc, Goto(t, pc)
        PROVE  Unreasoned(t)
    BY <1>1, <1>2, <1>3 DEF Goto, Unreasoned, TaskRecord
  <1>4. ASSUME NEW pc, task' = [task EXCEPT ![t] = [Idle EXCEPT !.pc = pc]]
        PROVE  Unreasoned(t)
    BY <1>2, <1>4 DEF Unreasoned, Idle
  <1>5. ASSUME Finish(t)
        PROVE  Unreasoned(t)
    BY <1>2, <1>5 DEF Finish, Unreasoned, Idle
  <1>6. CASE CronSync(t) \/ ManualSync(t)
    BY <1>3, <1>6 DEF CronSync, ManualSync, ReadOpen
  <1>7. CASE SyncBook(t)
    <2>1. ASSUME NEW book,
                 task' = [task EXCEPT ![t].pc = "sync.contracts",
                                      ![t].book = book, ![t].claimed = {}]
          PROVE  Unreasoned(t)
      BY <1>1, <1>2, <2>1 DEF Unreasoned, TaskRecord
    <2>2. QED
      BY <1>3, <1>7, <2>1 DEF SyncBook
  <1>8. CASE SyncContracts(t) \/ FillRow(t)
    BY <1>3, <1>8 DEF SyncContracts, FillRow
  <1>9. CASE SyncApply(t)
    BY <1>1, <1>2, <1>9 DEF SyncApply, Unreasoned, TaskRecord
  <1>10. CASE SyncApplied(t)
    BY <1>4, <1>10 DEF SyncApplied, LeaveStrategy
  <1>11. CASE FillSave(t)
    BY <1>1, <1>2, <1>11 DEF FillSave, Unreasoned, TaskRecord
  <1>12. CASE SyncOrphansDone(t)
    BY <1>5, <1>12 DEF SyncOrphansDone
  <1>13. ASSUME NEW p \in Positions, SyncClassify(t, p)
         PROVE  Unreasoned(t)
    <2>1. ASSUME NEW c, task' = [task EXCEPT ![t] = [task[t] EXCEPT !.claimed = c]]
          PROVE  Unreasoned(t)
      BY <1>1, <1>2, <2>1 DEF Unreasoned, TaskRecord
    <2>2. \/ \E c : task' = [task EXCEPT ![t] = [task[t] EXCEPT !.claimed = c]]
          \/ \E pc : task' = [task EXCEPT ![t] = [Idle EXCEPT !.pc = pc]]
      BY <1>13 DEF SyncClassify
    <2>3. QED
      BY <1>4, <2>1, <2>2
  <1>14. ASSUME NEW p \in Positions, SyncAbsorb(t, p)
         PROVE  Unreasoned(t)
    BY <1>3, <1>14 DEF SyncAbsorb
  <1>15. ASSUME NEW p \in Positions, SyncOrphan(t, p)
         PROVE  Unreasoned(t)
    BY <1>1, <1>2, <1>15 DEF SyncOrphan, Unreasoned, TaskRecord
  <1>16. QED
    BY <1>6, <1>7, <1>8, <1>9, <1>10, <1>11, <1>12, <1>13, <1>14, <1>15 DEF SyncStep

\* Nobody gives a reason but MANUAL.
LEMMA ReasonStays ==
  ASSUME TypeInv, AllManual, [Next]_vars, Replenishers = {},
         "immediate" \notin Faults, LocalAutoClose = FALSE
  PROVE  AllManual'
  <1>1. ASSUME NEW t \in Tasks, Unreasoned(t)
        PROVE  AllManual'
    BY <1>1 DEF AllManual, Unreasoned
  <1>2. CASE OrderStart
    <2>1. \A t \in Tasks, p \in Positions : ~Replenish(t, p)
      BY DEF Replenish
    <2>2. ASSUME NEW t \in Tasks, NEW p \in Positions, OpenMarket(t, p)
          PROVE  Unreasoned(t)
      <3>1. PICK q \in TaskRecord : q = task[t]
        BY Parts DEF TasksOK
      <3>2. QED
        BY <2>2, <3>1, Parts DEF TasksOK, OpenMarket, Unreasoned, TaskRecord
    <2>3. ASSUME NEW t \in Tasks, NEW p \in Positions, NEW r \in Reasons,
                 CloseRequest(t, p, r)
          PROVE  Unreasoned(t)
      <3>1. PICK q \in TaskRecord : q = task[t]
        BY Parts DEF TasksOK
      <3>2. r = "MANUAL"
        BY <2>3 DEF CloseRequest
      <3>3. QED
        BY <2>3, <3>1, <3>2, Parts DEF TasksOK, CloseRequest, Unreasoned, TaskRecord
    <2>4. QED
      BY <1>1, <1>2, <2>1, <2>2, <2>3 DEF OrderStart
  <1>3. ASSUME NEW t \in Syncers, CronSync(t) \/ ManualSync(t)
        PROVE  AllManual'
    BY <1>1, <1>3, SyncerIsTask, SyncStepReason
  <1>4. ASSUME NEW t \in Tasks, Step(t)
        PROVE  AllManual'
    BY <1>1, <1>4, SyncStepReason, OrderStepReason DEF Step
  <1>5. ASSUME NEW o \in Orders, ExchangeTrigger(o)
        PROVE  AllManual'
    BY <1>5 DEF ExchangeTrigger, AllManual
  <1>6. CASE Rest \/ UNCHANGED vars
    BY <1>6 DEF Rest, vars, orderVars, AllManual
  <1>7. QED
    BY <1>2, <1>3, <1>4, <1>5, <1>6 DEF Next

\* What a step may write to the status of p.
Tells(p) ==
    \/ status'[p] = status[p]
    \/ status'[p] \in {"OPEN", "MANUAL", "CLOSED"}
    \/ \E o \in Orders : /\ status'[p] = HitReason(o.type)
                         /\ o.pos = p /\ venue[o] = "triggered"

\* No step of OrderService tells of a hit,
LEMMA OrderStepTells ==
  ASSUME TypeInv, AllManual, NEW t \in Tasks, OrderStep(t)
  PROVE  \A p \in Positions : Tells(p)
  <1>1. status \in [Positions -> PosStatus]
    BY Parts DEF DbTypeOK
  <1>2. CASE OpenSave(t)
    BY <1>1, <1>2 DEF OpenSave, Tells
  <1>3. CASE CloseSave(t)
    <2>1. task[t].reason = "MANUAL"
      BY DEF AllManual
    <2>2. QED
      BY <1>1, <1>3, <2>1 DEF CloseSave, Tells
  <1>4. CASE status' = status
    BY <1>4 DEF Tells
  <1>5. QED
    BY <1>2, <1>3, <1>4
    DEF OrderStep, OpenUntracked, PlaceTicker, PlaceTp, PlaceSl, PlaceAt, PlaceRow,
        PlaceDone, CloseRead, CloseMarket, CloseFlat, CancelRead, CancelBook,
        CancelNext, CancelMark, dbVars

\* and a round only of one that happened.
LEMMA SyncStepTells ==
  ASSUME TypeInv, RecordInv, GuardInv, NEW t \in Syncers, SyncStep(t)
  PROVE  \A p \in Positions : Tells(p)
  <1>1. status \in [Positions -> PosStatus]
    BY Parts DEF DbTypeOK
  <1>2. CASE FillSave(t)
    <2>1. t \in Tasks /\ task[t].pc = "fill.save"
      BY <1>2, SyncerIsTask DEF FillSave, At
    <2>2. PICK o : o = task[t].cur
      OBVIOUS
    <2>3. o \in Orders /\ o.pos = task[t].pos /\ venue[o] = "triggered"
      BY <2>1, <2>2 DEF RecordInv, FillsOwnRow, GuardInv, Own, FillsTriggered
    <2>4. status' = [status EXCEPT ![o.pos] = HitReason(o.type)]
      BY <1>2, <2>2, <2>3 DEF FillSave
    <2>5. QED
      BY <1>1, <2>3, <2>4 DEF Tells
  <1>3. CASE status' = status
    BY <1>3 DEF Tells
  <1>4. QED
    BY <1>2, <1>3
    DEF SyncStep, SyncBook, SyncContracts, SyncApply, SyncApplied, FillRow,
        SyncOrphansDone, SyncClassify, SyncAbsorb, SyncOrphan, dbVars

\* Every step tells the truth.
LEMMA NextTells ==
  ASSUME TypeInv, RecordInv, GuardInv, AllManual, [Next]_vars
  PROVE  \A p \in Positions : Tells(p)
  <1>1. CASE status' = status
    BY <1>1 DEF Tells
  <1>2. CASE OrderStart
    BY <1>1, <1>2 DEF OrderStart, OpenMarket, Replenish, CloseRequest, dbVars
  <1>3. ASSUME NEW t \in Syncers, CronSync(t) \/ ManualSync(t)
        PROVE  status' = status
    BY <1>3 DEF CronSync, ManualSync, ReadOpen, dbVars
  <1>4. ASSUME NEW t \in Tasks, Step(t)
        PROVE  \A p \in Positions : Tells(p)
    BY <1>4, OrderStepTells, SyncStepTells DEF Step
  <1>5. ASSUME NEW o \in Orders, ExchangeTrigger(o)
        PROVE  status' = status
    BY <1>5 DEF ExchangeTrigger, dbVars
  <1>6. CASE Rest \/ UNCHANGED vars
    BY <1>1, <1>6 DEF Rest, vars, orderVars, dbVars
  <1>7. QED
    BY <1>1, <1>2, <1>3, <1>4, <1>5, <1>6 DEF Next

\* Nothing that was told becomes untrue.
LEMMA HitStep ==
  ASSUME TypeInv, RecordInv, GuardInv, AllManual, HitOnlyIfTriggered, [Next]_vars
  PROVE  HitOnlyIfTriggered'
  <1>1. \A o \in Orders : venue[o] = "triggered" => venue'[o] = "triggered"
    BY TriggeredStays
  <1>2. \A p, type : Triggered(p, type) => Triggered(p, type)'
    BY <1>1 DEF Triggered
  <1>3. ASSUME NEW p \in Positions
        PROVE  /\ status'[p] = "TP_HIT" => Triggered(p, "TP")'
               /\ status'[p] = "SL_HIT" => Triggered(p, "SL")'
    <2>1. CASE status'[p] \in {status[p], "OPEN", "MANUAL", "CLOSED"}
      BY <1>2, <2>1 DEF HitOnlyIfTriggered
    <2>2. ASSUME NEW o \in Orders, status'[p] = HitReason(o.type), o.pos = p,
                 venue[o] = "triggered"
          PROVE  /\ status'[p] = "TP_HIT" => Triggered(p, "TP")'
                 /\ status'[p] = "SL_HIT" => Triggered(p, "SL")'
      <3>1. o.type \in {"TP", "SL"} /\ venue'[o] = "triggered"
        BY <1>1, <2>2 DEF Orders, Types
      <3>2. QED
        BY <2>2, <3>1 DEF HitReason, Triggered
    <2>3. QED
      BY <2>1, <2>2, NextTells DEF Tells
  <1>4. QED
    BY <1>3 DEF HitOnlyIfTriggered

\* A round infers a fill from an order that it misses in the book, yet TP_HIT
\* (SL_HIT) is recorded only of a position whose own TP (SL) order triggered,
\* whatever is opened, closed or cancelled between its reads and its writes; for
\* any number of positions, strategies and rounds, when the prices of the
\* positions are apart, nothing replenishes, and the callers that close with a
\* reason of their own (local auto-close, a trigger price already passed) are
\* not there.
THEOREM HitsAreReal ==
  ASSUME Replenishers = {}, PricesApart, LocalAutoClose = FALSE,
         "immediate" \notin Faults
  PROVE  Spec => []HitOnlyIfTriggered
  <1>1. Spec => [](TypeInv /\ RecordInv /\ GuardInv)
    BY GuardInvariant
  <1>2. Init => AllManual /\ HitOnlyIfTriggered
    <2> SUFFICES ASSUME Init
                 PROVE  AllManual /\ HitOnlyIfTriggered
      OBVIOUS
    <2>2. AllManual
      <3>1. Idle.reason = "MANUAL"
        BY DEF Idle
      <3>2. \A t \in Tasks : task[t] = Idle
        BY DEF Init, OrderInit
      <3>3. QED
        BY <3>1, <3>2 DEF AllManual
    <2>3. \A p \in Positions : status[p] \in {"OPEN", "NONE"}
      BY DEF Init, OrderInit
    <2>4. QED
      BY <2>2, <2>3 DEF HitOnlyIfTriggered
  <1>3. TypeInv /\ RecordInv /\ GuardInv /\ AllManual /\ HitOnlyIfTriggered
          /\ [Next]_vars => AllManual' /\ HitOnlyIfTriggered'
    BY ReasonStays, HitStep
  <1>4. QED
    BY <1>1, <1>2, <1>3, PTL DEF Spec

----------------------------------------------------------------------------
(* A closed position leaves nothing behind                                  *)

\* Cancelling what t has read of the rows of its position will leave none.
CancelsAll(t) ==
    /\ task[t].pc = "cancel.mark" => venue[task[t].cur] # "live"
    /\ task[t].pc \in Cancelling \ {"cancel.read"} =>
          PendingRows(task[t].pos) \subseteq task[t].todo

\* A position that nobody places orders for: its live orders have a PENDING row,
\* and once it is closed somebody cancels these rows while there are any.
ResidueOf(p) ==
    /\ \A t \in Tasks : task[t].pc \in Placing => task[t].pos # p
    /\ \A o \in Orders : o.pos = p /\ venue[o] = "live" => row[o] = "PENDING"
    /\ \A t \in Tasks : task[t].pos = p => CancelsAll(t)
    /\ status[p] \in Closed /\ PendingRows(p) # {} =>
          \E t \in Tasks : task[t].pc \in Cancelling /\ task[t].pos = p

ResidueInv == Protected \subseteq opened /\ \A p \in Protected : ResidueOf(p)

\* What a step leaves to show.
LEMMA ResidueStep ==
  ASSUME TypeInv, GuardInv, NEW p \in Positions, ResidueOf(p), NEW t \in Tasks,
         \A u \in Tasks \ {t} : task'[u] = task[u],
         task'[t].pc \in Placing => task'[t].pos # p,
         \A o \in Orders : o.pos = p =>
             /\ venue'[o] = "live" => venue[o] = "live" /\ row'[o] = "PENDING"
             /\ row'[o] = "PENDING" => row[o] = "PENDING",
         task'[t].pos = p => CancelsAll(t)',
         status'[p] \in Closed => \/ status[p] \in Closed
                                  \/ task'[t].pc \in Cancelling /\ task'[t].pos = p,
         task[t].pc \in Cancelling /\ task[t].pos = p =>
             \/ task'[t].pc \in Cancelling /\ task'[t].pos = p
             \/ PendingRows(p)' = {}
  PROVE  ResidueOf(p)'
  <1>1. PendingRows(p)' \subseteq PendingRows(p)
    BY DEF PendingRows
  <1>2. ASSUME NEW u \in Tasks, u # t, task'[u].pos = p
        PROVE  CancelsAll(u)'
    <2>1. task'[u] = task[u] /\ task[u].pos = p
      BY <1>2
    <2>2. CancelsAll(u) /\ CancelsClosed(u)
      BY <2>1 DEF ResidueOf, GuardInv, Own
    <2>3. PICK q \in TaskRecord : q = task[u]
      BY Parts DEF TasksOK
    <2>4. q.todo \subseteq Orders
      BY DEF TaskRecord
    <2>5. q.pc = "cancel.mark" => venue'[q.cur] # "live"
      <3>1. q.pc = "cancel.mark" => q.cur \in Orders /\ q.cur.pos = p
        BY <2>1, <2>2, <2>3, <2>4 DEF CancelsClosed, Cancelling
      <3>2. QED
        BY <2>2, <2>3, <3>1 DEF CancelsAll
    <2>6. q.pc \in Cancelling \ {"cancel.read"} => PendingRows(p)' \subseteq q.todo
      BY <1>1, <2>1, <2>2, <2>3 DEF CancelsAll
    <2>7. task'[u] = q /\ q.pos = p
      BY <2>1, <2>3
    <2>8. PendingRows(task[u].pos)' = PendingRows(p)'
      BY <1>2 DEF PendingRows
    <2>9. QED
      BY <2>5, <2>6, <2>7, <2>8 DEF CancelsAll
  <1>3. \A u \in Tasks : task'[u].pos = p => CancelsAll(u)'
    BY <1>2
  <1>4. \A u \in Tasks : task'[u].pc \in Placing => task'[u].pos # p
    BY DEF ResidueOf
  <1>5. status'[p] \in Closed /\ PendingRows(p)' # {} =>
          \E u \in Tasks : task'[u].pc \in Cancelling /\ task'[u].pos = p
    BY <1>1 DEF ResidueOf
  <1>6. \A o \in Orders : o.pos = p /\ venue'[o] = "live" => row'[o] = "PENDING"
    OBVIOUS
  <1>7. QED
    BY <1>3, <1>4, <1>5, <1>6 DEF ResidueOf

\* A chain that was not cancelling, and does not begin to place,
QuietMove(t) ==
    /\ \A u \in Tasks \ {t} : task'[u] = task[u]
    /\ task[t].pc \notin Cancelling
    /\ task'[t].pc \in Cancelling => task'[t].pc = "cancel.read"
    /\ task'[t].pc \in Placing =>
          task[t].pc \in Placing /\ task'[t].pos = task[t].pos

\* and a step that does not touch what p has.
QuietAt(p) ==
    /\ \A o \in Orders : o.pos = p => venue'[o] = venue[o] /\ row'[o] = row[o]
    /\ status'[p] = status[p] \/ status'[p] \notin Closed

\* Such a step keeps the invariant.
LEMMA ResidueQuiet ==
  ASSUME TypeInv, GuardInv, NEW p \in Positions, ResidueOf(p), NEW t \in Tasks,
         QuietMove(t), QuietAt(p)
  PROVE  ResidueOf(p)'
  <1>1. CancelsAll(t)'
    BY DEF QuietMove, CancelsAll, Cancelling
  <1>2. task'[t].pc \in Placing => task'[t].pos # p
    BY DEF QuietMove, ResidueOf
  <1>3. /\ \A u \in Tasks \ {t} : task'[u] = task[u]
        /\ task[t].pc \notin Cancelling
    BY DEF QuietMove
  <1>4. /\ \A o \in Orders : o.pos = p =>
              /\ venue'[o] = "live" => venue[o] = "live" /\ row'[o] = "PENDING"
              /\ row'[o] = "PENDING" => row[o] = "PENDING"
        /\ status'[p] \in Closed => status[p] \in Closed
    BY DEF QuietAt, ResidueOf
  <1>5. QED
    BY <1>1, <1>2, <1>3, <1>4, ResidueStep

\* The quiet steps of OrderService.
LEMMA OrderQuiet ==
  ASSUME TypeInv, GuardInv, NEW p \in Positions, ResidueOf(p), NEW t \in Tasks,
         \/ OpenSave(t) \/ OpenUntracked(t) \/ PlaceTicker(t) \/ PlaceTp(t)
         \/ PlaceSl(t) \/ PlaceRow(t) \/ PlaceDone(t)
         \/ CloseRead(t) \/ CloseMarket(t) \/ CloseFlat(t)
  PROVE  QuietMove(t) /\ QuietAt(p)
  <1>1. PICK q \in TaskRecord : q = task[t]
    BY Parts DEF TasksOK
  <1>2. task \in [Tasks -> TaskRecord]
    BY Parts DEF TasksOK
  <1>3. ASSUME NEW pc, Goto(t, pc), q.pc \notin Cancelling, pc \notin Cancelling,
               pc \in Placing => q.pc \in Placing
        PROVE  QuietMove(t)
    BY <1>1, <1>2, <1>3 DEF Goto, QuietMove, TaskRecord
  <1>4. ASSUME Finish(t), q.pc \notin Cancelling
        PROVE  QuietMove(t)
    <2>1. task'[t].pc = "idle"
      BY <1>2, <1>4, IdleType DEF Finish
    <2>2. QED
      BY <1>1, <1>2, <1>4, <2>1 DEF Finish, QuietMove, Cancelling, Placing
  <1>5. UNCHANGED <<venue, row, status>> => QuietAt(p)
    BY DEF QuietAt
  <1>6. CASE OpenSave(t)
    <2>1. QuietMove(t)
      BY <1>1, <1>3, <1>4, <1>6 DEF OpenSave, At, Placing, Cancelling
    <2>2. QuietAt(p)
      BY <1>6, Parts DEF DbTypeOK, OpenSave, QuietAt, Closed, venueVars
    <2>3. QED
      BY <2>1, <2>2
  <1>7. CASE OpenUntracked(t) \/ PlaceDone(t)
    BY <1>1, <1>4, <1>5, <1>7
    DEF OpenUntracked, PlaceDone, At, Cancelling, venueVars, dbVars
  <1>8. CASE PlaceTicker(t)
    <2>1. ASSUME NEW reason,
                 task' = [task EXCEPT ![t].pc = "close.read", ![t].reason = reason],
                 q.pc = "place.ticker"
          PROVE  QuietMove(t)
      BY <1>1, <1>2, <2>1 DEF QuietMove, TaskRecord, Placing, Cancelling
    <2>2. QuietMove(t)
      BY <1>1, <1>3, <1>8, <2>1 DEF PlaceTicker, At, Placing, Cancelling
    <2>3. QED
      BY <1>5, <1>8, <2>2 DEF PlaceTicker, venueVars
  <1>9. ASSUME NEW type \in Types, NEW pc, NEW rowPc,
               \/ pc = "place.tp" /\ rowPc = "place.tpRow"
               \/ pc = "place.sl" /\ rowPc = "place.slRow",
               PlaceAt(t, type, pc, rowPc)
        PROVE  QuietMove(t) /\ QuietAt(p)
    <2>1. q.pc = pc /\ q.pc \in Placing /\ q.pc \notin Cancelling /\ q.pos # p
      BY <1>1, <1>9 DEF PlaceAt, At, Placing, Cancelling, ResidueOf
    <2>2. UNCHANGED dbVars
      BY <1>9 DEF PlaceAt
    <2>3. ASSUME NEW o \in Orders, IsNextOrder(o, q.pos, type),
                 AcceptConditional(o, entry[q.pos]),
                 task' = [task EXCEPT ![t].pc = rowPc, ![t].cur = o]
          PROVE  QuietMove(t) /\ QuietAt(p)
      <3>1. QuietMove(t)
        BY <1>1, <1>2, <1>9, <2>1, <2>3 DEF QuietMove, TaskRecord, Placing, Cancelling
      <3>2. QuietAt(p)
        BY <2>1, <2>2, <2>3, Parts
        DEF VenueTypeOK, QuietAt, AcceptConditional, IsNextOrder, dbVars
      <3>3. QED
        BY <3>1, <3>2
    <2>4. ASSUME NEW reason, UNCHANGED venueVars,
                 task' = [task EXCEPT ![t].pc = "close.read", ![t].reason = reason]
          PROVE  QuietMove(t) /\ QuietAt(p)
      <3>1. QuietMove(t)
        BY <1>1, <1>2, <2>1, <2>4 DEF QuietMove, TaskRecord, Placing, Cancelling
      <3>2. QED
        BY <1>5, <2>2, <2>4, <3>1 DEF venueVars, dbVars
    <2>5. ASSUME UNCHANGED venueVars, Finish(t)
          PROVE  QuietMove(t) /\ QuietAt(p)
      BY <1>4, <1>5, <2>1, <2>2, <2>5 DEF venueVars, dbVars
    <2>6. QED
      BY <1>1, <1>9, <2>3, <2>4, <2>5 DEF PlaceAt
  <1>10. CASE PlaceTp(t) \/ PlaceSl(t)
    BY <1>9, <1>10 DEF PlaceTp, PlaceSl, Types
  <1>11. CASE PlaceRow(t)
    <2>1. q.pc \in {"place.tpRow", "place.slRow"}
      BY <1>1, <1>11 DEF PlaceRow
    <2>2. q.cur \in Orders /\ q.cur.pos = q.pos /\ q.pos # p
      BY <1>1, <2>1 DEF GuardInv, Own, PlacesOwn, ResidueOf, Placing
    <2>3. PICK i \in TaskRecord : i = Idle
      BY IdleType
    <2>4. PICK pc \in {"place.sl", "place.done"} :
             task' = [task EXCEPT ![t] = [i EXCEPT !.pc = pc, !.pos = q.pos]]
      BY <1>1, <1>11, <2>3 DEF PlaceRow, Proceed
    <2>5. QuietMove(t)
      BY <1>1, <1>2, <2>1, <2>4 DEF QuietMove, TaskRecord, Placing, Cancelling
    <2>6. QuietAt(p)
      BY <1>1, <1>11, <2>2, Parts DEF DbTypeOK, QuietAt, PlaceRow, venueVars
    <2>7. QED
      BY <2>5, <2>6
  <1>12. CASE CloseRead(t) \/ CloseMarket(t) \/ CloseFlat(t)
    <2>1. QuietMove(t)
      BY <1>1, <1>3, <1>4, <1>12
      DEF CloseRead, CloseMarket, CloseFlat, At, Placing, Cancelling
    <2>2. UNCHANGED <<venue, row, status>>
      BY <1>12 DEF CloseRead, CloseMarket, CloseFlat, ExecuteClose, venueVars, dbVars
    <2>3. QED
      BY <1>5, <2>1, <2>2
  <1>13. QED
    BY <1>6, <1>7, <1>8, <1>10, <1>11, <1>12

\* The quiet steps of a round.
LEMMA SyncQuiet ==
  ASSUME TypeInv, NEW p \in Positions, NEW t \in Syncers,
         \/ SyncBook(t) \/ SyncContracts(t) \/ SyncApply(t) \/ SyncApplied(t)
         \/ SyncOrphansDone(t) \/ CronSync(t) \/ ManualSync(t)
         \/ \E x \in Positions :
               SyncClassify(t, x) \/ SyncAbsorb(t, x) \/ SyncOrphan(t, x)
  PROVE  QuietMove(t) /\ QuietAt(p)
  <1>1. PICK q \in TaskRecord : q = task[t]
    BY SyncerIsTask, Parts DEF TasksOK
  <1>2. task \in [Tasks -> TaskRecord] /\ t \in Tasks
    BY SyncerIsTask, Parts DEF TasksOK
  <1> DEFINE calm == (Resting \cup {"fill.row", "cancel.read"})
  <1>3. \A x \in calm : x \notin Placing /\ (x \in Cancelling => x = "cancel.read")
    BY DEF Resting, Placing, Cancelling
  <1>4. ASSUME NEW r, task' = [task EXCEPT ![t] = r], r.pc \in calm,
               q.pc \in Resting
        PROVE  QuietMove(t)
    <2>1. q.pc \notin Cancelling
      BY <1>4 DEF Resting, Cancelling
    <2>2. QED
      BY <1>1, <1>2, <1>3, <1>4, <2>1 DEF QuietMove
  <1>5. ASSUME NEW pc \in calm, Goto(t, pc), q.pc \in Resting
        PROVE  QuietMove(t)
    <2> DEFINE r == [q EXCEPT !.pc = pc]
    <2>1. r.pc = pc /\ task' = [task EXCEPT ![t] = r]
      BY <1>1, <1>5 DEF Goto, TaskRecord
    <2> HIDE DEF r
    <2>2. QED
      BY <1>4, <1>5, <2>1
  <1>6. ASSUME NEW pc \in calm, q.pc \in Resting,
               task' = [task EXCEPT ![t] = [Idle EXCEPT !.pc = pc]]
        PROVE  QuietMove(t)
    <2>1. PICK i \in TaskRecord : i = Idle
      BY IdleType
    <2> DEFINE r == [i EXCEPT !.pc = pc]
    <2>2. r.pc = pc /\ task' = [task EXCEPT ![t] = r]
      BY <1>6, <2>1 DEF TaskRecord
    <2> HIDE DEF r
    <2>3. QED
      BY <1>4, <1>6, <2>2
  <1>7. q.pc \in Resting
    BY <1>1 DEF SyncBook, SyncContracts, SyncApply, SyncApplied, SyncOrphansDone,
       CronSync, ManualSync, ReadOpen, SyncClassify, SyncAbsorb, SyncOrphan, At,
       Resting
  <1>8. UNCHANGED <<venue, row, status>>
    BY DEF SyncBook, SyncContracts, SyncApply, SyncApplied, SyncOrphansDone,
       CronSync, ManualSync, ReadOpen, SyncClassify, SyncAbsorb, SyncOrphan,
       venueVars, dbVars
  <1>9. {"sync.book", "sync.contracts", "sync.classify", "sync.absorb", "sync.apply",
         "sync.orphans", "idle", "fill.row", "cancel.read"} \subseteq calm
    BY DEF Resting
  <1> HIDE DEF calm
  <1>10. CASE SyncBook(t)
    <2>1. ASSUME NEW book,
                 task' = [task EXCEPT ![t].pc = "sync.contracts",
                                      ![t].book = book, ![t].claimed = {}]
          PROVE  QuietMove(t)
      <3> DEFINE r == [q EXCEPT !.pc = "sync.contracts", !.book = book, !.claimed = {}]
      <3>1. r.pc = "sync.contracts" /\ task' = [task EXCEPT ![t] = r]
        BY <1>1, <2>1 DEF TaskRecord
      <3> HIDE DEF r
      <3>2. QED
        BY <1>4, <1>7, <1>9, <3>1
    <2>2. QuietMove(t)
      BY <1>5, <1>7, <1>9, <1>10, <2>1 DEF SyncBook
    <2>3. QED
      BY <1>8, <2>2 DEF QuietAt
  <1>11. CASE SyncContracts(t) \/ CronSync(t) \/ ManualSync(t)
    <2>1. QuietMove(t)
      BY <1>5, <1>7, <1>9, <1>11 DEF SyncContracts, CronSync, ManualSync, ReadOpen
    <2>2. QED
      BY <1>8, <2>1 DEF QuietAt
  <1>12. CASE SyncApply(t)
    <2>1. ASSUME NEW x, NEW o,
                 task' = [task EXCEPT ![t].pc = "fill.row", ![t].pos = x, ![t].cur = o]
          PROVE  QuietMove(t)
      <3> DEFINE r == [q EXCEPT !.pc = "fill.row", !.pos = x, !.cur = o]
      <3>1. r.pc = "fill.row" /\ task' = [task EXCEPT ![t] = r]
        BY <1>1, <2>1 DEF TaskRecord
      <3> HIDE DEF r
      <3>2. QED
        BY <1>4, <1>7, <1>9, <3>1
    <2>2. ASSUME task' = task
          PROVE  QuietMove(t)
      <3>1. q.pc \notin Placing \cup Cancelling
        BY <1>7 DEF Resting, Placing, Cancelling
      <3>2. QED
        BY <1>1, <2>2, <3>1 DEF QuietMove
    <2>3. QuietMove(t)
      BY <1>12, <2>1, <2>2 DEF SyncApply
    <2>4. QED
      BY <1>8, <2>3 DEF QuietAt
  <1>13. CASE SyncApplied(t)
    <2>1. QuietMove(t)
      BY <1>6, <1>7, <1>9, <1>13 DEF SyncApplied, LeaveStrategy, NextStrategy
    <2>2. QED
      BY <1>8, <2>1 DEF QuietAt
  <1>14. CASE SyncOrphansDone(t)
    <2>1. QuietMove(t)
      BY <1>4, <1>7, <1>9, <1>14, IdleType DEF SyncOrphansDone, Finish
    <2>2. QED
      BY <1>8, <2>1 DEF QuietAt
  <1>15. ASSUME NEW x \in Positions, SyncClassify(t, x)
         PROVE  QuietMove(t) /\ QuietAt(p)
    <2>1. ASSUME NEW c, task' = [task EXCEPT ![t] = [task[t] EXCEPT !.claimed = c]]
          PROVE  QuietMove(t)
      <3> DEFINE r == [q EXCEPT !.claimed = c]
      <3>1. r.pc = q.pc /\ task' = [task EXCEPT ![t] = r]
        BY <1>1, <2>1 DEF TaskRecord
      <3>2. q.pc = "sync.classify"
        BY <1>1, <1>15 DEF SyncClassify, At
      <3> HIDE DEF r
      <3>3. QED
        BY <1>4, <1>7, <1>9, <3>1, <3>2
    <2>2. \/ \E c : task' = [task EXCEPT ![t] = [task[t] EXCEPT !.claimed = c]]
          \/ \E pc \in {"sync.absorb", "sync.apply"} :
                task' = [task EXCEPT ![t] = [Idle EXCEPT !.pc = pc]]
      BY <1>15 DEF SyncClassify, AfterClassify
    <2>3. QuietMove(t)
      BY <1>6, <1>7, <1>9, <2>1, <2>2
    <2>4. QED
      BY <1>8, <2>3 DEF QuietAt
  <1>16. ASSUME NEW x \in Positions, SyncAbsorb(t, x)
         PROVE  QuietMove(t) /\ QuietAt(p)
    <2>1. QuietMove(t)
      BY <1>5, <1>7, <1>9, <1>16 DEF SyncAbsorb
    <2>2. QED
      BY <1>8, <2>1 DEF QuietAt
  <1>17. ASSUME NEW x \in Positions, SyncOrphan(t, x)
         PROVE  QuietMove(t) /\ QuietAt(p)
    <2> DEFINE r == [q EXCEPT !.pc = "cancel.read", !.pos = x, !.after = "sync.orphans"]
    <2>1. r.pc = "cancel.read" /\ task' = [task EXCEPT ![t] = r]
      BY <1>1, <1>17 DEF SyncOrphan, TaskRecord
    <2> HIDE DEF r
    <2>2. QuietMove(t)
      BY <1>4, <1>7, <1>9, <2>1
    <2>3. QED
      BY <1>8, <2>2 DEF QuietAt
  <1>18. QED
    BY <1>10, <1>11, <1>12, <1>13, <1>14, <1>15, <1>16, <1>17

\* Whoever closes a position goes on to cancel its rows.
LEMMA ClosesResidue ==
  ASSUME TypeInv, RecordInv, GuardInv, NEW p \in Positions, ResidueOf(p),
         NEW t \in Tasks, CloseSave(t) \/ FillSave(t)
  PROVE  ResidueOf(p)'
  <1>1. PICK q \in TaskRecord : q = task[t]
    BY Parts DEF TasksOK
  <1>2. PICK i \in TaskRecord : i = Idle
    BY IdleType
  <1>3. q.pc \in {"close.save", "close.flatSave", "fill.save"}
    BY <1>1 DEF CloseSave, FillSave, At
  <1>4. PICK r : /\ task' = [task EXCEPT ![t] = r]
                 /\ r.pc = "cancel.read" /\ r.pos = q.pos
    <2> DEFINE a == [i EXCEPT !.pc = "cancel.read", !.pos = q.pos]
               b == [q EXCEPT !.pc = "cancel.read", !.after = "sync.apply",
                              !.cur = NoOrder]
    <2>1. task' = [task EXCEPT ![t] = a] \/ task' = [task EXCEPT ![t] = b]
      BY <1>1, <1>2 DEF CloseSave, FillSave, Proceed
    <2>2. /\ a.pc = "cancel.read" /\ a.pos = q.pos
          /\ b.pc = "cancel.read" /\ b.pos = q.pos
      BY DEF TaskRecord
    <2> HIDE DEF a, b
    <2>3. QED
      BY <2>1, <2>2
  <1>5. task'[t] = r /\ \A u \in Tasks \ {t} : task'[u] = task[u]
    BY <1>4, Parts DEF TasksOK
  <1>6. UNCHANGED <<venue, row>> /\ (p # q.pos => status'[p] = status[p])
    BY <1>1, Parts DEF DbTypeOK, CloseSave, FillSave, venueVars
  <1>7. /\ q.pc \notin Cancelling
        /\ task'[t].pc \notin Placing /\ task'[t].pc \in Cancelling
    BY <1>3, <1>4, <1>5 DEF Placing, Cancelling
  <1>8. CancelsAll(t)'
    BY <1>4, <1>5 DEF CancelsAll
  <1>9. /\ \A o \in Orders : o.pos = p =>
              /\ venue'[o] = "live" => venue[o] = "live" /\ row'[o] = "PENDING"
              /\ row'[o] = "PENDING" => row[o] = "PENDING"
        /\ status'[p] \in Closed => \/ status[p] \in Closed
                                    \/ task'[t].pos = p
    BY <1>4, <1>5, <1>6 DEF ResidueOf
  <1>10. QED
    BY <1>1, <1>5, <1>7, <1>8, <1>9, ResidueStep

\* The row that becomes FILLED is of an order that is not live.
LEMMA FillRowResidue ==
  ASSUME TypeInv, RecordInv, GuardInv, NEW p \in Positions, ResidueOf(p),
         NEW t \in Tasks, FillRow(t)
  PROVE  ResidueOf(p)'
  <1>1. PICK q \in TaskRecord : q = task[t]
    BY Parts DEF TasksOK
  <1>2. q.pc = "fill.row"
    BY <1>1 DEF FillRow, At
  <1>3. q.cur \in Orders /\ venue[q.cur] = "triggered"
    BY <1>1, <1>2 DEF GuardInv, RecordInv, FillsOwnRow, Own, FillsTriggered
  <1> DEFINE r == [q EXCEPT !.pc = "fill.save"]
  <1>4. r.pc = "fill.save" /\ task' = [task EXCEPT ![t] = r]
    BY <1>1 DEF FillRow, Goto, TaskRecord
  <1> HIDE DEF r
  <1>5. task'[t] = r /\ \A u \in Tasks \ {t} : task'[u] = task[u]
    BY <1>4, Parts DEF TasksOK
  <1>6. UNCHANGED <<venue, status>> /\ row' = [row EXCEPT ![q.cur] = "FILLED"]
    BY <1>1 DEF FillRow, venueVars
  <1>7. \A o \in Orders : /\ o # q.cur => row'[o] = row[o]
                          /\ o = q.cur => row'[o] = "FILLED"
    BY <1>6, Parts DEF DbTypeOK
  <1>8. \A o \in Orders : o.pos = p =>
              /\ venue'[o] = "live" => venue[o] = "live" /\ row'[o] = "PENDING"
              /\ row'[o] = "PENDING" => row[o] = "PENDING"
    BY <1>3, <1>6, <1>7 DEF ResidueOf
  <1>9. /\ q.pc \notin Cancelling /\ task'[t].pc \notin Placing /\ CancelsAll(t)'
    BY <1>2, <1>4, <1>5 DEF Placing, Cancelling, CancelsAll
  <1>10. QED
    BY <1>1, <1>5, <1>6, <1>8, <1>9, ResidueStep

\* Returning to the caller when no row is PENDING any more.
LEMMA ReturnResidue ==
  ASSUME TypeInv, GuardInv, NEW p \in Positions, ResidueOf(p), NEW t \in Tasks,
         Return(t), venue' = venue, status' = status,
         \A o \in Orders : o.pos = p =>
             /\ row'[o] = "PENDING" => row[o] = "PENDING"
             /\ venue[o] = "live" => row'[o] = "PENDING",
         task[t].pos = p => PendingRows(p)' = {}
  PROVE  ResidueOf(p)'
  <1>1. PICK q \in TaskRecord : q = task[t]
    BY Parts DEF TasksOK
  <1>2. PICK i \in TaskRecord : i = Idle
    BY IdleType
  <1>3. q.after \in {"idle", "sync.apply", "sync.orphans"}
    <2>1. q.after \in Continuations /\ q.after # "place.ticker"
      BY <1>1 DEF GuardInv, Own, CancelsClosed, TaskRecord
    <2>2. QED
      BY <2>1 DEF Continuations
  <1> DEFINE r == [i EXCEPT !.pc = q.after, !.pos = NoPos]
  <1>4. r.pc = q.after /\ task' = [task EXCEPT ![t] = r]
    BY <1>1, <1>2, <1>3 DEF Return, TaskRecord
  <1> HIDE DEF r
  <1>5. task'[t] = r /\ \A u \in Tasks \ {t} : task'[u] = task[u]
    BY <1>4, Parts DEF TasksOK
  <1>6. task'[t].pc \notin Placing \cup Cancelling
    BY <1>3, <1>4, <1>5 DEF Placing, Cancelling
  <1>7. CancelsAll(t)'
    BY <1>6 DEF CancelsAll, Cancelling
  <1>8. QED
    BY <1>5, <1>6, <1>7, ResidueStep

\* CancelRead takes all PENDING rows, or returns because there are none,
LEMMA CancelReadResidue ==
  ASSUME TypeInv, GuardInv, NEW p \in Positions, ResidueOf(p), NEW t \in Tasks,
         CancelRead(t)
  PROVE  ResidueOf(p)'
  <1>1. PICK q \in TaskRecord : q = task[t]
    BY Parts DEF TasksOK
  <1>2. UNCHANGED <<venue, row, status>> /\ q.pc = "cancel.read"
    BY <1>1 DEF CancelRead, At, venueVars, dbVars
  <1>3. \A x : PendingRows(x)' = PendingRows(x)
    BY <1>2 DEF PendingRows
  <1>4. \A o \in Orders : o.pos = p =>
             /\ row'[o] = "PENDING" => row[o] = "PENDING"
             /\ venue[o] = "live" => row'[o] = "PENDING"
    BY <1>2 DEF ResidueOf
  <1>5. CASE PendingRows(q.pos) = {}
    BY <1>1, <1>2, <1>3, <1>4, <1>5, ReturnResidue DEF CancelRead
  <1>6. CASE PendingRows(q.pos) # {}
    <2> DEFINE r == [q EXCEPT !.pc = "cancel.book", !.todo = PendingRows(q.pos),
                              !.ids = exId]
    <2>1. task' = [task EXCEPT ![t] = r]
      BY <1>1, <1>6 DEF CancelRead
    <2>2. r.pc = "cancel.book" /\ r.pos = q.pos /\ r.todo = PendingRows(q.pos)
      BY DEF TaskRecord
    <2> HIDE DEF r
    <2>3. task'[t] = r /\ \A u \in Tasks \ {t} : task'[u] = task[u]
      BY <2>1, Parts DEF TasksOK
    <2>4. PICK x : x = q.pos
      OBVIOUS
    <2>5. CancelsAll(t)'
      <3>1. task'[t].todo = PendingRows(x) /\ task'[t].pos = x
        BY <2>2, <2>3, <2>4
      <3>2. PendingRows(task[t].pos)' = PendingRows(x)
        BY <1>2, <3>1 DEF PendingRows
      <3>3. QED
        BY <2>2, <2>3, <3>1, <3>2 DEF CancelsAll
    <2>6. task'[t].pc \notin Placing /\ task'[t].pc \in Cancelling
      BY <2>2, <2>3 DEF Placing, Cancelling
    <2>7. QED
      BY <1>1, <1>2, <1>4, <2>2, <2>3, <2>5, <2>6, ResidueStep
  <1>7. QED
    BY <1>5, <1>6

\* fetches the book,
LEMMA CancelBookResidue ==
  ASSUME TypeInv, GuardInv, NEW p \in Positions, ResidueOf(p), NEW t \in Tasks,
         CancelBook(t)
  PROVE  ResidueOf(p)'
  <1>1. PICK q \in TaskRecord : q = task[t]
    BY Parts DEF TasksOK
  <1>2. UNCHANGED <<venue, row, status>> /\ q.pc = "cancel.book"
    BY <1>1 DEF CancelBook, At, venueVars, dbVars
  <1>3. PICK book \in {LiveOrders, {}} :
             task' = [task EXCEPT ![t].pc = "cancel.next",
                                  ![t].book = book, ![t].claimed = {}]
    BY DEF CancelBook
  <1> DEFINE r == [q EXCEPT !.pc = "cancel.next", !.book = book, !.claimed = {}]
  <1>4. task' = [task EXCEPT ![t] = r]
    BY <1>1, <1>3
  <1>5. r.pc = "cancel.next" /\ r.pos = q.pos /\ r.todo = q.todo
    BY DEF TaskRecord
  <1> HIDE DEF r
  <1>6. task'[t] = r /\ \A u \in Tasks \ {t} : task'[u] = task[u]
    BY <1>4, Parts DEF TasksOK
  <1>7. ASSUME r.pos = p
        PROVE  CancelsAll(t)'
    <2>1. PendingRows(p) \subseteq q.todo
      BY <1>1, <1>2, <1>5, <1>7 DEF ResidueOf, CancelsAll, Cancelling
    <2>2. PendingRows(task[t].pos)' = PendingRows(p)
      BY <1>2, <1>6, <1>7 DEF PendingRows
    <2>3. QED
      BY <1>5, <1>6, <2>1, <2>2 DEF CancelsAll
  <1>8. task'[t].pc \notin Placing /\ task'[t].pc \in Cancelling
    BY <1>5, <1>6 DEF Placing, Cancelling
  <1>9. \A o \in Orders : o.pos = p =>
             /\ venue'[o] = "live" => venue[o] = "live" /\ row'[o] = "PENDING"
             /\ row'[o] = "PENDING" => row[o] = "PENDING"
    BY <1>2 DEF ResidueOf
  <1>10. task[t].pos = task'[t].pos
    BY <1>1, <1>5, <1>6
  <1>11. QED
    BY <1>2, <1>6, <1>7, <1>8, <1>9, <1>10, ResidueStep

\* cancels the very order of each row,
LEMMA CancelNextResidue ==
  ASSUME Before, "cancel" \notin Faults, NEW p \in Positions, ResidueOf(p),
         NEW t \in Tasks, CancelNext(t)
  PROVE  ResidueOf(p)'
  <1>1. PICK q \in TaskRecord : q = task[t]
    BY Parts DEF Before, TasksOK
  <1>2. /\ q.pc = "cancel.next" /\ task[t].pc \in Cancelling
        /\ q.todo \subseteq Orders /\ q.book \subseteq Orders
    BY <1>1 DEF CancelNext, At, Cancelling, TaskRecord
  <1>3. /\ \A o \in q.todo : o.pos = q.pos /\ Born(o)
        /\ \A o \in q.book : Born(o)
        /\ \A o \in Orders : q.ids[o] = o
    BY <1>1, <1>2 DEF Before, GuardInv, Own, CancelsClosed, Cancelling
  <1>4. PICK w \in task[t].todo :
          \E m \in Matches(w, task[t].ids[w], task[t].book \ task[t].claimed) :
             /\ exId' = Heal(exId, w, m)
             /\ \/ CancelConditional(IF m = NoOrder THEN task[t].ids[w] ELSE m)
                \/ "cancel" \in Faults /\ UNCHANGED venueVars
             /\ task' = [task EXCEPT ![t].pc = "cancel.mark", ![t].cur = w,
                                     ![t].claimed = @ \cup ({m} \cap Orders)]
    BY Zenon DEF CancelNext
  <1>5. w \in Orders /\ q.ids[w] = w /\ Born(w)
    BY <1>1, <1>2, <1>3
  <1>6. PICK m \in Matches(w, w, q.book \ q.claimed) :
          /\ CancelConditional(IF m = NoOrder THEN w ELSE m)
          /\ task' = [task EXCEPT ![t].pc = "cancel.mark", ![t].cur = w,
                                  ![t].claimed = @ \cup ({m} \cap Orders)]
    BY <1>1, <1>4, <1>5
  <1>7. m \in {w, NoOrder}
    BY <1>2, <1>3, <1>5, MatchesOwn
  <1>8. CancelConditional(w)
    BY <1>6, <1>7
  <1>9. venue'[w] # "live" /\ \A o \in Orders : venue'[o] = "live" => venue[o] = "live"
    BY <1>5, <1>8, Parts DEF Before, CancelConditional, VenueTypeOK
  <1>10. UNCHANGED <<row, status>>
    BY DEF CancelNext
  <1>11. PICK c \in SUBSET Orders : c = q.claimed \cup ({m} \cap Orders)
    BY DEF TaskRecord
  <1> DEFINE r == [q EXCEPT !.pc = "cancel.mark", !.cur = w, !.claimed = c]
  <1>12. task' = [task EXCEPT ![t] = r]
    BY <1>1, <1>6, <1>11
  <1>13. r.pc = "cancel.mark" /\ r.pos = q.pos /\ r.todo = q.todo /\ r.cur = w
    BY DEF TaskRecord
  <1> HIDE DEF r
  <1>14. task'[t] = r /\ \A u \in Tasks \ {t} : task'[u] = task[u]
    BY <1>12, Parts DEF Before, TasksOK
  <1>15. ASSUME r.pos = p
         PROVE  CancelsAll(t)'
    <2>1. PendingRows(p) \subseteq q.todo
      BY <1>1, <1>2, <1>13, <1>15 DEF ResidueOf, CancelsAll
    <2>2. PendingRows(task[t].pos)' = PendingRows(p)
      BY <1>10, <1>14, <1>15 DEF PendingRows
    <2>3. task'[t].cur = w
      BY <1>13, <1>14
    <2>4. QED
      BY <1>9, <1>13, <1>14, <2>1, <2>2, <2>3 DEF CancelsAll
  <1>16. task'[t].pc \notin Placing /\ task'[t].pc \in Cancelling
    BY <1>13, <1>14 DEF Placing, Cancelling
  <1>17. \A o \in Orders : o.pos = p =>
             /\ venue'[o] = "live" => venue[o] = "live" /\ row'[o] = "PENDING"
             /\ row'[o] = "PENDING" => row[o] = "PENDING"
    BY <1>9, <1>10 DEF ResidueOf
  <1>18. task[t].pos = task'[t].pos
    BY <1>1, <1>13, <1>14
  <1>19. TypeInv /\ GuardInv
    BY DEF Before
  <1>20. QED
    BY <1>10, <1>14, <1>15, <1>16, <1>17, <1>18, <1>19, ResidueStep

\* and marks the row of an order that is not live any more.
LEMMA CancelMarkResidue ==
  ASSUME TypeInv, GuardInv, NEW p \in Positions, ResidueOf(p), NEW t \in Tasks,
         CancelMark(t)
  PROVE  ResidueOf(p)'
  <1>1. PICK q \in TaskRecord : q = task[t]
    BY Parts DEF TasksOK
  <1>2. /\ q.pc = "cancel.mark" /\ task[t].pc \in Cancelling
        /\ q.todo \subseteq Orders
    BY <1>1 DEF CancelMark, At, Cancelling, TaskRecord
  <1>3. q.cur \in q.todo /\ q.cur \in Orders /\ q.cur.pos = q.pos
    BY <1>1, <1>2 DEF GuardInv, Own, CancelsClosed, Cancelling
  <1>4. UNCHANGED <<venue, status>> /\ row' = [row EXCEPT ![q.cur] = "CANCELED"]
    BY <1>1 DEF CancelMark, venueVars
  <1>5. \A o \in Orders : /\ o # q.cur => row'[o] = row[o]
                          /\ o = q.cur => row'[o] = "CANCELED"
    BY <1>4, Parts DEF DbTypeOK
  <1>6. q.pos = p => CancelsAll(t)
    BY <1>1 DEF ResidueOf
  <1>7. q.pos = p => venue[q.cur] # "live" /\ PendingRows(p) \subseteq q.todo
    BY <1>1, <1>2, <1>6 DEF CancelsAll
  <1>8. \A o \in Orders : o.pos = p =>
             /\ row'[o] = "PENDING" => row[o] = "PENDING"
             /\ venue[o] = "live" => row'[o] = "PENDING"
    BY <1>3, <1>5, <1>7 DEF ResidueOf
  <1>9. q.pos = p => PendingRows(p)' \subseteq q.todo \ {q.cur}
    BY <1>5, <1>7 DEF PendingRows
  <1>10. CASE q.todo \ {q.cur} = {}
    <2>1. Return(t)
      BY <1>1, <1>10 DEF CancelMark
    <2>2. task[t].pos = p => PendingRows(p)' = {}
      BY <1>1, <1>9, <1>10
    <2>3. QED
      BY <1>4, <1>8, <2>1, <2>2, ReturnResidue
  <1>11. CASE q.todo \ {q.cur} # {}
    <2>1. PICK left \in SUBSET Orders : left = q.todo \ {q.cur}
      BY <1>2
    <2> DEFINE r == [q EXCEPT !.pc = "cancel.next", !.todo = left, !.cur = NoOrder]
    <2>2. task' = [task EXCEPT ![t] = r]
      BY <1>1, <1>11, <2>1 DEF CancelMark
    <2>3. r.pc = "cancel.next" /\ r.pos = q.pos /\ r.todo = left
      BY DEF TaskRecord
    <2> HIDE DEF r
    <2>4. task'[t] = r /\ \A u \in Tasks \ {t} : task'[u] = task[u]
      BY <2>2, Parts DEF TasksOK
    <2>5. ASSUME r.pos = p
          PROVE  CancelsAll(t)'
      <3>1. PendingRows(p)' \subseteq left
        BY <1>9, <2>1, <2>3, <2>5
      <3>2. PendingRows(task[t].pos)' = PendingRows(p)'
        BY <2>4, <2>5 DEF PendingRows
      <3>3. QED
        BY <2>3, <2>4, <3>1, <3>2 DEF CancelsAll
    <2>6. task'[t].pc \notin Placing /\ task'[t].pc \in Cancelling
      BY <2>3, <2>4 DEF Placing, Cancelling
    <2>7. \A o \in Orders : o.pos = p =>
               /\ venue'[o] = "live" => venue[o] = "live" /\ row'[o] = "PENDING"
               /\ row'[o] = "PENDING" => row[o] = "PENDING"
      BY <1>4, <1>8
    <2>8. task[t].pos = task'[t].pos
      BY <1>1, <2>3, <2>4
    <2>9. QED
      BY <1>4, <2>4, <2>5, <2>6, <2>7, <2>8, ResidueStep
  <1>12. QED
    BY <1>10, <1>11

\* An order that triggers is not live any more.
LEMMA TriggerResidue ==
  ASSUME TypeInv, GuardInv, NEW p \in Positions, ResidueOf(p),
         NEW o \in Orders, ExchangeTrigger(o)
  PROVE  ResidueOf(p)'
  <1>1. UNCHANGED <<status, row, task>> /\ venue' = [venue EXCEPT ![o] = "triggered"]
    BY DEF ExchangeTrigger, Trigger, dbVars
  <1>2. \A x \in Orders : venue'[x] = "live" => venue[x] = "live"
    BY <1>1, Parts DEF VenueTypeOK
  <1>3. \A x : PendingRows(x)' = PendingRows(x)
    BY <1>1 DEF PendingRows
  <1>4. ASSUME NEW t \in Tasks, task'[t].pos = p
        PROVE  CancelsAll(t)'
    <2>1. PICK q \in TaskRecord : q = task[t]
      BY Parts DEF TasksOK
    <2>2. CancelsAll(t) /\ CancelsClosed(t) /\ q.todo \subseteq Orders
      BY <1>1, <1>4, <2>1 DEF ResidueOf, GuardInv, Own, TaskRecord
    <2>3. q.pc = "cancel.mark" => venue'[q.cur] # "live"
      BY <1>2, <2>1, <2>2 DEF CancelsClosed, CancelsAll, Cancelling
    <2>4. PendingRows(task[t].pos)' = PendingRows(q.pos)
      BY <1>1, <2>1 DEF PendingRows
    <2>5. QED
      BY <1>1, <2>1, <2>2, <2>3, <2>4 DEF CancelsAll
  <1>5. QED
    BY <1>1, <1>2, <1>3, <1>4 DEF ResidueOf

\* A cycle that opens does not touch a position that was opened before,
LEMMA OpenMarketResidue ==
  ASSUME TypeInv, GuardInv, NEW p \in Positions, ResidueOf(p), p \in opened,
         NEW t \in Tasks, NEW x \in Positions, OpenMarket(t, x)
  PROVE  ResidueOf(p)'
  <1>1. PICK q \in TaskRecord : q = task[t]
    BY Parts DEF TasksOK
  <1>2. /\ UNCHANGED <<venue, row, status>> /\ q.pc = "idle" /\ x # p
        /\ task' = [task EXCEPT ![t].pc = "open.save", ![t].pos = x]
    BY <1>1 DEF OpenMarket, ExecuteOpen, At, dbVars
  <1> DEFINE r == [q EXCEPT !.pc = "open.save", !.pos = x]
  <1>3. r.pc = "open.save" /\ r.pos = x /\ task' = [task EXCEPT ![t] = r]
    BY <1>1, <1>2 DEF TaskRecord
  <1> HIDE DEF r
  <1>4. task'[t] = r /\ \A u \in Tasks \ {t} : task'[u] = task[u]
    BY <1>3, Parts DEF TasksOK
  <1>5. /\ task[t].pc \notin Cancelling
        /\ task'[t].pc \in Placing => task'[t].pos # p
        /\ task'[t].pos # p
    BY <1>1, <1>2, <1>3, <1>4 DEF Cancelling
  <1>6. \A o \in Orders : o.pos = p =>
             /\ venue'[o] = "live" => venue[o] = "live" /\ row'[o] = "PENDING"
             /\ row'[o] = "PENDING" => row[o] = "PENDING"
    BY <1>2 DEF ResidueOf
  <1>7. QED
    BY <1>2, <1>4, <1>5, <1>6, ResidueStep

\* nor does a request to close one, before it is read.
LEMMA CloseRequestResidue ==
  ASSUME TypeInv, GuardInv, NEW p \in Positions, ResidueOf(p),
         NEW t \in Tasks, NEW x \in Positions, NEW reason \in Reasons,
         CloseRequest(t, x, reason)
  PROVE  ResidueOf(p)'
  <1>1. PICK q \in TaskRecord : q = task[t]
    BY Parts DEF TasksOK
  <1>2. /\ UNCHANGED <<venue, row, status>> /\ q.pc = "idle"
        /\ task' = [task EXCEPT ![t].pc = "close.market", ![t].pos = x,
                                ![t].reason = reason]
    BY <1>1 DEF CloseRequest, At, venueVars, dbVars
  <1> DEFINE r == [q EXCEPT !.pc = "close.market", !.pos = x, !.reason = reason]
  <1>3. r.pc = "close.market" /\ task' = [task EXCEPT ![t] = r]
    BY <1>1, <1>2 DEF TaskRecord
  <1> HIDE DEF r
  <1>4. task'[t] = r /\ \A u \in Tasks \ {t} : task'[u] = task[u]
    BY <1>3, Parts DEF TasksOK
  <1>5. QuietMove(t)
    BY <1>1, <1>2, <1>3, <1>4 DEF QuietMove, Placing, Cancelling
  <1>6. QuietAt(p)
    BY <1>2 DEF QuietAt
  <1>7. QED
    BY <1>5, <1>6, ResidueQuiet

\* Nothing moves.
LEMMA StutterResidue ==
  ASSUME NEW p \in Positions, ResidueOf(p), UNCHANGED vars
  PROVE  ResidueOf(p)'
  <1>1. UNCHANGED <<venue, row, status, task>>
    BY DEF vars, orderVars, venueVars, dbVars
  <1>2. QED
    BY <1>1 DEF ResidueOf, CancelsAll, PendingRows

\* Every step keeps what is known of a position that was opened.
LEMMA NextResidue ==
  ASSUME Before, "cancel" \notin Faults, NEW p \in Positions, ResidueOf(p),
         p \in opened, [Next]_vars
  PROVE  ResidueOf(p)'
  <1>1. TypeInv /\ RecordInv /\ GuardInv
    BY DEF Before
  <1>2. CASE OrderStart /\ UNCHANGED sync
    <2>1. \A t \in Tasks, x \in Positions : ~Replenish(t, x)
      BY DEF Replenish, Before
    <2>2. QED
      BY <1>1, <1>2, <2>1, OpenMarketResidue, CloseRequestResidue DEF OrderStart
  <1>3. ASSUME NEW t \in Syncers, CronSync(t) \/ ManualSync(t)
        PROVE  ResidueOf(p)'
    BY <1>1, <1>3, SyncQuiet, ResidueQuiet, SyncerIsTask
  <1>4. ASSUME NEW t \in Tasks, OrderStep(t)
        PROVE  ResidueOf(p)'
    <2>1. CASE CloseSave(t)
      BY <1>1, <2>1, ClosesResidue
    <2>2. CASE CancelRead(t) \/ CancelBook(t) \/ CancelNext(t) \/ CancelMark(t)
      BY <1>1, <2>2, CancelReadResidue, CancelBookResidue, CancelNextResidue,
         CancelMarkResidue
    <2>3. CASE \/ OpenSave(t) \/ OpenUntracked(t) \/ PlaceTicker(t) \/ PlaceTp(t)
               \/ PlaceSl(t) \/ PlaceRow(t) \/ PlaceDone(t)
               \/ CloseRead(t) \/ CloseMarket(t) \/ CloseFlat(t)
      <3>1. QuietMove(t) /\ QuietAt(p)
        BY <1>1, <2>3, OrderQuiet
      <3>2. QED
        BY <1>1, <3>1, ResidueQuiet
    <2>4. QED
      BY <1>4, <2>1, <2>2, <2>3 DEF OrderStep
  <1>5. ASSUME NEW t \in Syncers, SyncStep(t)
        PROVE  ResidueOf(p)'
    <2>1. t \in Tasks
      BY SyncerIsTask
    <2>2. CASE FillRow(t)
      BY <1>1, <2>1, <2>2, FillRowResidue
    <2>3. CASE FillSave(t)
      BY <1>1, <2>1, <2>3, ClosesResidue
    <2>4. CASE \/ SyncBook(t) \/ SyncContracts(t) \/ SyncApply(t)
               \/ SyncApplied(t) \/ SyncOrphansDone(t)
               \/ \E x \in Positions :
                     SyncClassify(t, x) \/ SyncAbsorb(t, x) \/ SyncOrphan(t, x)
      <3>1. QuietMove(t) /\ QuietAt(p)
        BY <1>1, <2>4, SyncQuiet
      <3>2. QED
        BY <1>1, <2>1, <3>1, ResidueQuiet
    <2>5. QED
      BY <1>5, <2>2, <2>3, <2>4 DEF SyncStep
  <1>6. ASSUME NEW o \in Orders, ExchangeTrigger(o)
        PROVE  ResidueOf(p)'
    BY <1>1, <1>6, TriggerResidue
  <1>7. CASE Rest \/ UNCHANGED vars
    BY <1>7, StutterResidue DEF Rest
  <1>8. QED
    BY <1>2, <1>3, <1>4, <1>5, <1>6, <1>7 DEF Next, Step

\* What was opened stays opened, and only an opening cycle opens more.
LEMMA OpenedStays ==
  ASSUME [Next]_vars
  PROVE  opened \subseteq opened' /\ (Openers = {} => opened' = opened)
  <1>1. CASE OrderStart
    <2>1. ASSUME NEW t \in Tasks, NEW p \in Positions, OpenMarket(t, p)
          PROVE  opened \subseteq opened' /\ Openers # {}
      BY <2>1 DEF OpenMarket, ExecuteOpen
    <2>2. ASSUME NEW t \in Tasks, NEW p \in Positions,
                 Replenish(t, p) \/ \E r \in Reasons : CloseRequest(t, p, r)
          PROVE  opened' = opened
      BY <2>2 DEF Replenish, CloseRequest, venueVars
    <2>3. QED
      BY <1>1, <2>1, <2>2 DEF OrderStart
  <1>2. ASSUME NEW t \in Tasks, OrderStep(t)
        PROVE  opened' = opened
    <2>1. CASE PlaceTp(t) \/ PlaceSl(t)
      BY <2>1 DEF PlaceTp, PlaceSl, PlaceAt, AcceptConditional, venueVars
    <2>2. CASE CancelNext(t)
      BY <2>2 DEF CancelNext, CancelConditional, venueVars
    <2>3. CASE CloseMarket(t)
      BY <2>3 DEF CloseMarket, ExecuteClose, venueVars
    <2>4. CASE \/ OpenSave(t) \/ OpenUntracked(t) \/ PlaceTicker(t) \/ PlaceRow(t)
               \/ PlaceDone(t) \/ CloseRead(t) \/ CloseFlat(t) \/ CloseSave(t)
               \/ CancelRead(t) \/ CancelBook(t) \/ CancelMark(t)
      BY <2>4 DEF OpenSave, OpenUntracked, PlaceTicker, PlaceRow, PlaceDone,
         CloseRead, CloseFlat, CloseSave, CancelRead, CancelBook, CancelMark,
         venueVars
    <2>5. QED
      BY <1>2, <2>1, <2>2, <2>3, <2>4 DEF OrderStep
  <1>3. ASSUME NEW t \in Syncers, SyncStep(t) \/ CronSync(t) \/ ManualSync(t)
        PROVE  opened' = opened
    <2>1. ASSUME NEW x \in Positions,
                 SyncClassify(t, x) \/ SyncAbsorb(t, x) \/ SyncOrphan(t, x)
          PROVE  UNCHANGED venueVars
      BY <2>1, Zenon DEF SyncClassify, SyncAbsorb, SyncOrphan
    <2>2. ASSUME FillRow(t) \/ FillSave(t) \/ CronSync(t) \/ ManualSync(t)
          PROVE  UNCHANGED venueVars
      BY <2>2, Zenon DEF FillRow, FillSave, CronSync, ManualSync, ReadOpen
    <2>3. ASSUME \/ SyncBook(t) \/ SyncContracts(t) \/ SyncApply(t)
                 \/ SyncApplied(t) \/ SyncOrphansDone(t)
          PROVE  UNCHANGED venueVars
      BY <2>3, Zenon DEF SyncBook, SyncContracts, SyncApply, SyncApplied,
         SyncOrphansDone
    <2>4. UNCHANGED venueVars
      BY <1>3, <2>1, <2>2, <2>3 DEF SyncStep
    <2>5. QED
      BY <2>4 DEF venueVars
  <1>4. ASSUME NEW o \in Orders, ExchangeTrigger(o)
        PROVE  opened' = opened
    BY <1>4 DEF ExchangeTrigger, Trigger
  <1>5. CASE Rest \/ UNCHANGED vars
    BY <1>5 DEF Rest, vars, orderVars, venueVars
  <1>6. QED
    BY <1>1, <1>2, <1>3, <1>4, <1>5 DEF Next, Step

\* Of the positions that are open and guarded when the process starts, what is
\* closed is cancelled, whoever opens others meanwhile.
LEMMA ResidueInvariant ==
  ASSUME Replenishers = {}, PricesApart, "cancel" \notin Faults
  PROVE  Spec => []ResidueInv
  <1>1. Spec => [](TypeInv /\ RecordInv /\ GuardInv)
    BY GuardInvariant
  <1>2. Init => ResidueInv
    <2> SUFFICES ASSUME Init, NEW p \in Protected
                 PROVE  ResidueOf(p)
      BY DEF Init, OrderInit, ResidueInv
    <2>1. \A t \in Tasks : task[t] = Idle
      BY DEF Init, OrderInit
    <2>2. p \in Positions /\ status[p] = "OPEN"
      BY ProtectedAssumption DEF Init, OrderInit
    <2>3. \A o \in Orders : venue[o] = "live" => row[o] = "PENDING"
      BY DEF Init, OrderInit
    <2>4. \A t \in Tasks : task[t].pc = "idle" /\ CancelsAll(t)
      BY <2>1, IdleType DEF CancelsAll, Cancelling
    <2>5. QED
      BY <2>2, <2>3, <2>4 DEF ResidueOf, Placing, Closed
  <1>3. TypeInv /\ RecordInv /\ GuardInv /\ ResidueInv /\ [Next]_vars => ResidueInv'
    <2> SUFFICES ASSUME TypeInv, RecordInv, GuardInv, ResidueInv, [Next]_vars
                 PROVE  ResidueInv'
      OBVIOUS
    <2>1. Before
      BY NextGuard DEF Before
    <2>2. ASSUME NEW p \in Protected
          PROVE  ResidueOf(p)'
      <3>1. p \in Positions /\ p \in opened /\ ResidueOf(p)
        BY ProtectedAssumption DEF ResidueInv
      <3>2. QED
        BY <2>1, <3>1, NextResidue
    <2>3. QED
      BY <2>2, OpenedStays DEF ResidueInv
  <1>4. QED
    BY <1>1, <1>2, <1>3, PTL DEF Spec

\* Every way to close a position (a user, the monitor, the local check) ends in
\* cancelPendingOrders, and none of them takes a lock; yet once nobody works on a
\* closed position no row of it is PENDING and no order of it is live, whoever
\* closes it and cancels it at the same time; for any number of positions, rounds
\* and requests, when cancelOrder itself does not fail, the prices of the
\* positions are apart, and none is opened or replenished (these two place
\* orders without looking whether the position is still open).
THEOREM NothingIsLeft ==
  ASSUME Replenishers = {}, PricesApart, Openers = {}, "cancel" \notin Faults
  PROVE  Spec => []NoResidue
  <1>1. Spec => [](TypeInv /\ RecordInv)
    BY RecordInvariant
  <1>2. Spec => []ResidueInv
    BY ResidueInvariant
  <1>3. Init => opened = Protected
    BY DEF Init, OrderInit
  <1>4. opened = Protected /\ [Next]_vars => (opened = Protected)'
    BY OpenedStays
  <1>5. TypeInv /\ RecordInv /\ ResidueInv /\ opened = Protected => NoResidue
    <2> SUFFICES ASSUME TypeInv, RecordInv, ResidueInv, opened = Protected,
                        NEW p \in Positions, status[p] \in Closed, ~Busy(p),
                        NEW o \in Orders, o.pos = p
                 PROVE  row[o] # "PENDING" /\ venue[o] # "live"
      BY DEF NoResidue
    <2>1. p \in Protected
      BY DEF RecordInv, OpeningIsFresh, Recorded, Closed
    <2>2. ResidueOf(p)
      BY <2>1 DEF ResidueInv
    <2>3. PendingRows(p) = {}
      BY <2>2 DEF ResidueOf, Busy
    <2>4. row[o] # "PENDING"
      BY <2>3 DEF PendingRows
    <2>5. QED
      BY <2>2, <2>4 DEF ResidueOf
  <1>6. QED
    BY <1>1, <1>2, <1>3, <1>4, <1>5, PTL DEF Spec

----------------------------------------------------------------------------
(* The core implements the ledger of PositionLedger                         *)

Saving == {"close.save", "close.flatSave"}

\* A step of t that begins and ends no save of a close.
Aside(t) ==
    /\ \A u \in Tasks \ {t} : task'[u] = task[u]
    /\ task[t].pc \notin Saving /\ task'[t].pc \notin Saving

SameHits == \A o \in Orders : venue'[o] = "triggered" <=> venue[o] = "triggered"

\* Nothing the ledger sees.
Unseen == UNCHANGED <<contracts, opened, status>> /\ Hits' = Hits
          /\ \A pc \in Saving : Closing(pc)' = Closing(pc)

LedgerStep == Ledger!LedgerNext \/ UNCHANGED Ledger!ledgerVars

\* The ledger sees of the orders only which of them triggered.
LEMMA HitsKept == ASSUME SameHits PROVE Hits' = Hits
BY DEF Hits, SameHits

\* A step that is no close's leaves the closes in flight as they are.
LEMMA ClosingKept ==
  ASSUME NEW t \in Tasks, Aside(t)
  PROVE  \A pc \in Saving : Closing(pc)' = Closing(pc)
BY DEF Aside, Closing, At

\* What the ledger does not see is a stutter of it.
LEMMA UnseenStep == ASSUME Unseen PROVE LedgerStep
BY DEF Unseen, LedgerStep, Ledger!ledgerVars, Saving

\* A step beside the closes that moves no table of the ledger.
LEMMA AsideUnseen ==
  ASSUME NEW t \in Tasks, Aside(t), SameHits, UNCHANGED <<contracts, opened, status>>
  PROVE  Unseen
BY ClosingKept, HitsKept DEF Unseen

\* The steps of OrderService beside the closes,
LEMMA OrderStepAside ==
  ASSUME TypeInv, NEW t \in Tasks,
         \/ OpenSave(t) \/ OpenUntracked(t) \/ PlaceTicker(t) \/ PlaceTp(t)
         \/ PlaceSl(t) \/ PlaceRow(t) \/ PlaceDone(t) \/ CloseRead(t)
         \/ CancelRead(t) \/ CancelBook(t) \/ CancelNext(t) \/ CancelMark(t)
  PROVE  Aside(t)
  <1>1. PICK q \in TaskRecord : q = task[t]
    BY Parts DEF TasksOK
  <1>2. task \in [Tasks -> TaskRecord]
    BY Parts DEF TasksOK
  <1>3. q.pc \notin Saving
    BY <1>1 DEF OpenSave, OpenUntracked, PlaceTicker, PlaceTp, PlaceSl, PlaceAt,
       PlaceRow, PlaceDone, CloseRead, CancelRead, CancelBook, CancelNext, CancelMark,
       At, Saving
  <1>4. ASSUME NEW pc, Goto(t, pc), pc \notin Saving
        PROVE  Aside(t)
    BY <1>1, <1>2, <1>3, <1>4 DEF Goto, Aside, TaskRecord
  <1>5. ASSUME Finish(t)
        PROVE  Aside(t)
    BY <1>1, <1>2, <1>3, <1>5 DEF Finish, Aside, Idle, Saving
  <1>6. ASSUME NEW pc, Proceed(t, pc), pc \notin Saving
        PROVE  Aside(t)
    BY <1>1, <1>2, <1>3, <1>6 DEF Proceed, Aside, Idle
  <1>7. ASSUME Return(t)
        PROVE  Aside(t)
    <2>1. q.after \notin Saving
      BY DEF TaskRecord, Continuations, Saving
    <2>2. QED
      BY <1>1, <1>2, <1>3, <1>7, <2>1 DEF Return, Aside, Idle
  <1>8. CASE OpenSave(t) \/ OpenUntracked(t) \/ PlaceRow(t) \/ PlaceDone(t) \/ CloseRead(t)
    <2>1. \/ Finish(t)
          \/ \E pc \in {"place.ticker", "close.market"} : Goto(t, pc)
          \/ \E pc \in {"place.sl", "place.done"} : Proceed(t, pc)
      BY <1>8 DEF OpenSave, OpenUntracked, PlaceRow, PlaceDone, CloseRead
    <2>2. QED
      BY <1>4, <1>5, <1>6, <2>1 DEF Saving
  <1>9. CASE PlaceTicker(t)
    <2>1. ASSUME NEW reason,
                 task' = [task EXCEPT ![t].pc = "close.read", ![t].reason = reason]
          PROVE  Aside(t)
      BY <1>1, <1>2, <1>3, <2>1 DEF Aside, TaskRecord, Saving
    <2>2. QED
      BY <1>4, <1>9, <2>1 DEF PlaceTicker, Saving
  <1>10. CASE PlaceTp(t) \/ PlaceSl(t)
    <2>1. ASSUME NEW pc \in {"place.tpRow", "place.slRow"}, NEW o,
                 task' = [task EXCEPT ![t].pc = pc, ![t].cur = o]
          PROVE  Aside(t)
      BY <1>1, <1>2, <1>3, <2>1 DEF Aside, TaskRecord, Saving
    <2>2. ASSUME NEW reason,
                 task' = [task EXCEPT ![t].pc = "close.read", ![t].reason = reason]
          PROVE  Aside(t)
      BY <1>1, <1>2, <1>3, <2>2 DEF Aside, TaskRecord, Saving
    <2>3. QED
      BY <1>5, <1>10, <2>1, <2>2 DEF PlaceTp, PlaceSl, PlaceAt
  <1>11. CASE CancelRead(t)
    <2>1. ASSUME NEW todo, NEW ids,
                 task' = [task EXCEPT ![t].pc = "cancel.book", ![t].todo = todo,
                                      ![t].ids = ids]
          PROVE  Aside(t)
      BY <1>1, <1>2, <1>3, <2>1 DEF Aside, TaskRecord, Saving
    <2>2. QED
      BY <1>7, <1>11, <2>1 DEF CancelRead
  <1>12. CASE CancelBook(t)
    BY <1>1, <1>2, <1>3, <1>12 DEF CancelBook, Aside, TaskRecord, Saving
  <1>13. CASE CancelNext(t)
    <2>1. PICK o, seen : task' = [task EXCEPT ![t].pc = "cancel.mark", ![t].cur = o,
                                              ![t].claimed = seen]
      BY <1>13 DEF CancelNext
    <2>2. QED
      BY <1>1, <1>2, <1>3, <2>1 DEF Aside, TaskRecord, Saving
  <1>14. CASE CancelMark(t)
    <2>1. ASSUME NEW left,
                 task' = [task EXCEPT ![t].pc = "cancel.next", ![t].todo = left,
                                      ![t].cur = NoOrder]
          PROVE  Aside(t)
      BY <1>1, <1>2, <1>3, <2>1 DEF Aside, TaskRecord, Saving
    <2>2. QED
      BY <1>7, <1>14, <2>1 DEF CancelMark
  <1>15. QED
    BY <1>8, <1>9, <1>10, <1>11, <1>12, <1>13, <1>14

\* and all of a round.
LEMMA SyncStepAside ==
  ASSUME TypeInv, NEW t \in Syncers, SyncStep(t) \/ CronSync(t) \/ ManualSync(t)
  PROVE  Aside(t)
  <1>1. PICK q \in TaskRecord : q = task[t]
    BY SyncerIsTask, Parts DEF TasksOK
  <1>2. task \in [Tasks -> TaskRecord] /\ t \in Tasks
    BY SyncerIsTask, Parts DEF TasksOK
  <1>3. q.pc \notin Saving
    BY <1>1 DEF SyncStep, SyncBook, SyncContracts, SyncApply, SyncApplied, FillRow,
       FillSave, SyncOrphansDone, SyncClassify, SyncAbsorb, SyncOrphan, CronSync,
       ManualSync, ReadOpen, At, Saving
  <1>4. ASSUME NEW pc, Goto(t, pc), pc \notin Saving
        PROVE  Aside(t)
    BY <1>1, <1>2, <1>3, <1>4 DEF Goto, Aside, TaskRecord
  <1>5. ASSUME NEW pc, pc \notin Saving, task' = [task EXCEPT ![t] = [Idle EXCEPT !.pc = pc]]
        PROVE  Aside(t)
    BY <1>1, <1>2, <1>3, <1>5 DEF Aside, Idle
  <1>6. ASSUME Finish(t)
        PROVE  Aside(t)
    BY <1>1, <1>2, <1>3, <1>6 DEF Finish, Aside, Idle, Saving
  <1>7. CASE CronSync(t) \/ ManualSync(t)
    BY <1>4, <1>7 DEF CronSync, ManualSync, ReadOpen, Saving
  <1>8. CASE SyncBook(t)
    <2>1. ASSUME NEW book,
                 task' = [task EXCEPT ![t].pc = "sync.contracts",
                                      ![t].book = book, ![t].claimed = {}]
          PROVE  Aside(t)
      BY <1>1, <1>2, <1>3, <2>1 DEF Aside, TaskRecord, Saving
    <2>2. QED
      BY <1>4, <1>8, <2>1 DEF SyncBook, Saving
  <1>9. CASE SyncContracts(t) \/ FillRow(t)
    BY <1>4, <1>9 DEF SyncContracts, FillRow, Saving
  <1>10. CASE SyncApply(t)
    BY <1>1, <1>2, <1>3, <1>10 DEF SyncApply, Aside, TaskRecord, Saving
  <1>11. CASE SyncApplied(t)
    <2>1. task' = [task EXCEPT ![t] = [Idle EXCEPT !.pc = NextStrategy(t)]]
      BY <1>11 DEF SyncApplied, LeaveStrategy
    <2>2. NextStrategy(t) \notin Saving
      BY DEF NextStrategy, Saving
    <2>3. QED
      BY <1>5, <2>1, <2>2
  <1>12. CASE FillSave(t)
    BY <1>1, <1>2, <1>3, <1>12 DEF FillSave, Aside, TaskRecord, Saving
  <1>13. CASE SyncOrphansDone(t)
    BY <1>6, <1>13 DEF SyncOrphansDone
  <1>14. ASSUME NEW p \in Positions, SyncClassify(t, p)
         PROVE  Aside(t)
    <2>1. ASSUME NEW c, task' = [task EXCEPT ![t] = [task[t] EXCEPT !.claimed = c]]
          PROVE  Aside(t)
      BY <1>1, <1>2, <1>3, <2>1 DEF Aside, TaskRecord, Saving
    <2>2. \/ \E c : task' = [task EXCEPT ![t] = [task[t] EXCEPT !.claimed = c]]
          \/ \E pc \in {"sync.classify", "sync.absorb", "sync.apply"} :
                task' = [task EXCEPT ![t] = [Idle EXCEPT !.pc = pc]]
      BY <1>14 DEF SyncClassify, AfterClassify
    <2>3. QED
      BY <1>5, <2>1, <2>2 DEF Saving
  <1>15. ASSUME NEW p \in Positions, SyncAbsorb(t, p)
         PROVE  Aside(t)
    BY <1>4, <1>15 DEF SyncAbsorb, Saving
  <1>16. ASSUME NEW p \in Positions, SyncOrphan(t, p)
         PROVE  Aside(t)
    BY <1>1, <1>2, <1>3, <1>16 DEF SyncOrphan, Aside, TaskRecord, Saving
  <1>17. QED
    BY <1>7, <1>8, <1>9, <1>10, <1>11, <1>12, <1>13, <1>14, <1>15, <1>16 DEF SyncStep

\* The exchange moves, and no call chain does.
LEMMA TriggerLedger ==
  ASSUME TypeInv, NEW o \in Orders, ExchangeTrigger(o)
  PROVE  LedgerStep
  <1>1. /\ venue \in [Orders -> VenueState]
        /\ venue' = [venue EXCEPT ![o] = "triggered"]
        /\ UNCHANGED <<opened, status, task>>
        /\ contracts' = IF contracts >= 1 THEN contracts - 1 ELSE contracts
    BY Parts DEF ExchangeTrigger, Trigger, dbVars, VenueTypeOK
  <1>2. o.pos \in Positions /\ o.type \in Types
    BY DEF Orders
  <1>3. Hits' = Hits \cup {<<o.pos, o.type>>}
    <2>1. {u \in Orders : venue[u] = "triggered"}'
            = {u \in Orders : venue[u] = "triggered"} \cup {o}
      BY <1>1
    <2>2. QED
      BY <2>1 DEF Hits
  <1>4. \A pc : Closing(pc)' = Closing(pc)
    BY <1>1 DEF Closing, At
  <1>5. Ledger!Hit(o.pos, o.type)
    BY <1>1, <1>3, <1>4 DEF Ledger!Hit
  <1>6. QED
    BY <1>2, <1>5 DEF LedgerStep, Ledger!LedgerNext, Types

\* A position is bought and recorded.
LEMMA OpenLedger ==
  ASSUME TypeInv, RecordInv, NEW t \in Tasks,
         OpenSave(t) \/ \E p \in Positions : OpenMarket(t, p)
  PROVE  LedgerStep
  <1>1. PICK q \in TaskRecord : q = task[t]
    BY Parts DEF TasksOK
  <1>2. task \in [Tasks -> TaskRecord]
    BY Parts DEF TasksOK
  <1>3. CASE OpenSave(t)
    <2>1. At(t, "open.save") /\ UNCHANGED venueVars
          /\ status' = [status EXCEPT ![task[t].pos] = "OPEN"]
      BY <1>3 DEF OpenSave
    <2>2. task[t].pos \in opened /\ status[task[t].pos] = "NONE" /\ opened \subseteq Positions
      BY <2>1, Parts DEF RecordInv, OpeningIsFresh, Recorded, VenueTypeOK
    <2>3. Aside(t)
      BY <1>3, OrderStepAside
    <2>4. Hits' = Hits /\ \A pc \in Saving : Closing(pc)' = Closing(pc)
      BY <2>1, <2>3, ClosingKept, HitsKept DEF SameHits, venueVars
    <2>5. Ledger!Record(task[t].pos)
      BY <2>1, <2>2, <2>4 DEF Ledger!Record, venueVars, Saving
    <2>6. QED
      BY <2>2, <2>5 DEF LedgerStep, Ledger!LedgerNext
  <1>4. ASSUME NEW p \in Positions, OpenMarket(t, p)
        PROVE  LedgerStep
    <2>1. Aside(t)
      BY <1>1, <1>2, <1>4 DEF OpenMarket, At, Aside, TaskRecord, Saving
    <2>2. Hits' = Hits /\ \A pc \in Saving : Closing(pc)' = Closing(pc)
      BY <1>4, <2>1, ClosingKept, HitsKept DEF SameHits, OpenMarket, ExecuteOpen
    <2>3. Ledger!Buy(p)
      BY <1>4, <2>2 DEF Ledger!Buy, OpenMarket, ExecuteOpen, dbVars, Saving
    <2>4. QED
      BY <2>3 DEF LedgerStep, Ledger!LedgerNext
  <1>5. QED
    BY <1>3, <1>4

\* A close sells, learns that there is nothing to sell, or goes on unseen.
LEMMA CloseLedger ==
  ASSUME TypeInv, RecordInv, NEW t \in Tasks, CloseMarket(t) \/ CloseFlat(t)
  PROVE  LedgerStep
  <1>1. PICK q \in TaskRecord : q = task[t]
    BY Parts DEF TasksOK
  <1>2. task \in [Tasks -> TaskRecord]
    BY Parts DEF TasksOK
  <1>3. q.pc \in {"close.market", "close.flat"}
    BY <1>1 DEF CloseMarket, CloseFlat, At
  <1>4. q.pos \in Positions /\ status[q.pos] # "NONE"
    <2>1. Working0(t)
      BY <1>1, <1>3 DEF Working0, Resting
    <2>2. q.pos \in Positions
      BY <1>1, <1>3, Parts DEF TasksOK, Working, Resting, Saving
    <2>3. QED
      BY <1>1, <2>1, <2>2 DEF RecordInv, WorkIsRecorded, Recorded
  <1>5. contracts \in Nat /\ status' = status /\ opened' = opened
    BY Parts DEF VenueTypeOK, CloseMarket, CloseFlat, dbVars, venueVars, ExecuteClose
  <1>6. Hits' = Hits
    BY HitsKept DEF SameHits, CloseMarket, CloseFlat, venueVars, ExecuteClose
  <1>7. ASSUME NEW pc, Goto(t, pc)
        PROVE  /\ \A u \in Tasks \ {t} : task'[u] = task[u]
               /\ task'[t].pc = pc /\ task'[t].pos = q.pos
    BY <1>1, <1>2, <1>7 DEF Goto, TaskRecord
  <1>8. ASSUME NEW pc \in Saving, Goto(t, pc)
        PROVE  /\ Closing(pc)' = Closing(pc) \cup {q.pos}
               /\ \A other \in Saving \ {pc} : Closing(other)' = Closing(other)
    BY <1>1, <1>3, <1>4, <1>7, <1>8 DEF Closing, At, Saving
  <1>9. CASE ExecuteClose(task[t].pos) /\ Goto(t, "close.save")
    <2>1. Ledger!Sell(q.pos)
      BY <1>4, <1>5, <1>6, <1>8, <1>9 DEF Ledger!Sell, ExecuteClose, Saving
    <2>2. QED
      BY <1>4, <2>1 DEF LedgerStep, Ledger!LedgerNext
  <1>10. CASE contracts < 1 /\ contracts' = contracts /\ Goto(t, "close.flatSave")
    <2>1. contracts = 0
      BY <1>5, <1>10
    <2>2. Ledger!FindFlat(q.pos)
      BY <1>4, <1>5, <1>6, <1>8, <1>10, <2>1 DEF Ledger!FindFlat, Saving
    <2>3. QED
      BY <1>4, <2>2 DEF LedgerStep, Ledger!LedgerNext
  <1>11. CASE contracts' = contracts /\ (Goto(t, "close.flat") \/ Finish(t))
    <2>1. Aside(t)
      <3>1. CASE Goto(t, "close.flat")
        BY <1>1, <1>3, <1>7, <3>1 DEF Aside, Saving
      <3>2. CASE Finish(t)
        BY <1>1, <1>2, <1>3, <3>2 DEF Aside, Saving, Finish, Idle
      <3>3. QED
        BY <1>11, <3>1, <3>2
    <2>2. QED
      BY <1>5, <1>6, <1>11, <2>1, ClosingKept, UnseenStep DEF Unseen
  <1>12. QED
    BY <1>9, <1>10, <1>11 DEF CloseMarket, CloseFlat, venueVars

\* A close settles its position for what it did, or was told.
LEMMA CloseSaveLedger ==
  ASSUME TypeInv, RecordInv, NEW t \in Tasks, CloseSave(t)
  PROVE  LedgerStep
  <1>1. PICK q \in TaskRecord : q = task[t]
    BY Parts DEF TasksOK
  <1>2. task \in [Tasks -> TaskRecord]
    BY Parts DEF TasksOK
  <1>3. q.pc \in Saving /\ q.reason \in Reasons
    BY <1>1 DEF CloseSave, Saving, TaskRecord
  <1>4. q.pos \in Positions /\ status[q.pos] # "NONE"
    <2>1. Working0(t)
      BY <1>1, <1>3 DEF Working0, Resting, Saving
    <2>2. q.pos \in Positions
      BY <1>1, <1>3, Parts DEF TasksOK, Working, Resting, Saving
    <2>3. QED
      BY <1>1, <2>1, <2>2 DEF RecordInv, WorkIsRecorded, Recorded
  <1>5. UNCHANGED <<contracts, opened>> /\ Hits' = Hits
    BY HitsKept DEF SameHits, CloseSave, venueVars
  <1>6. /\ \A u \in Tasks \ {t} : task'[u] = task[u]
        /\ task'[t].pc = "cancel.read"
    BY <1>2 DEF CloseSave, Proceed, Idle
  <1>7. q.pos \in Closing(q.pc)
    BY <1>1, <1>4 DEF Closing, At
  <1>8. Closing(q.pc)' \in {Closing(q.pc), Closing(q.pc) \ {q.pos}}
    <2>1. Closing(q.pc)' \subseteq Closing(q.pc)
      BY <1>1, <1>6, <1>3 DEF Closing, At, Saving
    <2>2. Closing(q.pc) \ {q.pos} \subseteq Closing(q.pc)'
      BY <1>1, <1>6 DEF Closing, At
    <2>3. QED
      BY <2>1, <2>2
  <1>9. \A other \in Saving \ {q.pc} : Closing(other)' = Closing(other)
    BY <1>1, <1>3, <1>6 DEF Closing, At, Saving
  <1>10. CASE q.pc = "close.save"
    <2>1. status' = [status EXCEPT ![q.pos] = q.reason]
      BY <1>1, <1>3, <1>10 DEF CloseSave, At, Reasons
    <2>2. Ledger!Settle(q.pos, q.reason)
      BY <1>4, <1>5, <2>1 DEF Ledger!Settle
    <2>3. Ledger!SettleSale(q.pos)
      BY <1>3, <1>7, <1>8, <1>9, <1>10, <2>2 DEF Ledger!SettleSale, Saving, Reasons
    <2>4. QED
      BY <1>4, <2>3 DEF LedgerStep, Ledger!LedgerNext
  <1>11. CASE q.pc = "close.flatSave"
    <2>1. PICK outcome \in {"TP_HIT", "SL_HIT", "CLOSED"} :
              status' = [status EXCEPT ![q.pos] = outcome]
      BY <1>1, <1>3, <1>11 DEF CloseSave, At, Reasons
    <2>2. Ledger!Settle(q.pos, outcome)
      BY <1>4, <1>5, <2>1 DEF Ledger!Settle
    <2>3. Ledger!SettleFlat(q.pos)
      BY <1>7, <1>8, <1>9, <1>11, <2>2 DEF Ledger!SettleFlat, Saving
    <2>4. QED
      BY <1>4, <2>3 DEF LedgerStep, Ledger!LedgerNext
  <1>12. QED
    BY <1>3, <1>10, <1>11 DEF Saving

\* A round settles the position of an order that did trigger.
LEMMA FillLedger ==
  ASSUME TypeInv, RecordInv, GuardInv, NEW t \in Syncers, FillSave(t)
  PROVE  LedgerStep
  <1>1. t \in Tasks /\ task[t].pc = "fill.save"
    BY SyncerIsTask DEF FillSave, At
  <1>2. PICK o : o = task[t].cur
    OBVIOUS
  <1>3. o \in Orders /\ o.pos = task[t].pos /\ venue[o] = "triggered"
    BY <1>1, <1>2 DEF RecordInv, FillsOwnRow, GuardInv, Own, FillsTriggered
  <1>4. status' = [status EXCEPT ![o.pos] = HitReason(o.type)] /\ UNCHANGED venueVars
    BY <1>2, <1>3 DEF FillSave
  <1>5. o.pos \in Positions /\ o.type \in Types /\ status[o.pos] # "NONE"
    <2>1. Working0(t)
      BY <1>1 DEF Working0, Resting
    <2>2. QED
      BY <1>1, <1>3, <2>1 DEF RecordInv, WorkIsRecorded, Recorded, Orders
  <1>6. <<o.pos, o.type>> \in Hits
    BY <1>3, <1>5 DEF Hits
  <1>7. Hits' = Hits /\ \A pc \in Saving : Closing(pc)' = Closing(pc)
    <2>1. Aside(t)
      BY SyncStepAside DEF SyncStep
    <2>2. QED
      BY <1>1, <1>4, <2>1, ClosingKept, HitsKept DEF SameHits, venueVars
  <1>8. Ledger!SettleHit(o.pos, o.type)
    BY <1>4, <1>5, <1>6, <1>7
    DEF Ledger!SettleHit, Ledger!Settle, Ledger!Outcome, HitReason, venueVars, Saving
  <1>9. QED
    BY <1>5, <1>8 DEF LedgerStep, Ledger!LedgerNext, Types

\* Everything else is unseen.
LEMMA RestLedger ==
  ASSUME TypeInv, NEW t \in Tasks,
         \/ OpenUntracked(t) \/ PlaceTicker(t) \/ PlaceTp(t) \/ PlaceSl(t)
         \/ PlaceRow(t) \/ PlaceDone(t) \/ CloseRead(t)
         \/ CancelRead(t) \/ CancelBook(t) \/ CancelNext(t) \/ CancelMark(t)
         \/ \E p \in Positions : Replenish(t, p)
         \/ \E p \in Positions, r \in Reasons : CloseRequest(t, p, r)
         \/ t \in Syncers /\ ~FillSave(t) /\ SyncStep(t)
         \/ t \in Syncers /\ (CronSync(t) \/ ManualSync(t))
  PROVE  LedgerStep
  <1>1. PICK q \in TaskRecord : q = task[t]
    BY Parts DEF TasksOK
  <1>2. task \in [Tasks -> TaskRecord] /\ venue \in [Orders -> VenueState]
    BY Parts DEF TasksOK, VenueTypeOK
  <1>3. UNCHANGED <<contracts, opened, status>>
    BY DEF OpenUntracked, PlaceTicker, PlaceTp, PlaceSl, PlaceAt, PlaceRow, PlaceDone,
       CloseRead, CancelRead, CancelBook, CancelNext, CancelMark, Replenish,
       CloseRequest, SyncStep, SyncBook, SyncContracts, SyncApply, SyncApplied, FillRow,
       SyncOrphansDone, SyncClassify, SyncAbsorb, SyncOrphan, CronSync, ManualSync,
       ReadOpen, AcceptConditional, CancelConditional, venueVars, dbVars
  <1>4. SameHits
    <2>1. CASE PlaceTp(t) \/ PlaceSl(t)
      BY <1>2, <2>1 DEF SameHits, PlaceTp, PlaceSl, PlaceAt, AcceptConditional,
         IsNextOrder, venueVars
    <2>2. CASE CancelNext(t)
      BY <1>2, <2>2 DEF SameHits, CancelNext, CancelConditional, venueVars
    <2>3. CASE venue' = venue
      BY <2>3 DEF SameHits
    <2>4. QED
      BY <2>1, <2>2, <2>3
      DEF OpenUntracked, PlaceTicker, PlaceRow, PlaceDone,
       CloseRead, CancelRead, CancelBook, CancelMark, Replenish,
       CloseRequest, SyncStep, SyncBook, SyncContracts, SyncApply, SyncApplied, FillRow,
       SyncOrphansDone, SyncClassify, SyncAbsorb, SyncOrphan, CronSync, ManualSync,
       ReadOpen, venueVars
  <1>5. Aside(t)
    <2>1. ASSUME NEW p \in Positions, Replenish(t, p)
          PROVE  Aside(t)
      BY <1>1, <1>2, <2>1 DEF Replenish, At, Aside, TaskRecord, Saving
    <2>2. ASSUME NEW p \in Positions, NEW r \in Reasons, CloseRequest(t, p, r)
          PROVE  Aside(t)
      BY <1>1, <1>2, <2>2 DEF CloseRequest, At, Aside, TaskRecord, Saving
    <2>3. QED
      BY <2>1, <2>2, OrderStepAside, SyncStepAside
  <1>6. QED
    BY <1>3, <1>4, <1>5, AsideUnseen, UnseenStep

\* A step of the core is a step of the ledger, or none.
LEMMA NextLedger ==
  ASSUME TypeInv, RecordInv, GuardInv, [Next]_vars
  PROVE  LedgerStep
  <1>1. CASE Rest \/ UNCHANGED vars
    <2>1. UNCHANGED vars
      BY <1>1 DEF Rest
    <2>2. Unseen
      BY <2>1 DEF vars, orderVars, venueVars, dbVars, Unseen, Hits, Closing, At
    <2>3. QED
      BY <2>2, UnseenStep
  <1>2. CASE OrderStart
    BY <1>2, OpenLedger, RestLedger DEF OrderStart
  <1>3. ASSUME NEW t \in Syncers, CronSync(t) \/ ManualSync(t)
        PROVE  LedgerStep
    BY <1>3, SyncerIsTask, RestLedger
  <1>4. ASSUME NEW t \in Tasks, OrderStep(t)
        PROVE  LedgerStep
    BY <1>4, OpenLedger, CloseLedger, CloseSaveLedger, RestLedger DEF OrderStep
  <1>5. ASSUME NEW t \in Syncers, SyncStep(t)
        PROVE  LedgerStep
    BY <1>5, SyncerIsTask, FillLedger, RestLedger
  <1>6. ASSUME NEW o \in Orders, ExchangeTrigger(o)
        PROVE  LedgerStep
    BY <1>6, TriggerLedger
  <1>7. QED
    BY <1>1, <1>2, <1>3, <1>4, <1>5, <1>6 DEF Next, Step

\* The core implements the ledger: for any positions, strategies, requests and
\* rounds, and whatever fails, the rows are settled for what happened at the
\* exchange to that very position, when the prices of the positions are apart and
\* nothing replenishes.
THEOREM CoreKeepsLedger ==
  ASSUME Replenishers = {}, PricesApart
  PROVE  Spec => KeepsLedger
  <1>1. Spec => [](TypeInv /\ RecordInv /\ GuardInv)
    BY GuardInvariant
  <1>2. Init => Ledger!LedgerInit
    <2> SUFFICES ASSUME Init
                 PROVE  Ledger!LedgerInit
      OBVIOUS
    <2>1. \A o \in Orders : venue[o] # "triggered"
      BY DEF Init, OrderInit
    <2>2. Hits = {}
      BY <2>1 DEF Hits
    <2>3. \A t \in Tasks : task[t].pc = "idle"
      BY DEF Init, OrderInit, Idle
    <2>4. Closing("close.save") = {} /\ Closing("close.flatSave") = {}
      BY <2>3 DEF Closing, At
    <2>5. Ledger!Cardinality(Protected) = Cardinality(Protected)
      BY DEF Cardinality, Ledger!Cardinality
    <2>6. QED
      BY <2>2, <2>4, <2>5 DEF Ledger!LedgerInit, Init, OrderInit
  <1>3. TypeInv /\ RecordInv /\ GuardInv /\ [Next]_vars
          => [Ledger!LedgerNext]_(Ledger!ledgerVars)
    BY NextLedger DEF LedgerStep
  <1>4. QED
    BY <1>1, <1>2, <1>3, PTL DEF Spec, KeepsLedger, Ledger!LedgerSpec

=============================================================================
