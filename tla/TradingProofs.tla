--------------------------- MODULE TradingProofs ---------------------------
(***************************************************************************)
(* Theorems of Trading, for any set of positions, tasks, strategies and    *)
(* failures.                                                               *)
(***************************************************************************)
EXTENDS Trading, FiniteSetTheorems, SequenceTheorems, TLAPS

\* A call chain between requests, or a round between positions, works on none.
Resting == {"idle", "sync.book", "sync.contracts", "sync.classify",
            "sync.absorb", "sync.apply", "sync.orphans"}
Working ==
    \A t \in Tasks : task[t].pc \notin Resting => task[t].pos \in Positions

TasksOK == task \in [Tasks -> TaskRecord] /\ Working
TypeInv == TypeOK /\ Working

----------------------------------------------------------------------------
(* Updating the record of one task                                          *)

\* A task at rest is well-formed.
LEMMA IdleType == Idle \in TaskRecord /\ Idle.pc = "idle" /\ Idle.pos = NoPos
  BY DEF Idle, TaskRecord, PCs, Reasons, Continuations

\* Replacing one task's record by a well-formed one keeps the tasks well-formed.
LEMMA TaskUpdate ==
  ASSUME TasksOK, NEW t \in Tasks, NEW r \in TaskRecord,
         r.pc \notin Resting => r.pos \in Positions,
         task' = [task EXCEPT ![t] = r]
  PROVE  TasksOK'
  BY DEF TasksOK, Working

\* Goto keeps the tasks well-formed.
LEMMA GotoType ==
  ASSUME TasksOK, NEW t \in Tasks, NEW pc \in PCs, Goto(t, pc),
         pc \notin Resting => task[t].pos \in Positions
  PROVE  TasksOK'
  <1>1. PICK q \in TaskRecord : q = task[t]
    BY DEF TasksOK
  <1>2. [q EXCEPT !.pc = pc] \in TaskRecord
    BY DEF TaskRecord
  <1>3. [q EXCEPT !.pc = pc].pc = pc /\ [q EXCEPT !.pc = pc].pos = q.pos
    BY DEF TaskRecord
  <1>4. task' = [task EXCEPT ![t] = [q EXCEPT !.pc = pc]]
    BY <1>1 DEF Goto
  <1>5. QED
    BY <1>1, <1>2, <1>3, <1>4, TaskUpdate

\* So does Finish,
LEMMA FinishType ==
  ASSUME TasksOK, NEW t \in Tasks, Finish(t)
  PROVE  TasksOK'
  BY IdleType, TaskUpdate DEF Finish, Resting

\* and Proceed, while the task works on a position,
LEMMA ProceedType ==
  ASSUME TasksOK, NEW t \in Tasks, NEW pc \in PCs, Proceed(t, pc),
         pc \notin Resting => task[t].pos \in Positions
  PROVE  TasksOK'
  <1> DEFINE r == [Idle EXCEPT !.pc = pc, !.pos = task[t].pos]
  <1>1. task[t].pos \in Positions \cup {NoPos}
    BY DEF TasksOK, TaskRecord
  <1>2. r \in TaskRecord /\ r.pc = pc /\ r.pos = task[t].pos
    BY <1>1, IdleType DEF TaskRecord
  <1>3. QED
    BY <1>2, TaskUpdate DEF Proceed

\* and Return.
LEMMA ReturnType ==
  ASSUME TasksOK, NEW t \in Tasks, task[t].pos \in Positions, Return(t)
  PROVE  TasksOK'
  <1> DEFINE p == IF task[t].after = "place.ticker" THEN task[t].pos ELSE NoPos
             r == [Idle EXCEPT !.pc = task[t].after, !.pos = p]
  <1>1. task[t].after \in Continuations
    BY DEF TasksOK, TaskRecord
  <1>2. task[t].after \in PCs
    BY <1>1 DEF Continuations, PCs
  <1>3. p \in Positions \cup {NoPos}
    OBVIOUS
  <1>4. r \in TaskRecord /\ r.pc = task[t].after /\ r.pos = p
    BY <1>2, <1>3, IdleType DEF TaskRecord
  <1>5. r.pc \notin Resting => r.pos \in Positions
    BY <1>1, <1>4 DEF Continuations, Resting
  <1>6. QED
    BY <1>4, <1>5, TaskUpdate DEF Return

----------------------------------------------------------------------------
(* One lemma per action of OrderService                                     *)


\* What an action leaves to show once the tasks are settled.
LEMMA Assemble ==
  ASSUME TypeInv, TasksOK', VenueTypeOK', DbTypeOK', runs' \in [Tasks -> Nat],
         UNCHANGED sync
  PROVE  TypeInv'
  BY DEF TypeInv, TypeOK, OrderTypeOK, SyncTypeOK, TasksOK, Working

\* Most actions touch the venue or the database in at most one place.
LEMMA SameVenue == ASSUME TypeInv, UNCHANGED venueVars PROVE VenueTypeOK'
  BY DEF TypeInv, TypeOK, VenueTypeOK, venueVars

\* A step that leaves the database alone keeps its types.
LEMMA SameDb == ASSUME TypeInv, UNCHANGED dbVars PROVE DbTypeOK'
  BY DEF TypeInv, TypeOK, OrderTypeOK, DbTypeOK, dbVars

\* What TypeInv says, part by part.
LEMMA Parts == TypeInv => /\ TasksOK /\ VenueTypeOK /\ DbTypeOK
                          /\ runs \in [Tasks -> Nat] /\ SyncTypeOK
  BY DEF TypeInv, TypeOK, OrderTypeOK, TasksOK

\* OpenMarket keeps the types.
LEMMA OpenMarketType ==
  ASSUME TypeInv, NEW t \in Tasks, NEW p \in Positions, OpenMarket(t, p),
         UNCHANGED sync
  PROVE  TypeInv'
  <1>1. PICK q \in TaskRecord : q = task[t]
    BY Parts DEF TasksOK
  <1> DEFINE r == [q EXCEPT !.pc = "open.save", !.pos = p]
  <1>2. r \in TaskRecord /\ r.pos = p
    BY DEF TaskRecord, PCs
  <1>3. task' = [task EXCEPT ![t] = r]
    BY <1>1 DEF OpenMarket
  <1>4. TasksOK'
    BY <1>2, <1>3, Parts, TaskUpdate
  <1>5. VenueTypeOK'
    BY Parts DEF OpenMarket, ExecuteOpen, VenueTypeOK
  <1>6. QED
    BY <1>4, <1>5, SameDb, Parts, Assemble DEF OpenMarket

\* OpenSave keeps the types.
LEMMA OpenSaveType ==
  ASSUME TypeInv, NEW t \in Tasks, OpenSave(t), UNCHANGED sync
  PROVE  TypeInv'
  <1>1. At(t, "open.save") /\ task[t].pos \in Positions
    BY Parts DEF OpenSave, At, TasksOK, Working, Resting
  <1>2. TasksOK'
    <2>1. CASE Goto(t, "place.ticker")
      BY <1>1, <2>1, Parts, GotoType DEF PCs
    <2>2. CASE Finish(t)
      BY <2>2, Parts, FinishType
    <2>3. QED
      BY <2>1, <2>2 DEF OpenSave
  <1>3. MarkBands[task[t].pos] \subseteq Bands
    BY <1>1, MarkBandsAssumption
  <1>4. DbTypeOK'
    BY <1>3, Parts DEF OpenSave, DbTypeOK, PosStatus
  <1>5. QED
    BY <1>2, <1>4, SameVenue, Parts, Assemble DEF OpenSave

\* OpenUntracked keeps the types.
LEMMA OpenUntrackedType ==
  ASSUME TypeInv, NEW t \in Tasks, OpenUntracked(t), UNCHANGED sync
  PROVE  TypeInv'
  BY Parts, FinishType, SameVenue, SameDb, Assemble DEF OpenUntracked

\* PlaceTicker keeps the types.
LEMMA PlaceTickerType ==
  ASSUME TypeInv, NEW t \in Tasks, PlaceTicker(t), UNCHANGED sync
  PROVE  TypeInv'
  <1>1. task[t].pos \in Positions
    BY Parts DEF PlaceTicker, At, TasksOK, Working, Resting
  <1>2. TasksOK'
    <2>1. CASE Goto(t, "place.tp")
      BY <1>1, <2>1, Parts, GotoType DEF PCs
    <2>2. ASSUME NEW type \in Types,
                 task' = [task EXCEPT ![t].pc = "close.read",
                                      ![t].reason = HitReason(type)]
          PROVE  TasksOK'
      <3>1. PICK q \in TaskRecord : q = task[t]
        BY Parts DEF TasksOK
      <3> DEFINE r == [q EXCEPT !.pc = "close.read", !.reason = HitReason(type)]
      <3>2. r \in TaskRecord /\ r.pos = q.pos
        BY DEF TaskRecord, PCs, Reasons, HitReason
      <3>3. QED
        BY <1>1, <2>2, <3>1, <3>2, Parts, TaskUpdate
    <2>3. QED
      BY <2>1, <2>2 DEF PlaceTicker
  <1>3. MarkBands[task[t].pos] \subseteq Bands
    BY <1>1, MarkBandsAssumption
  <1>4. DbTypeOK'
    BY <1>3, Parts DEF PlaceTicker, DbTypeOK
  <1>5. QED
    BY <1>2, <1>4, SameVenue, Parts, Assemble DEF PlaceTicker

\* PlaceAt keeps the types.
LEMMA PlaceAtType ==
  ASSUME TypeInv, NEW t \in Tasks, NEW type \in Types, NEW pc, NEW rowPc \in PCs,
         pc \notin Resting, PlaceAt(t, type, pc, rowPc), UNCHANGED sync
  PROVE  TypeInv'
  <1>1. task[t].pos \in Positions
    BY Parts DEF PlaceAt, At, TasksOK, Working
  <1>2. PICK q \in TaskRecord : q = task[t]
    BY Parts DEF TasksOK
  <1>3. TasksOK' /\ VenueTypeOK'
    <2>1. ASSUME NEW o \in Orders, AcceptConditional(o, entry[task[t].pos]),
                 task' = [task EXCEPT ![t].pc = rowPc, ![t].cur = o]
          PROVE  TasksOK' /\ VenueTypeOK'
      <3> DEFINE r == [q EXCEPT !.pc = rowPc, !.cur = o]
      <3>1. r \in TaskRecord /\ r.pos = q.pos
        BY DEF TaskRecord
      <3>2. TasksOK'
        BY <1>1, <1>2, <2>1, <3>1, Parts, TaskUpdate
      <3>3. entry[task[t].pos] \in Bands
        BY <1>1, Parts DEF DbTypeOK
      <3>4. VenueTypeOK'
        BY <2>1, <3>3, Parts DEF AcceptConditional, VenueTypeOK, VenueState
      <3>5. QED
        BY <3>2, <3>4
    <2>2. ASSUME task' = [task EXCEPT ![t].pc = "close.read",
                                      ![t].reason = HitReason(type)],
                 UNCHANGED venueVars
          PROVE  TasksOK' /\ VenueTypeOK'
      <3> DEFINE r == [q EXCEPT !.pc = "close.read", !.reason = HitReason(type)]
      <3>1. r \in TaskRecord /\ r.pos = q.pos
        BY DEF TaskRecord, PCs, Reasons, HitReason
      <3>2. QED
        BY <1>1, <1>2, <2>2, <3>1, Parts, TaskUpdate, SameVenue
    <2>3. ASSUME Finish(t), UNCHANGED venueVars
          PROVE  TasksOK' /\ VenueTypeOK'
      BY <2>3, Parts, FinishType, SameVenue
    <2>4. QED
      BY <2>1, <2>2, <2>3 DEF PlaceAt
  <1>4. QED
    BY <1>3, SameDb, Parts, Assemble DEF PlaceAt

\* PlaceTpSl keeps the types.
LEMMA PlaceTpSlType ==
  ASSUME TypeInv, NEW t \in Tasks, PlaceTp(t) \/ PlaceSl(t), UNCHANGED sync
  PROVE  TypeInv'
  BY PlaceAtType DEF PlaceTp, PlaceSl, Types, PCs, Resting

\* PlaceRow keeps the types.
LEMMA PlaceRowType ==
  ASSUME TypeInv, NEW t \in Tasks, PlaceRow(t), UNCHANGED sync
  PROVE  TypeInv'
  <1>1. task[t].pos \in Positions
    BY Parts DEF PlaceRow, At, TasksOK, Working, Resting
  <1>2. PICK pc \in PCs : Proceed(t, pc)
    BY DEF PCs, PlaceRow
  <1>3. TasksOK'
    BY <1>1, <1>2, Parts, ProceedType
  <1>4. PICK o \in Orders \cup {NoOrder} : o = task[t].cur
    BY Parts DEF TasksOK, TaskRecord
  <1>5. DbTypeOK'
    BY <1>4, Parts DEF PlaceRow, DbTypeOK, RowStatus
  <1>6. QED
    BY <1>3, <1>5, SameVenue, Parts, Assemble DEF PlaceRow

\* PlaceDone keeps the types.
LEMMA PlaceDoneType ==
  ASSUME TypeInv, NEW t \in Tasks, PlaceDone(t), UNCHANGED sync
  PROVE  TypeInv'
  <1>1. DbTypeOK'
    BY Parts DEF PlaceDone, DbTypeOK
  <1>2. QED
    BY <1>1, FinishType, SameVenue, Parts, Assemble DEF PlaceDone


\* Replenish keeps the types.
LEMMA ReplenishType ==
  ASSUME TypeInv, NEW t \in Tasks, NEW p \in Positions, Replenish(t, p),
         UNCHANGED sync
  PROVE  TypeInv'
  <1>1. PICK q \in TaskRecord : q = task[t]
    BY Parts DEF TasksOK
  <1> DEFINE r == [q EXCEPT !.pc = "cancel.read", !.pos = p,
                            !.after = "place.ticker"]
  <1>2. r \in TaskRecord /\ r.pos = p
    BY DEF TaskRecord, PCs, Continuations
  <1>a. task' = [task EXCEPT ![t] = r]
    BY <1>1 DEF Replenish
  <1> HIDE DEF r
  <1>3. TasksOK'
    BY <1>2, <1>a, Parts, TaskUpdate
  <1>4. runs' \in [Tasks -> Nat]
    BY Parts DEF Replenish
  <1>5. QED
    BY <1>3, <1>4, SameVenue, SameDb, Assemble DEF Replenish

\* CloseRequest keeps the types.
LEMMA CloseRequestType ==
  ASSUME TypeInv, NEW t \in Tasks, NEW p \in Positions, NEW reason \in Reasons,
         CloseRequest(t, p, reason), UNCHANGED sync
  PROVE  TypeInv'
  <1>1. PICK q \in TaskRecord : q = task[t]
    BY Parts DEF TasksOK
  <1> DEFINE r == [q EXCEPT !.pc = "close.market", !.pos = p, !.reason = reason]
  <1>2. r \in TaskRecord /\ r.pos = p
    BY DEF TaskRecord, PCs
  <1>a. task' = [task EXCEPT ![t] = r]
    BY <1>1 DEF CloseRequest
  <1> HIDE DEF r
  <1>3. TasksOK'
    BY <1>2, <1>a, Parts, TaskUpdate
  <1>4. runs' \in [Tasks -> Nat]
    BY Parts DEF CloseRequest
  <1>5. QED
    BY <1>3, <1>4, SameVenue, SameDb, Assemble DEF CloseRequest

\* CloseRead keeps the types.
LEMMA CloseReadType ==
  ASSUME TypeInv, NEW t \in Tasks, CloseRead(t), UNCHANGED sync
  PROVE  TypeInv'
  <1>1. task[t].pos \in Positions
    BY Parts DEF CloseRead, At, TasksOK, Working, Resting
  <1>2. Goto(t, "close.market") \/ Finish(t)
    BY DEF CloseRead
  <1>3. TasksOK'
    BY <1>1, <1>2, Parts, GotoType, FinishType DEF PCs
  <1>4. QED
    BY <1>3, SameVenue, SameDb, Parts, Assemble DEF CloseRead

\* CloseMarket keeps the types.
LEMMA CloseMarketType ==
  ASSUME TypeInv, NEW t \in Tasks, CloseMarket(t), UNCHANGED sync
  PROVE  TypeInv'
  <1>1. task[t].pos \in Positions
    BY Parts DEF CloseMarket, At, TasksOK, Working, Resting
  <1>2. Goto(t, "close.save") \/ Goto(t, "close.flat") \/ Finish(t)
    BY DEF CloseMarket
  <1>3. TasksOK'
    BY <1>1, <1>2, Parts, GotoType, FinishType DEF PCs
  <1>4. VenueTypeOK'
    <2>1. CASE ExecuteClose(task[t].pos)
      BY <1>1, <2>1, Parts DEF ExecuteClose, VenueTypeOK
    <2>2. CASE UNCHANGED venueVars
      BY <2>2, SameVenue
    <2>3. QED
      BY <2>1, <2>2 DEF CloseMarket
  <1>5. QED
    BY <1>3, <1>4, SameDb, Parts, Assemble DEF CloseMarket

\* CloseFlat keeps the types.
LEMMA CloseFlatType ==
  ASSUME TypeInv, NEW t \in Tasks, CloseFlat(t), UNCHANGED sync
  PROVE  TypeInv'
  <1>1. task[t].pos \in Positions
    BY Parts DEF CloseFlat, At, TasksOK, Working, Resting
  <1>2. Goto(t, "close.flatSave") \/ Finish(t)
    BY DEF CloseFlat
  <1>3. TasksOK'
    BY <1>1, <1>2, Parts, GotoType, FinishType DEF PCs
  <1>4. QED
    BY <1>3, SameVenue, SameDb, Parts, Assemble DEF CloseFlat

\* CloseSave keeps the types.
LEMMA CloseSaveType ==
  ASSUME TypeInv, NEW t \in Tasks, CloseSave(t), UNCHANGED sync
  PROVE  TypeInv'
  <1>1. task[t].pos \in Positions
    BY Parts DEF CloseSave, TasksOK, Working, Resting
  <1>2. TasksOK'
    BY <1>1, Parts, ProceedType DEF CloseSave, PCs
  <1>3. task[t].reason \in Reasons
    BY Parts DEF TasksOK, TaskRecord
  <1>4. DbTypeOK'
    BY <1>3, Parts DEF CloseSave, DbTypeOK, PosStatus, Reasons
  <1>5. QED
    BY <1>2, <1>4, SameVenue, Parts, Assemble DEF CloseSave

\* CancelRead keeps the types.
LEMMA CancelReadType ==
  ASSUME TypeInv, NEW t \in Tasks, CancelRead(t), UNCHANGED sync
  PROVE  TypeInv'
  <1> DEFINE rows == PendingRows(task[t].pos)
  <1>1. task[t].pos \in Positions
    BY Parts DEF CancelRead, At, TasksOK, Working, Resting
  <1>2. TasksOK'
    <2>1. CASE Return(t)
      BY <1>1, <2>1, Parts, ReturnType
    <2>2. CASE task' = [task EXCEPT ![t].pc = "cancel.book", ![t].todo = rows,
                                    ![t].ids = exId]
      <3>1. PICK q \in TaskRecord : q = task[t]
        BY Parts DEF TasksOK
      <3>2. PICK ids \in [Orders -> Orders] : ids = exId
        BY Parts DEF DbTypeOK
      <3>3. PICK todo \in SUBSET Orders : todo = rows
        BY DEF PendingRows
      <3> DEFINE r == [q EXCEPT !.pc = "cancel.book", !.todo = todo, !.ids = ids]
      <3>4. r \in TaskRecord /\ r.pos = q.pos
        BY DEF TaskRecord, PCs
      <3>5. task' = [task EXCEPT ![t] = r]
        BY <2>2, <3>1, <3>2, <3>3
      <3> HIDE DEF r
      <3>6. QED
        BY <1>1, <3>1, <3>4, <3>5, Parts, TaskUpdate
    <2>3. QED
      BY <2>1, <2>2 DEF CancelRead
  <1>3. QED
    BY <1>2, SameVenue, SameDb, Parts, Assemble DEF CancelRead

\* CancelBook keeps the types.
LEMMA CancelBookType ==
  ASSUME TypeInv, NEW t \in Tasks, CancelBook(t), UNCHANGED sync
  PROVE  TypeInv'
  <1>1. task[t].pos \in Positions
    BY Parts DEF CancelBook, At, TasksOK, Working, Resting
  <1>2. PICK q \in TaskRecord : q = task[t]
    BY Parts DEF TasksOK
  <1>3. PICK book \in SUBSET Orders :
           task' = [task EXCEPT ![t].pc = "cancel.next",
                                ![t].book = book, ![t].claimed = {}]
    BY DEF CancelBook, LiveOrders
  <1> DEFINE r == [q EXCEPT !.pc = "cancel.next", !.book = book, !.claimed = {}]
  <1>4. r \in TaskRecord /\ r.pos = q.pos
    BY DEF TaskRecord, PCs
  <1>5. task' = [task EXCEPT ![t] = r]
    BY <1>2, <1>3
  <1> HIDE DEF r
  <1>6. TasksOK'
    BY <1>1, <1>2, <1>4, <1>5, Parts, TaskUpdate
  <1>7. QED
    BY <1>6, SameVenue, SameDb, Parts, Assemble DEF CancelBook

\* A row is matched with an order of the list it is looked up in, or with none.
LEMMA MatchesRange ==
  ASSUME NEW r, NEW id, NEW available \in SUBSET Orders
  PROVE  Matches(r, id, available) \subseteq available \cup {NoOrder}
  BY DEF Matches, ByFingerprint

\* CancelNext keeps the types.
LEMMA CancelNextType ==
  ASSUME TypeInv, NEW t \in Tasks, CancelNext(t), UNCHANGED sync
  PROVE  TypeInv'
  <1>1. task[t].pos \in Positions
    BY Parts DEF CancelNext, At, TasksOK, Working, Resting
  <1>2. PICK q \in TaskRecord : q = task[t]
    BY Parts DEF TasksOK
  <1>3. q.todo \in SUBSET Orders /\ q.book \in SUBSET Orders
        /\ q.claimed \in SUBSET Orders
    BY DEF TaskRecord
  <1> DEFINE Chosen(o, m) ==
          /\ exId' = Heal(exId, o, m)
          /\ \/ CancelConditional(IF m = NoOrder THEN q.ids[o] ELSE m)
             \/ UNCHANGED venueVars
          /\ task' = [task EXCEPT ![t].pc = "cancel.mark", ![t].cur = o,
                                  ![t].claimed = @ \cup ({m} \cap Orders)]
  <1>a. PICK o \in q.todo :
          \E m \in Matches(o, q.ids[o], q.book \ q.claimed) : Chosen(o, m)
    BY <1>2 DEF CancelNext
  <1>4. PICK m \in Matches(o, q.ids[o], q.book \ q.claimed) : Chosen(o, m)
    BY <1>a
  <1>5. m \in Orders \cup {NoOrder}
    BY <1>3, <1>4, MatchesRange
  <1>6. PICK c \in SUBSET Orders : c = q.claimed \cup ({m} \cap Orders)
    BY <1>3
  <1> DEFINE r == [q EXCEPT !.pc = "cancel.mark", !.cur = o, !.claimed = c]
  <1>7. r \in TaskRecord /\ r.pos = q.pos
    BY <1>3, <1>4 DEF TaskRecord, PCs
  <1>8. task' = [task EXCEPT ![t] = r]
    BY <1>2, <1>4, <1>6
  <1>9. TasksOK'
    BY <1>1, <1>2, <1>7, <1>8, Parts, TaskUpdate
  <1>10. VenueTypeOK'
    BY <1>4, Parts, SameVenue DEF CancelConditional, VenueTypeOK, VenueState
  <1>11. DbTypeOK'
    BY <1>4, <1>5, Parts DEF CancelNext, DbTypeOK, Heal
  <1>12. QED
    BY <1>9, <1>10, <1>11, Parts, Assemble DEF CancelNext

\* CancelMark keeps the types.
LEMMA CancelMarkType ==
  ASSUME TypeInv, NEW t \in Tasks, CancelMark(t), UNCHANGED sync
  PROVE  TypeInv'
  <1>1. task[t].pos \in Positions
    BY Parts DEF CancelMark, At, TasksOK, Working, Resting
  <1>2. TasksOK'
    <2>1. CASE Return(t)
      BY <1>1, <2>1, Parts, ReturnType
    <2>2. ASSUME NEW left \in SUBSET Orders,
                 task' = [task EXCEPT ![t].pc = "cancel.next",
                                      ![t].todo = left, ![t].cur = NoOrder]
          PROVE  TasksOK'
      <3>1. PICK q \in TaskRecord : q = task[t]
        BY Parts DEF TasksOK
      <3> DEFINE r == [q EXCEPT !.pc = "cancel.next", !.todo = left,
                                !.cur = NoOrder]
      <3>2. r \in TaskRecord /\ r.pos = q.pos
        BY DEF TaskRecord, PCs
      <3>3. task' = [task EXCEPT ![t] = r]
        BY <2>2, <3>1
      <3> HIDE DEF r
      <3>4. QED
        BY <1>1, <3>1, <3>2, <3>3, Parts, TaskUpdate
    <2>3. task[t].todo \ {task[t].cur} \in SUBSET Orders
      BY Parts DEF TasksOK, TaskRecord
    <2>4. \/ Return(t)
          \/ task' = [task EXCEPT ![t].pc = "cancel.next",
                       ![t].todo = task[t].todo \ {task[t].cur},
                       ![t].cur = NoOrder]
      BY DEF CancelMark
    <2>5. QED
      BY <2>1, <2>2, <2>3, <2>4
  <1>3. DbTypeOK'
    BY Parts DEF CancelMark, DbTypeOK, RowStatus
  <1>4. QED
    BY <1>2, <1>3, SameVenue, Parts, Assemble DEF CancelMark

\* Trigger keeps the types.
LEMMA TriggerType ==
  ASSUME TypeInv, NEW o \in Orders, ExchangeTrigger(o), UNCHANGED sync
  PROVE  TypeInv'
  <1>1. o.pos \in Positions
    BY DEF Orders
  <1>2. VenueTypeOK'
    BY <1>1, Parts DEF ExchangeTrigger, Trigger, VenueTypeOK, VenueState
  <1>3. TasksOK'
    BY Parts DEF ExchangeTrigger, TasksOK, Working
  <1>4. QED
    BY <1>2, <1>3, SameDb, Parts, Assemble DEF ExchangeTrigger

----------------------------------------------------------------------------
(* One lemma per action of TpslMonitor                                      *)

\* The rounds of the monitor are tasks.
LEMMA SyncerIsTask == Syncers \subseteq Tasks /\ CronSyncers \subseteq Syncers
  BY CronAssumption DEF Tasks

\* The same for a step of a round, which also writes its locals.
LEMMA AssembleSync ==
  ASSUME TypeInv, TasksOK', VenueTypeOK', DbTypeOK', runs' \in [Tasks -> Nat],
         SyncTypeOK'
  PROVE  TypeInv'
  BY DEF TypeInv, TypeOK, OrderTypeOK, TasksOK, Working

\* A round between positions works on none, so its task needs no position.
LEMMA GotoRestType ==
  ASSUME TasksOK, NEW t \in Tasks, NEW pc \in Resting, Goto(t, pc)
  PROVE  TasksOK'
  BY GotoType DEF Resting, PCs

\* Replacing the locals of one round keeps them well-formed.
LEMMA SyncUpdate ==
  ASSUME SyncTypeOK, NEW t \in Syncers, NEW r \in SyncRecord,
         sync' = [sync EXCEPT ![t] = r]
  PROVE  SyncTypeOK'
  BY DEF SyncTypeOK

\* The locals of a round at rest are well-formed.
LEMMA NoSyncType == ASSUME DbTypeOK PROVE NoSync \in SyncRecord
  BY DEF NoSync, SyncRecord

\* What a round has decided is well-formed.
LEMMA DecidedType ==
  ASSUME DbTypeOK, NEW locals \in SyncRecord
  PROVE  Decided(locals) \in SyncRecord
  BY NoSyncType DEF Decided, NoSync, SyncRecord

\* ReadOpen keeps the types.
LEMMA ReadOpenType ==
  ASSUME TypeInv, NEW t \in Syncers, NEW ps \in SUBSET Positions,
         NEW strategies \in SUBSET Strategies, ReadOpen(t, ps, strategies)
  PROVE  TasksOK' /\ VenueTypeOK' /\ DbTypeOK' /\ SyncTypeOK'
  <1>1. t \in Tasks
    BY SyncerIsTask
  <1>2. TasksOK'
    BY <1>1, Parts, GotoRestType DEF ReadOpen, Resting
  <1>3. PICK rows \in SUBSET Orders : rows = UNION {PendingRows(p) : p \in ps}
    BY DEF PendingRows
  <1>4. PICK ids \in [Orders -> Orders] : ids = exId
    BY Parts DEF DbTypeOK
  <1> DEFINE r == [NoSync EXCEPT !.snap = ps, !.rows = rows, !.ids = ids,
                                 !.left = strategies]
  <1>5. r \in SyncRecord
    <2>1. PICK n \in SyncRecord : n = NoSync
      BY Parts, NoSyncType
    <2>2. [n EXCEPT !.snap = ps, !.rows = rows, !.ids = ids,
                    !.left = strategies] \in SyncRecord
      BY DEF SyncRecord
    <2>3. QED
      BY <2>1, <2>2
  <1>6. sync' = [sync EXCEPT ![t] = r]
    BY <1>3, <1>4 DEF ReadOpen
  <1> HIDE DEF r
  <1>7. SyncTypeOK'
    BY <1>5, <1>6, Parts, SyncUpdate
  <1>8. QED
    BY <1>2, <1>7, SameVenue, SameDb DEF ReadOpen

\* CronSync keeps the types.
LEMMA CronSyncType ==
  ASSUME TypeInv, NEW t \in Syncers, CronSync(t)
  PROVE  TypeInv'
  <1> DEFINE ps == OpenPositions(Strategies)
  <1>1. ps \in SUBSET Positions
    BY DEF OpenPositions
  <1>2. {StrategyOf[p] : p \in ps} \in SUBSET Strategies
    BY <1>1, StrategyAssumption
  <1>3. QED
    BY <1>1, <1>2, ReadOpenType, Parts, AssembleSync DEF CronSync

\* ManualSync keeps the types.
LEMMA ManualSyncType ==
  ASSUME TypeInv, NEW t \in Syncers, ManualSync(t)
  PROVE  TypeInv'
  <1>1. PICK s \in Strategies : ReadOpen(t, OpenPositions({s}), {s})
    BY DEF ManualSync
  <1>2. OpenPositions({s}) \in SUBSET Positions /\ {s} \in SUBSET Strategies
    BY DEF OpenPositions
  <1>3. runs' \in [Tasks -> Nat]
    BY SyncerIsTask, Parts DEF ManualSync
  <1>4. QED
    BY <1>1, <1>2, <1>3, ReadOpenType, AssembleSync

\* SyncBook keeps the types.
LEMMA SyncBookType ==
  ASSUME TypeInv, NEW t \in Syncers, SyncBook(t)
  PROVE  TypeInv'
  <1>1. t \in Tasks
    BY SyncerIsTask
  <1>2. PICK z \in SyncRecord : z = sync[t]
    BY Parts DEF SyncTypeOK
  <1>3. PICK s \in z.left : sync' = [sync EXCEPT ![t] =
           [z EXCEPT !.left = @ \ {s}, !.strat = s,
                     !.todo = {p \in z.snap : StrategyOf[p] = s}]]
    BY <1>2 DEF SyncBook
  <1> DEFINE r == [z EXCEPT !.left = @ \ {s}, !.strat = s,
                            !.todo = {p \in z.snap : StrategyOf[p] = s}]
  <1>4. r \in SyncRecord
    BY DEF SyncRecord
  <1>5. SyncTypeOK'
    BY <1>3, <1>4, Parts, SyncUpdate
  <1>6. TasksOK'
    <2>1. CASE Goto(t, "sync.apply")
      BY <1>1, <2>1, Parts, GotoRestType DEF Resting
    <2>2. CASE task' = [task EXCEPT ![t].pc = "sync.contracts",
                                    ![t].book = LiveOrders, ![t].claimed = {}]
      <3>1. PICK q \in TaskRecord : q = task[t]
        BY <1>1, Parts DEF TasksOK
      <3>2. PICK book \in SUBSET Orders : book = LiveOrders
        BY DEF LiveOrders
      <3> DEFINE u == [q EXCEPT !.pc = "sync.contracts", !.book = book,
                                !.claimed = {}]
      <3>3. u \in TaskRecord /\ u.pc = "sync.contracts"
        BY DEF TaskRecord, PCs
      <3>4. task' = [task EXCEPT ![t] = u]
        BY <2>2, <3>1, <3>2
      <3> HIDE DEF u
      <3>5. QED
        BY <1>1, <3>3, <3>4, Parts, TaskUpdate DEF Resting
    <2>3. QED
      BY <2>1, <2>2 DEF SyncBook
  <1>7. QED
    BY <1>5, <1>6, SameVenue, SameDb, Parts, AssembleSync DEF SyncBook

\* SyncContracts keeps the types.
LEMMA SyncContractsType ==
  ASSUME TypeInv, NEW t \in Syncers, SyncContracts(t)
  PROVE  TypeInv'
  <1>1. PICK z \in SyncRecord : z = sync[t]
    BY Parts DEF SyncTypeOK
  <1>2. IsFiniteSet(Group(t)) /\ Cardinality(Group(t)) \in Nat
    <2>1. Group(t) \subseteq Positions
      BY <1>1 DEF Group, SyncRecord
    <2>2. QED
      BY <2>1, PositionsAssumption, FS_Subset, FS_CardinalityType
  <1>3. PICK x \in Int : x = Cardinality(Group(t)) - contracts
    BY <1>2, Parts DEF VenueTypeOK
  <1>4. SyncTypeOK'
    <2>1. [z EXCEPT !.posOk = TRUE, !.excess = x] \in SyncRecord
      BY DEF SyncRecord
    <2>2. [z EXCEPT !.posOk = FALSE] \in SyncRecord
      BY DEF SyncRecord
    <2>3. \/ sync' = [sync EXCEPT ![t] = [z EXCEPT !.posOk = TRUE, !.excess = x]]
          \/ sync' = [sync EXCEPT ![t] = [z EXCEPT !.posOk = FALSE]]
      BY <1>1, <1>3 DEF SyncContracts
    <2>4. QED
      BY <2>1, <2>2, <2>3, Parts, SyncUpdate
  <1>5. TasksOK'
    BY SyncerIsTask, Parts, GotoRestType DEF SyncContracts, Resting
  <1>6. QED
    BY <1>4, <1>5, SameVenue, SameDb, Parts, AssembleSync DEF SyncContracts

\* LatestPending keeps the types.
LEMMA LatestPendingType ==
  ASSUME TypeInv, NEW t \in Syncers, NEW p \in Positions, NEW type
  PROVE  LatestPending(t, p, type) \in SUBSET {o \in Orders : o.pos = p}
  <1>1. sync[t].rows \subseteq Orders
    BY Parts DEF SyncTypeOK, SyncRecord
  <1>2. QED
    BY <1>1 DEF LatestPending

\* The matching picks listed orders only.
LEMMA MatchOneRange ==
  ASSUME NEW rows, NEW ids, NEW available \in SUBSET Orders
  PROVE  MatchOne(rows, ids, available) \subseteq available \cup {NoOrder}
  BY MatchesRange DEF MatchOne

\* Planning the fill of a row appends to the plan.
LEMMA PlanType ==
  ASSUME NEW z \in SyncRecord, NEW p \in Positions, NEW r \in Orders, r.pos = p
  PROVE  Append(z.plan, [pos |-> p, row |-> r]) \in Seq(Fill)
  <1>1. z.plan \in Seq(Fill) /\ [pos |-> p, row |-> r] \in Fill
    BY DEF SyncRecord, Fill
  <1>2. QED
    BY <1>1

\* Classify keeps the types.
LEMMA ClassifyType ==
  ASSUME NEW z \in SyncRecord, NEW p \in Positions,
         NEW tp \in SUBSET {o \in Orders : o.pos = p},
         NEW sl \in SUBSET {o \in Orders : o.pos = p}, NEW tpEx, NEW slEx
  PROVE  Classify(z, p, tp, sl, tpEx, slEx) \in SyncRecord
  <1> DEFINE rest == [z EXCEPT !.todo = @ \ {p}]
             Planned(rs) == Append(z.plan, [pos |-> p, row |-> CHOOSE r \in rs : TRUE])
  <1>1. rest \in SyncRecord /\ rest.plan = z.plan
    BY DEF SyncRecord
  <1>2. [rest EXCEPT !.gone = @ \cup {p}] \in SyncRecord
    BY <1>1 DEF SyncRecord
  <1>3. ASSUME NEW rs \in SUBSET {o \in Orders : o.pos = p}, rs # {}
        PROVE  [rest EXCEPT !.plan = Planned(rs)] \in SyncRecord
    <2>1. Planned(rs) \in Seq(Fill)
      BY <1>3, PlanType
    <2> HIDE DEF Planned
    <2>2. QED
      BY <1>1, <2>1 DEF SyncRecord
  <1>4. QED
    BY <1>1, <1>2, <1>3 DEF Classify

\* SyncClassify keeps the types.
LEMMA SyncClassifyType ==
  ASSUME TypeInv, NEW t \in Syncers, NEW p \in Positions, SyncClassify(t, p)
  PROVE  TypeInv'
  <1> DEFINE tp == LatestPending(t, p, "TP")
             sl == LatestPending(t, p, "SL")
             open == task[t].book \ task[t].claimed
  <1>1. PICK z \in SyncRecord : z = sync[t]
    BY Parts DEF SyncTypeOK
  <1>2. PICK q \in TaskRecord : q = task[t]
    BY SyncerIsTask, Parts DEF TasksOK
  <1>3. /\ tp \in SUBSET {o \in Orders : o.pos = p}
        /\ sl \in SUBSET {o \in Orders : o.pos = p}
        /\ open \in SUBSET Orders
    BY <1>2, LatestPendingType DEF TaskRecord
  <1> DEFINE Then(tpEx, slEx) ==
        LET locals == Classify(z, p, tp, sl, tpEx, slEx)
            pc == AfterClassify(locals)
            claimed == task[t].claimed \cup ({tpEx, slEx} \cap Orders)
        IN /\ sync' = [sync EXCEPT ![t] =
                IF pc = "sync.apply" THEN Decided(locals) ELSE locals]
           /\ exId' = [o \in Orders |->
                         IF o \in tp /\ tpEx # NoOrder THEN tpEx
                         ELSE IF o \in sl /\ slEx # NoOrder THEN slEx
                         ELSE exId[o]]
           /\ task' = [task EXCEPT ![t] =
                IF pc = "sync.classify"
                THEN [task[t] EXCEPT !.claimed = claimed]
                ELSE [Idle EXCEPT !.pc = pc]]
  <1>4. PICK tpEx \in MatchOne(tp, z.ids, open) :
          \E slEx \in MatchOne(sl, z.ids, open \ {tpEx}) : Then(tpEx, slEx)
    BY <1>1 DEF SyncClassify
  <1>5. PICK slEx \in MatchOne(sl, z.ids, open \ {tpEx}) : Then(tpEx, slEx)
    BY <1>4
  <1>6. tpEx \in Orders \cup {NoOrder} /\ slEx \in Orders \cup {NoOrder}
    BY <1>3, <1>4, <1>5, MatchOneRange
  <1> DEFINE locals == Classify(z, p, tp, sl, tpEx, slEx)
             pc == AfterClassify(locals)
  <1>7. locals \in SyncRecord
    BY <1>3, ClassifyType
  <1>8. DbTypeOK'
    <2>1. exId' \in [Orders -> Orders]
      BY <1>5, <1>6, Parts DEF DbTypeOK
    <2>2. QED
      BY <2>1, Parts DEF SyncClassify, DbTypeOK
  <1>9. pc \in {"sync.classify", "sync.absorb", "sync.apply"}
    BY DEF AfterClassify
  <1>10. /\ sync' = [sync EXCEPT ![t] =
                      IF pc = "sync.apply" THEN Decided(locals) ELSE locals]
         /\ task' = [task EXCEPT ![t] =
               IF pc = "sync.classify"
               THEN [q EXCEPT !.claimed =
                                 q.claimed \cup ({tpEx, slEx} \cap Orders)]
               ELSE [Idle EXCEPT !.pc = pc]]
    BY <1>2, <1>5
  <1> HIDE DEF locals, pc
  <1>11. SyncTypeOK'
    BY <1>7, <1>10, Parts, DecidedType, SyncUpdate
  <1>12. TasksOK'
    <2>1. PICK c \in SUBSET Orders :
             c = q.claimed \cup ({tpEx, slEx} \cap Orders)
      BY DEF TaskRecord
    <2> DEFINE u == [q EXCEPT !.claimed = c]
               v == [Idle EXCEPT !.pc = pc]
    <2>2. u \in TaskRecord /\ u.pc = q.pc /\ v \in TaskRecord /\ v.pc = pc
      BY <1>9, IdleType DEF TaskRecord, PCs
    <2>3. q.pc = "sync.classify"
      BY <1>2 DEF SyncClassify, At
    <2>4. task' = [task EXCEPT ![t] = u] \/ task' = [task EXCEPT ![t] = v]
      BY <1>10, <2>1
    <2> HIDE DEF u, v
    <2>5. QED
      BY <1>9, <2>2, <2>3, <2>4, SyncerIsTask, Parts, TaskUpdate DEF Resting
  <1>13. QED
    BY <1>8, <1>11, <1>12, SameVenue, Parts, AssembleSync DEF SyncClassify

\* SyncAbsorb keeps the types.
LEMMA SyncAbsorbType ==
  ASSUME TypeInv, NEW t \in Syncers, NEW p \in Positions, SyncAbsorb(t, p)
  PROVE  TypeInv'
  <1>1. PICK z \in SyncRecord : z = sync[t]
    BY Parts DEF SyncTypeOK
  <1> DEFINE rest == [z EXCEPT !.gone = @ \ {p}]
             Then(locals) ==
               IF locals.gone = {} THEN Decided(locals) ELSE locals
             planned(r) ==
               [rest EXCEPT !.excess = rest.excess - 1,
                            !.plan = Append(rest.plan, [pos |-> p, row |-> r])]
  <1>2. rest \in SyncRecord /\ rest.plan = z.plan
    BY DEF SyncRecord
  <1>3. ASSUME NEW r \in Orders, r.pos = p
        PROVE  planned(r) \in SyncRecord
    <2>1. PICK plan \in Seq(Fill) :
             plan = Append(rest.plan, [pos |-> p, row |-> r])
      BY <1>2, <1>3, PlanType
    <2>2. PICK y \in SyncRecord : y = rest
      BY <1>2
    <2>3. PICK e \in Int : e = y.excess - 1
      BY DEF SyncRecord
    <2>4. [y EXCEPT !.excess = e, !.plan = plan] \in SyncRecord
      BY DEF SyncRecord
    <2> HIDE DEF rest
    <2>5. QED
      BY <2>1, <2>2, <2>3, <2>4
  <1>4. PICK w \in SyncRecord : sync' = [sync EXCEPT ![t] = w]
    <2>1. CASE sync' = [sync EXCEPT ![t] = Then(rest)]
      <3>1. Then(rest) \in SyncRecord
        BY <1>2, Parts, DecidedType
      <3>2. QED
        BY <2>1, <3>1
    <2>2. ASSUME NEW r \in Orders, r.pos = p,
                 sync' = [sync EXCEPT ![t] = Then(planned(r))]
          PROVE  \E w \in SyncRecord : sync' = [sync EXCEPT ![t] = w]
      <3>1. Then(planned(r)) \in SyncRecord
        BY <1>3, <2>2, Parts, DecidedType
      <3>2. QED
        BY <2>2, <3>1
    <2>3. \/ sync' = [sync EXCEPT ![t] = Then(rest)]
          \/ \E r \in Orders : /\ r.pos = p
                              /\ sync' = [sync EXCEPT ![t] = Then(planned(r))]
      <3>1. CASE sync[t].excess >= 1
        <4>1. PICK type \in Types : \E r \in LatestPending(t, p, type) :
                 sync' = [sync EXCEPT ![t] = Then(planned(r))]
          BY <1>1, <3>1 DEF SyncAbsorb
        <4>2. LatestPending(t, p, type) \subseteq {o \in Orders : o.pos = p}
          BY LatestPendingType
        <4>3. QED
          BY <4>1, <4>2
      <3>2. CASE ~(sync[t].excess >= 1)
        BY <1>1, <3>2 DEF SyncAbsorb
      <3>3. QED
        BY <3>1, <3>2
    <2>4. QED
      BY <2>1, <2>2, <2>3
  <1>5. SyncTypeOK'
    BY <1>4, Parts, SyncUpdate
  <1>6. TasksOK'
    BY SyncerIsTask, Parts, GotoRestType DEF SyncAbsorb, Resting
  <1>7. QED
    BY <1>5, <1>6, SameVenue, SameDb, Parts, AssembleSync DEF SyncAbsorb

\* SyncApply keeps the types.
LEMMA SyncApplyType ==
  ASSUME TypeInv, NEW t \in Syncers, SyncApply(t)
  PROVE  TypeInv'
  <1>1. PICK z \in SyncRecord : z = sync[t]
    BY Parts DEF SyncTypeOK
  <1>2. z.plan \in Seq(Fill) /\ z.plan # <<>>
    BY <1>1 DEF SyncApply, SyncRecord
  <1>3. PICK f \in Fill : f = Head(z.plan)
    BY <1>2, HeadTailProperties
  <1>4. PICK plan \in Seq(Fill) : plan = Tail(z.plan)
    BY <1>2, HeadTailProperties
  <1>5. SyncTypeOK'
    <2> DEFINE r == [z EXCEPT !.plan = plan]
    <2>1. r \in SyncRecord
      BY DEF SyncRecord
    <2>2. sync' = [sync EXCEPT ![t] = r]
      BY <1>1, <1>4 DEF SyncApply
    <2>3. QED
      BY <2>1, <2>2, Parts, SyncUpdate
  <1>6. TasksOK'
    <2>1. PICK q \in TaskRecord : q = task[t]
      BY SyncerIsTask, Parts DEF TasksOK
    <2> DEFINE u == [q EXCEPT !.pc = "fill.row", !.pos = f.pos, !.cur = f.row]
    <2>2. u \in TaskRecord /\ u.pos \in Positions
      BY DEF TaskRecord, PCs, Fill
    <2>3. task' = [task EXCEPT ![t] = u] \/ task' = task
      BY <1>1, <1>3, <2>1 DEF SyncApply
    <2> HIDE DEF u
    <2>4. QED
      BY <2>2, <2>3, SyncerIsTask, Parts, TaskUpdate DEF TasksOK, Working
  <1>7. QED
    BY <1>5, <1>6, SameVenue, SameDb, Parts, AssembleSync DEF SyncApply

\* SyncApplied keeps the types.
LEMMA SyncAppliedType ==
  ASSUME TypeInv, NEW t \in Syncers, SyncApplied(t)
  PROVE  TypeInv'
  <1>1. PICK z \in SyncRecord : z = sync[t]
    BY Parts DEF SyncTypeOK
  <1>2. PICK pc \in {"sync.book", "idle", "sync.orphans"} : pc = NextStrategy(t)
    BY DEF NextStrategy
  <1>3. PICK n \in SyncRecord : n = NoSync
    BY Parts, NoSyncType
  <1> DEFINE a == [n EXCEPT !.todo = OrphanPositions(z.strat)]
             b == [n EXCEPT !.snap = z.snap, !.rows = z.rows, !.ids = z.ids,
                            !.left = z.left]
  <1>4. a \in SyncRecord
    BY DEF SyncRecord, OrphanPositions
  <1>5. b \in SyncRecord
    BY DEF SyncRecord
  <1>6. \/ sync' = [sync EXCEPT ![t] = n]
        \/ sync' = [sync EXCEPT ![t] = a]
        \/ sync' = [sync EXCEPT ![t] = b]
    BY <1>1, <1>2, <1>3 DEF SyncApplied, LeaveStrategy
  <1> HIDE DEF a, b
  <1>7. SyncTypeOK'
    BY <1>4, <1>5, <1>6, Parts, SyncUpdate
  <1> DEFINE u == [Idle EXCEPT !.pc = pc]
  <1>8. u \in TaskRecord /\ u.pc = pc
    BY IdleType DEF TaskRecord, PCs
  <1>9. task' = [task EXCEPT ![t] = u]
    BY <1>2 DEF SyncApplied, LeaveStrategy
  <1> HIDE DEF u
  <1>10. TasksOK'
    BY <1>8, <1>9, SyncerIsTask, Parts, TaskUpdate DEF Resting
  <1>11. QED
    BY <1>7, <1>10, SameVenue, SameDb, Parts, AssembleSync DEF SyncApplied

\* FillRow keeps the types.
LEMMA FillRowType ==
  ASSUME TypeInv, NEW t \in Syncers, FillRow(t)
  PROVE  TypeInv'
  <1>1. t \in Tasks /\ task[t].pos \in Positions
    BY SyncerIsTask, Parts DEF FillRow, At, TasksOK, Working, Resting
  <1>2. TasksOK'
    BY <1>1, Parts, GotoType DEF FillRow, PCs
  <1>3. PICK o \in Orders \cup {NoOrder} : o = task[t].cur
    BY <1>1, Parts DEF TasksOK, TaskRecord
  <1>4. DbTypeOK'
    BY <1>3, Parts DEF FillRow, DbTypeOK, RowStatus
  <1>5. QED
    BY <1>2, <1>4, SameVenue, Parts, Assemble DEF FillRow

\* FillSave keeps the types.
LEMMA FillSaveType ==
  ASSUME TypeInv, NEW t \in Syncers, FillSave(t)
  PROVE  TypeInv'
  <1>1. t \in Tasks /\ task[t].pos \in Positions
    BY SyncerIsTask, Parts DEF FillSave, At, TasksOK, Working, Resting
  <1>2. TasksOK'
    <2>1. PICK q \in TaskRecord : q = task[t]
      BY <1>1, Parts DEF TasksOK
    <2> DEFINE u == [q EXCEPT !.pc = "cancel.read", !.after = "sync.apply",
                              !.cur = NoOrder]
    <2>2. u \in TaskRecord /\ u.pos = q.pos
      BY DEF TaskRecord, PCs, Continuations
    <2>3. task' = [task EXCEPT ![t] = u]
      BY <2>1 DEF FillSave
    <2> HIDE DEF u
    <2>4. QED
      BY <1>1, <2>1, <2>2, <2>3, Parts, TaskUpdate
  <1>3. DbTypeOK'
    BY Parts DEF FillSave, DbTypeOK, PosStatus, HitReason
  <1>4. QED
    BY <1>2, <1>3, SameVenue, Parts, Assemble DEF FillSave

\* SyncOrphan keeps the types.
LEMMA SyncOrphanType ==
  ASSUME TypeInv, NEW t \in Syncers, NEW p \in Positions, SyncOrphan(t, p)
  PROVE  TypeInv'
  <1>1. PICK z \in SyncRecord : z = sync[t]
    BY Parts DEF SyncTypeOK
  <1>2. SyncTypeOK'
    <2> DEFINE r == [z EXCEPT !.todo = z.todo \ {p}]
    <2>1. r \in SyncRecord
      BY DEF SyncRecord
    <2>2. sync' = [sync EXCEPT ![t] = r]
      BY <1>1 DEF SyncOrphan
    <2>3. QED
      BY <2>1, <2>2, Parts, SyncUpdate
  <1>3. TasksOK'
    <2>1. PICK q \in TaskRecord : q = task[t]
      BY SyncerIsTask, Parts DEF TasksOK
    <2> DEFINE u == [q EXCEPT !.pc = "cancel.read", !.pos = p,
                              !.after = "sync.orphans"]
    <2>2. u \in TaskRecord /\ u.pos = p
      BY DEF TaskRecord, PCs, Continuations
    <2>3. task' = [task EXCEPT ![t] = u]
      BY <2>1 DEF SyncOrphan
    <2> HIDE DEF u
    <2>4. QED
      BY <2>2, <2>3, SyncerIsTask, Parts, TaskUpdate
  <1>4. QED
    BY <1>2, <1>3, SameVenue, SameDb, Parts, AssembleSync DEF SyncOrphan

\* SyncOrphansDone keeps the types.
LEMMA SyncOrphansDoneType ==
  ASSUME TypeInv, NEW t \in Syncers, SyncOrphansDone(t)
  PROVE  TypeInv'
  <1>1. SyncTypeOK'
    BY Parts, NoSyncType, SyncUpdate DEF SyncOrphansDone
  <1>2. QED
    BY <1>1, SyncerIsTask, FinishType, SameVenue, SameDb, Parts, AssembleSync
    DEF SyncOrphansDone

----------------------------------------------------------------------------
(* Type correctness                                                         *)

\* SomeBand keeps the types.
LEMMA SomeBandType ==
  ASSUME NEW p \in Positions PROVE SomeBand(p) \in Bands
  <1>1. MarkBands[p] \in (SUBSET Bands) \ {{}}
    BY MarkBandsAssumption
  <1>2. QED
    BY <1>1 DEF SomeBand

\* Init keeps the types.
LEMMA InitType == Init => TypeInv
  <1> SUFFICES ASSUME Init PROVE TypeInv
    OBVIOUS
  <1>1. \A o \in Orders : o.pos \in Positions
    BY DEF Orders
  <1>2. Cardinality(Protected) \in Nat
    BY ProtectedAssumption, PositionsAssumption, FS_Subset, FS_CardinalityType
  <1>3. VenueTypeOK
    BY <1>1, <1>2, SomeBandType, ProtectedAssumption
    DEF Init, OrderInit, VenueTypeOK, VenueState
  <1>4. DbTypeOK
    BY SomeBandType DEF Init, OrderInit, DbTypeOK, PosStatus, RowStatus
  <1>5. task \in [Tasks -> TaskRecord] /\ runs \in [Tasks -> Nat]
    BY IdleType DEF Init, OrderInit
  <1>6. Working
    BY IdleType DEF Init, OrderInit, Working, Resting
  <1>7. SyncTypeOK
    BY <1>4, NoSyncType DEF Init, SyncInit, SyncTypeOK
  <1>8. QED
    BY <1>3, <1>4, <1>5, <1>6, <1>7 DEF TypeInv, TypeOK, OrderTypeOK

\* OrderStep keeps the types.
LEMMA OrderStepType ==
  ASSUME TypeInv, NEW t \in Tasks, OrderStep(t), UNCHANGED sync
  PROVE  TypeInv'
  BY OpenSaveType, OpenUntrackedType, PlaceTickerType, PlaceTpSlType,
     PlaceRowType, PlaceDoneType, CloseReadType, CloseMarketType, CloseFlatType,
     CloseSaveType, CancelReadType, CancelBookType, CancelNextType,
     CancelMarkType
  DEF OrderStep

\* SyncStep keeps the types.
LEMMA SyncStepType ==
  ASSUME TypeInv, NEW t \in Syncers, SyncStep(t)
  PROVE  TypeInv'
  BY SyncBookType, SyncContractsType, SyncApplyType, SyncAppliedType,
     FillRowType, FillSaveType, SyncOrphansDoneType, SyncClassifyType,
     SyncAbsorbType, SyncOrphanType
  DEF SyncStep

\* Stutter keeps the types.
LEMMA StutterType == TypeInv /\ UNCHANGED vars => TypeInv'
  BY DEF vars, orderVars, venueVars, dbVars, TypeInv, TypeOK, VenueTypeOK,
     OrderTypeOK, DbTypeOK, SyncTypeOK, Working

\* Next keeps the types.
LEMMA NextType == TypeInv /\ [Next]_vars => TypeInv'
  <1> SUFFICES ASSUME TypeInv, [Next]_vars PROVE TypeInv'
    OBVIOUS
  <1>1. CASE OrderStart /\ UNCHANGED sync
    BY <1>1, OpenMarketType, ReplenishType, CloseRequestType DEF OrderStart
  <1>2. ASSUME NEW t \in Syncers, CronSync(t) \/ ManualSync(t) PROVE TypeInv'
    BY <1>2, CronSyncType, ManualSyncType
  <1>3. ASSUME NEW t \in Tasks, Step(t) PROVE TypeInv'
    BY <1>3, OrderStepType, SyncStepType DEF Step
  <1>4. ASSUME NEW o \in Orders, ExchangeTrigger(o), UNCHANGED sync
        PROVE  TypeInv'
    BY <1>4, TriggerType
  <1>5. CASE Rest \/ UNCHANGED vars
    BY <1>5, StutterType DEF Rest
  <1>6. QED
    BY <1>1, <1>2, <1>3, <1>4, <1>5 DEF Next

\* The strengthened type invariant holds in every state.
LEMMA TypeInvariant == Spec => []TypeInv
  BY InitType, NextType, PTL DEF Spec

\* Every variable keeps its type in every reachable state, for any positions,
\* tasks, strategies and failures.
THEOREM TypeCorrect == Spec => []TypeOK
  BY TypeInvariant, PTL DEF TypeInv

----------------------------------------------------------------------------
(***************************************************************************)
(* A closed position stays closed, and a FILLED row of an OPEN position    *)
(* exists only inside the call that is closing it.                         *)
(*                                                                         *)
(* Both follow from one inductive invariant, RecordInv: a call chain only  *)
(* works on positions that have a row in the database, except between the  *)
(* opening order and the creation of that row, and only one chain opens a  *)
(* given position.  Hence nobody can write OPEN over a closed status.      *)
(***************************************************************************)

Recorded(p) == status[p] # "NONE"
Working0(t) == task[t].pc \notin Resting \cup {"open.save"}

OpeningIsFresh ==
    /\ \A t \in Tasks : At(t, "open.save") =>
          task[t].pos \in opened /\ ~Recorded(task[t].pos)
    /\ \A t, u \in Tasks :
          At(t, "open.save") /\ At(u, "open.save")
          /\ task[t].pos = task[u].pos => t = u
    /\ \A p \in Positions \ opened : ~Recorded(p)

WorkIsRecorded ==
    /\ \A t \in Tasks : Working0(t) => Recorded(task[t].pos)
    /\ \A t \in Syncers : \A p \in sync[t].snap \cup sync[t].todo : Recorded(p)

FillsOwnRow ==
    \A t \in Tasks : task[t].pc \in {"fill.row", "fill.save"} =>
        /\ t \in Syncers
        /\ task[t].cur \in Orders
        /\ task[t].cur.pos = task[t].pos

RecordInv ==
    /\ OpeningIsFresh
    /\ WorkIsRecorded
    /\ FillsOwnRow
    /\ FilledIsSettled

----------------------------------------------------------------------------
(* What one step of a call chain may do, whichever action it is            *)

\* How the step of t moves t itself.
Moves(t) ==
    /\ \A u \in Tasks \ {t} : task'[u] = task[u]
    /\ \/ task'[t].pc \in Resting
       \/ /\ task[t].pc \notin Resting                 \* same position
          /\ task'[t].pos = task[t].pos
          /\ task'[t].pc \notin {"open.save", "fill.row"}
          /\ task'[t].pc = "fill.save" =>
                At(t, "fill.row") /\ task'[t].cur = task[t].cur
       \/ /\ task'[t].pos \in Positions                \* takes one up
          /\ Recorded(task'[t].pos)
          /\ task'[t].pc \notin {"open.save", "fill.save"}
          /\ task'[t].pc = "fill.row" =>
                /\ t \in Syncers /\ task'[t].cur \in Orders
                /\ task'[t].cur.pos = task'[t].pos

\* What it writes to Position.status.
WritesStatus(t) ==
    \/ /\ status' = status
       /\ ~At(t, "fill.save")
       /\ At(t, "open.save") => task'[t].pc = "idle"
    \/ /\ At(t, "open.save")
       /\ status' = [status EXCEPT ![task[t].pos] = "OPEN"]
    \/ /\ Working0(t)
       /\ \E s \in Closed : status' = [status EXCEPT ![task[t].pos] = s]

\* Which rows it makes FILLED, and which positions a round comes to know.
WritesRows(t) ==
    \A o \in Orders : row'[o] = "FILLED" =>
        \/ row[o] = "FILLED"
        \/ task'[t].pc = "fill.save" /\ task'[t].cur = o

LearnsRecorded ==
    \A u \in Syncers : \A p \in sync'[u].snap \cup sync'[u].todo :
        p \in sync[u].snap \cup sync[u].todo \/ Recorded(p)

Shape(t) ==
    /\ Moves(t) /\ WritesStatus(t) /\ WritesRows(t) /\ LearnsRecorded
    /\ opened' = opened

\* The shape of OpenSave.
LEMMA OpenSaveShape ==
  ASSUME TypeInv, NEW t \in Tasks, OpenSave(t), UNCHANGED sync
  PROVE  Shape(t)
  <1>1. PICK q \in TaskRecord : q = task[t]
    BY Parts DEF TasksOK
  <1>2. task \in [Tasks -> TaskRecord]
    BY Parts DEF TasksOK
  <1>3. Moves(t)
    BY <1>1, <1>2 DEF OpenSave, Moves, At, Goto, Finish, Idle, Resting, TaskRecord
  <1>4. WritesStatus(t) /\ WritesRows(t) /\ LearnsRecorded /\ opened' = opened
    BY <1>1, <1>2, Parts DEF OpenSave, WritesStatus, WritesRows, LearnsRecorded,
       At, Working0, Resting, venueVars, dbVars
  <1>5. QED
    BY <1>3, <1>4 DEF Shape

\* The shape of OpenUntracked.
LEMMA OpenUntrackedShape ==
  ASSUME TypeInv, NEW t \in Tasks, OpenUntracked(t), UNCHANGED sync
  PROVE  Shape(t)
  <1>1. PICK q \in TaskRecord : q = task[t]
    BY Parts DEF TasksOK
  <1>2. task \in [Tasks -> TaskRecord]
    BY Parts DEF TasksOK
  <1>3. Moves(t)
    BY <1>1, <1>2 DEF OpenUntracked, Moves, At, Goto, Finish, Idle, Resting, TaskRecord
  <1>4. WritesStatus(t) /\ WritesRows(t) /\ LearnsRecorded /\ opened' = opened
    BY <1>1, <1>2, Parts DEF OpenUntracked, WritesStatus, WritesRows, LearnsRecorded,
       At, Working0, Resting, venueVars, dbVars, Finish, Idle
  <1>5. QED
    BY <1>3, <1>4 DEF Shape

\* The shape of PlaceTicker.
LEMMA PlaceTickerShape ==
  ASSUME TypeInv, NEW t \in Tasks, PlaceTicker(t), UNCHANGED sync
  PROVE  Shape(t)
  <1>1. PICK q \in TaskRecord : q = task[t]
    BY Parts DEF TasksOK
  <1>2. task \in [Tasks -> TaskRecord]
    BY Parts DEF TasksOK
  <1>3. Moves(t)
    BY <1>1, <1>2 DEF PlaceTicker, Moves, At, Goto, Finish, Idle, Resting, TaskRecord
  <1>4. WritesStatus(t) /\ WritesRows(t) /\ LearnsRecorded /\ opened' = opened
    BY <1>1, <1>2, Parts DEF PlaceTicker, WritesStatus, WritesRows, LearnsRecorded,
       At, Working0, Resting, venueVars, dbVars
  <1>5. QED
    BY <1>3, <1>4 DEF Shape

\* The shape of PlaceRow.
LEMMA PlaceRowShape ==
  ASSUME TypeInv, NEW t \in Tasks, PlaceRow(t), UNCHANGED sync
  PROVE  Shape(t)
  <1>1. PICK q \in TaskRecord : q = task[t]
    BY Parts DEF TasksOK
  <1>2. task \in [Tasks -> TaskRecord]
    BY Parts DEF TasksOK
  <1>3. Moves(t)
    BY <1>1, <1>2 DEF PlaceRow, Moves, At, Proceed, Idle, Resting, TaskRecord
  <1>4. WritesStatus(t) /\ WritesRows(t) /\ LearnsRecorded /\ opened' = opened
    BY <1>1, <1>2, Parts DEF PlaceRow, WritesStatus, WritesRows, LearnsRecorded,
       At, Working0, Resting, venueVars, dbVars, Proceed, Idle, DbTypeOK, TaskRecord
  <1>5. QED
    BY <1>3, <1>4 DEF Shape

\* The shape of PlaceDone.
LEMMA PlaceDoneShape ==
  ASSUME TypeInv, NEW t \in Tasks, PlaceDone(t), UNCHANGED sync
  PROVE  Shape(t)
  <1>1. PICK q \in TaskRecord : q = task[t]
    BY Parts DEF TasksOK
  <1>2. task \in [Tasks -> TaskRecord]
    BY Parts DEF TasksOK
  <1>3. Moves(t)
    BY <1>1, <1>2 DEF PlaceDone, Moves, At, Goto, Finish, Idle, Resting, TaskRecord
  <1>4. WritesStatus(t) /\ WritesRows(t) /\ LearnsRecorded /\ opened' = opened
    BY <1>1, <1>2, Parts DEF PlaceDone, WritesStatus, WritesRows, LearnsRecorded,
       At, Working0, Resting, venueVars, dbVars
  <1>5. QED
    BY <1>3, <1>4 DEF Shape

\* The shape of CloseRead.
LEMMA CloseReadShape ==
  ASSUME TypeInv, NEW t \in Tasks, CloseRead(t), UNCHANGED sync
  PROVE  Shape(t)
  <1>1. PICK q \in TaskRecord : q = task[t]
    BY Parts DEF TasksOK
  <1>2. task \in [Tasks -> TaskRecord]
    BY Parts DEF TasksOK
  <1>3. Moves(t)
    BY <1>1, <1>2 DEF CloseRead, Moves, At, Goto, Finish, Idle, Resting, TaskRecord
  <1>4. WritesStatus(t) /\ WritesRows(t) /\ LearnsRecorded /\ opened' = opened
    BY <1>1, <1>2, Parts DEF CloseRead, WritesStatus, WritesRows, LearnsRecorded,
       At, Working0, Resting, venueVars, dbVars
  <1>5. QED
    BY <1>3, <1>4 DEF Shape

\* The shape of CloseMarket.
LEMMA CloseMarketShape ==
  ASSUME TypeInv, NEW t \in Tasks, CloseMarket(t), UNCHANGED sync
  PROVE  Shape(t)
  <1>1. PICK q \in TaskRecord : q = task[t]
    BY Parts DEF TasksOK
  <1>2. task \in [Tasks -> TaskRecord]
    BY Parts DEF TasksOK
  <1>3. Moves(t)
    BY <1>1, <1>2 DEF CloseMarket, Moves, At, Goto, Finish, Idle, Resting, TaskRecord
  <1>4. WritesStatus(t) /\ WritesRows(t) /\ LearnsRecorded /\ opened' = opened
    BY <1>1, <1>2, Parts DEF CloseMarket, WritesStatus, WritesRows, LearnsRecorded,
       At, Working0, Resting, venueVars, dbVars, ExecuteClose
  <1>5. QED
    BY <1>3, <1>4 DEF Shape

\* The shape of CloseFlat.
LEMMA CloseFlatShape ==
  ASSUME TypeInv, NEW t \in Tasks, CloseFlat(t), UNCHANGED sync
  PROVE  Shape(t)
  <1>1. PICK q \in TaskRecord : q = task[t]
    BY Parts DEF TasksOK
  <1>2. task \in [Tasks -> TaskRecord]
    BY Parts DEF TasksOK
  <1>3. Moves(t)
    BY <1>1, <1>2 DEF CloseFlat, Moves, At, Goto, Finish, Idle, Resting, TaskRecord
  <1>4. WritesStatus(t) /\ WritesRows(t) /\ LearnsRecorded /\ opened' = opened
    BY <1>1, <1>2, Parts DEF CloseFlat, WritesStatus, WritesRows, LearnsRecorded,
       At, Working0, Resting, venueVars, dbVars
  <1>5. QED
    BY <1>3, <1>4 DEF Shape

\* The shape of CloseSave.
LEMMA CloseSaveShape ==
  ASSUME TypeInv, NEW t \in Tasks, CloseSave(t), UNCHANGED sync
  PROVE  Shape(t)
  <1>1. PICK q \in TaskRecord : q = task[t]
    BY Parts DEF TasksOK
  <1>2. task \in [Tasks -> TaskRecord]
    BY Parts DEF TasksOK
  <1>3. Moves(t)
    BY <1>1, <1>2 DEF CloseSave, Moves, At, Proceed, Idle, Resting, TaskRecord
  <1>4. WritesStatus(t) /\ WritesRows(t) /\ LearnsRecorded /\ opened' = opened
    BY <1>1, <1>2, Parts DEF CloseSave, WritesStatus, WritesRows, LearnsRecorded,
       At, Working0, Resting, venueVars, dbVars, TasksOK, TaskRecord, Reasons, Closed
  <1>5. QED
    BY <1>3, <1>4 DEF Shape

\* A return only moves the task on.
LEMMA ReturnMoves ==
  ASSUME TypeInv, NEW t \in Tasks, task[t].pc \notin Resting, Return(t)
  PROVE  Moves(t)
  <1>1. task \in [Tasks -> TaskRecord] /\ task[t].after \in Continuations
    BY Parts DEF TasksOK, TaskRecord
  <1>2. \A u \in Tasks \ {t} : task'[u] = task[u]
    BY <1>1 DEF Return
  <1>3. PICK i \in TaskRecord : i = Idle
    BY IdleType
  <1> DEFINE p == IF task[t].after = "place.ticker" THEN task[t].pos ELSE NoPos
  <1>4. task'[t] = [i EXCEPT !.pc = task[t].after, !.pos = p]
    BY <1>1, <1>3 DEF Return
  <1>5. task'[t].pc = task[t].after /\ task'[t].pos = p
    BY <1>4 DEF TaskRecord
  <1>6. QED
    BY <1>1, <1>2, <1>5 DEF Moves, Continuations, Resting

\* The shape of CancelRead.
LEMMA CancelReadShape ==
  ASSUME TypeInv, NEW t \in Tasks, CancelRead(t), UNCHANGED sync
  PROVE  Shape(t)
  <1>1. PICK q \in TaskRecord : q = task[t]
    BY Parts DEF TasksOK
  <1>2. task \in [Tasks -> TaskRecord]
    BY Parts DEF TasksOK
  <1>3. Moves(t)
    <2>1. CASE Return(t)
      BY <2>1, ReturnMoves DEF CancelRead, At, Resting
    <2>2. CASE ~Return(t)
      BY <1>1, <1>2, <2>2 DEF CancelRead, Moves, At, Resting, TaskRecord
    <2>3. QED
      BY <2>1, <2>2
  <1>4. WritesStatus(t) /\ WritesRows(t) /\ LearnsRecorded /\ opened' = opened
    BY <1>1, <1>2, Parts DEF CancelRead, WritesStatus, WritesRows, LearnsRecorded,
       At, Working0, Resting, venueVars, dbVars
  <1>5. QED
    BY <1>3, <1>4 DEF Shape

\* The shape of CancelBook.
LEMMA CancelBookShape ==
  ASSUME TypeInv, NEW t \in Tasks, CancelBook(t), UNCHANGED sync
  PROVE  Shape(t)
  <1>1. PICK q \in TaskRecord : q = task[t]
    BY Parts DEF TasksOK
  <1>2. task \in [Tasks -> TaskRecord]
    BY Parts DEF TasksOK
  <1>3. Moves(t)
    BY <1>1, <1>2 DEF CancelBook, Moves, At, Return, Continuations, Idle, Resting, TaskRecord
  <1>4. WritesStatus(t) /\ WritesRows(t) /\ LearnsRecorded /\ opened' = opened
    BY <1>1, <1>2, Parts DEF CancelBook, WritesStatus, WritesRows, LearnsRecorded,
       At, Working0, Resting, venueVars, dbVars
  <1>5. QED
    BY <1>3, <1>4 DEF Shape

\* The shape of CancelNext.
LEMMA CancelNextShape ==
  ASSUME TypeInv, NEW t \in Tasks, CancelNext(t), UNCHANGED sync
  PROVE  Shape(t)
  <1>1. PICK q \in TaskRecord : q = task[t]
    BY Parts DEF TasksOK
  <1>2. task \in [Tasks -> TaskRecord]
    BY Parts DEF TasksOK
  <1>3. Moves(t)
    BY <1>1, <1>2 DEF CancelNext, Moves, At, Return, Continuations, Idle, Resting, TaskRecord
  <1>4. WritesStatus(t) /\ WritesRows(t) /\ LearnsRecorded /\ opened' = opened
    BY <1>1, <1>2, Parts DEF CancelNext, WritesStatus, WritesRows, LearnsRecorded,
       At, Working0, Resting, venueVars, dbVars, CancelConditional
  <1>5. QED
    BY <1>3, <1>4 DEF Shape

\* The shape of CancelMark.
LEMMA CancelMarkShape ==
  ASSUME TypeInv, NEW t \in Tasks, CancelMark(t), UNCHANGED sync
  PROVE  Shape(t)
  <1>1. PICK q \in TaskRecord : q = task[t]
    BY Parts DEF TasksOK
  <1>2. task \in [Tasks -> TaskRecord]
    BY Parts DEF TasksOK
  <1>3. Moves(t)
    <2>1. CASE Return(t)
      BY <2>1, ReturnMoves DEF CancelMark, At, Resting
    <2>2. CASE ~Return(t)
      BY <1>1, <1>2, <2>2 DEF CancelMark, Moves, At, Resting, TaskRecord
    <2>3. QED
      BY <2>1, <2>2
  <1>4. WritesStatus(t) /\ WritesRows(t) /\ LearnsRecorded /\ opened' = opened
    BY <1>1, <1>2, Parts DEF CancelMark, WritesStatus, WritesRows, LearnsRecorded,
       At, Working0, Resting, venueVars, dbVars, DbTypeOK, TaskRecord
  <1>5. QED
    BY <1>3, <1>4 DEF Shape

\* The shape of PlaceAt.
LEMMA PlaceAtShape ==
  ASSUME TypeInv, NEW t \in Tasks, NEW type \in Types,
         NEW pc \in {"place.tp", "place.sl"},
         NEW rowPc \in {"place.tpRow", "place.slRow"},
         PlaceAt(t, type, pc, rowPc), UNCHANGED sync
  PROVE  Shape(t)
  <1>1. PICK q \in TaskRecord : q = task[t]
    BY Parts DEF TasksOK
  <1>2. task \in [Tasks -> TaskRecord] /\ t \in Tasks
    BY Parts DEF TasksOK
  <1>3. Moves(t)
    <2>1. ASSUME NEW o, task' = [task EXCEPT ![t].pc = rowPc, ![t].cur = o]
          PROVE  Moves(t)
      BY <1>1, <1>2, <2>1 DEF PlaceAt, Moves, At, Resting, TaskRecord
    <2>2. ASSUME task' = [task EXCEPT ![t].pc = "close.read",
                                      ![t].reason = HitReason(type)]
          PROVE  Moves(t)
      BY <1>1, <1>2, <2>2 DEF PlaceAt, Moves, At, Resting, TaskRecord
    <2>3. ASSUME Finish(t)
          PROVE  Moves(t)
      BY <1>2, <2>3 DEF Finish, Idle, Moves, Resting
    <2>4. QED
      BY <2>1, <2>2, <2>3 DEF PlaceAt
  <1>4. WritesStatus(t) /\ WritesRows(t) /\ opened' = opened
    BY DEF PlaceAt, AcceptConditional, WritesStatus, WritesRows, At, venueVars,
       dbVars
  <1>5. LearnsRecorded
    BY DEF PlaceAt, LearnsRecorded
  <1>6. QED
    BY <1>3, <1>4, <1>5 DEF Shape

\* The shape of Replenish.
LEMMA ReplenishShape ==
  ASSUME TypeInv, NEW t \in Tasks,
         NEW p \in Positions, Replenish(t, p), UNCHANGED sync
  PROVE  Shape(t)
  <1>1. PICK q \in TaskRecord : q = task[t]
    BY Parts DEF TasksOK
  <1>2. task \in [Tasks -> TaskRecord] /\ t \in Tasks
    BY Parts DEF TasksOK
  <1>3. Moves(t)
    BY <1>1, <1>2 DEF Replenish, Moves, At, Recorded, Resting, TaskRecord
  <1>4. WritesStatus(t) /\ WritesRows(t) /\ opened' = opened
    BY <1>1, <1>2, Parts DEF Replenish, WritesStatus, WritesRows, At, Working0,
       Resting, venueVars, dbVars
  <1>5. LearnsRecorded
    BY DEF Replenish, LearnsRecorded
  <1>6. QED
    BY <1>3, <1>4, <1>5 DEF Shape

\* The shape of CloseRequest.
LEMMA CloseRequestShape ==
  ASSUME TypeInv, NEW t \in Tasks,
         NEW p \in Positions,
         NEW reason \in Reasons, CloseRequest(t, p, reason), UNCHANGED sync
  PROVE  Shape(t)
  <1>1. PICK q \in TaskRecord : q = task[t]
    BY Parts DEF TasksOK
  <1>2. task \in [Tasks -> TaskRecord] /\ t \in Tasks
    BY Parts DEF TasksOK
  <1>3. Moves(t)
    BY <1>1, <1>2 DEF CloseRequest, Moves, At, Recorded, Resting, TaskRecord
  <1>4. WritesStatus(t) /\ WritesRows(t) /\ opened' = opened
    BY <1>1, <1>2, Parts DEF CloseRequest, WritesStatus, WritesRows, At, Working0,
       Resting, venueVars, dbVars
  <1>5. LearnsRecorded
    BY DEF CloseRequest, LearnsRecorded
  <1>6. QED
    BY <1>3, <1>4, <1>5 DEF Shape

\* The shape of FillRow.
LEMMA FillRowShape ==
  ASSUME TypeInv, NEW t \in Syncers, FillRow(t)
  PROVE  Shape(t)
  <1>1. PICK q \in TaskRecord : q = task[t]
    BY Parts, SyncerIsTask DEF TasksOK
  <1>2. task \in [Tasks -> TaskRecord] /\ t \in Tasks
    BY Parts, SyncerIsTask DEF TasksOK
  <1>3. Moves(t)
    BY <1>1, <1>2 DEF FillRow, Moves, At, Goto, Finish, Idle, Resting, TaskRecord
  <1>4. WritesStatus(t) /\ WritesRows(t) /\ opened' = opened
    BY <1>1, <1>2, Parts DEF FillRow, WritesStatus, WritesRows, At, Working0,
       Resting, venueVars, dbVars, Goto, DbTypeOK, TaskRecord
  <1>5. LearnsRecorded
    BY DEF FillRow, LearnsRecorded
  <1>6. QED
    BY <1>3, <1>4, <1>5 DEF Shape

\* The shape of FillSave.
LEMMA FillSaveShape ==
  ASSUME TypeInv, NEW t \in Syncers, FillSave(t)
  PROVE  Shape(t)
  <1>1. PICK q \in TaskRecord : q = task[t]
    BY Parts, SyncerIsTask DEF TasksOK
  <1>2. task \in [Tasks -> TaskRecord] /\ t \in Tasks
    BY Parts, SyncerIsTask DEF TasksOK
  <1>3. Moves(t)
    BY <1>1, <1>2 DEF FillSave, Moves, At, Resting, TaskRecord
  <1>4. WritesStatus(t) /\ WritesRows(t) /\ opened' = opened
    BY <1>1, <1>2, Parts DEF FillSave, WritesStatus, WritesRows, At, Working0,
       Resting, venueVars, dbVars, HitReason, Closed
  <1>5. LearnsRecorded
    BY DEF FillSave, LearnsRecorded
  <1>6. QED
    BY <1>3, <1>4, <1>5 DEF Shape

\* The shape of CronSync.
LEMMA CronSyncShape ==
  ASSUME TypeInv, NEW t \in Syncers, CronSync(t)
  PROVE  Shape(t)
  <1>1. PICK q \in TaskRecord : q = task[t]
    BY Parts, SyncerIsTask DEF TasksOK
  <1>2. task \in [Tasks -> TaskRecord] /\ t \in Tasks
    BY Parts, SyncerIsTask DEF TasksOK
  <1>3. PICK z \in SyncRecord : z = sync[t]
    BY Parts DEF SyncTypeOK
  <1>4. sync \in [Syncers -> SyncRecord]
    BY Parts DEF SyncTypeOK
  <1>5. Moves(t)
    BY <1>1, <1>2 DEF CronSync, Moves, At, Goto, Resting, TaskRecord, ReadOpen
  <1>6. WritesStatus(t) /\ WritesRows(t) /\ opened' = opened
    BY <1>1, <1>2 DEF CronSync, WritesStatus, WritesRows, At, venueVars, dbVars, ReadOpen
  <1>7. LearnsRecorded
    BY <1>3, <1>4 DEF CronSync, LearnsRecorded, SyncRecord, ReadOpen, NoSync, OpenPositions, Recorded
  <1>8. QED
    BY <1>5, <1>6, <1>7 DEF Shape

\* The shape of ManualSync.
LEMMA ManualSyncShape ==
  ASSUME TypeInv, NEW t \in Syncers, ManualSync(t)
  PROVE  Shape(t)
  <1>1. PICK q \in TaskRecord : q = task[t]
    BY Parts, SyncerIsTask DEF TasksOK
  <1>2. task \in [Tasks -> TaskRecord] /\ t \in Tasks
    BY Parts, SyncerIsTask DEF TasksOK
  <1>3. PICK z \in SyncRecord : z = sync[t]
    BY Parts DEF SyncTypeOK
  <1>4. sync \in [Syncers -> SyncRecord]
    BY Parts DEF SyncTypeOK
  <1>5. Moves(t)
    BY <1>1, <1>2 DEF ManualSync, Moves, At, Goto, Resting, TaskRecord, ReadOpen
  <1>6. WritesStatus(t) /\ WritesRows(t) /\ opened' = opened
    BY <1>1, <1>2 DEF ManualSync, WritesStatus, WritesRows, At, venueVars, dbVars, ReadOpen
  <1>7. LearnsRecorded
    BY <1>3, <1>4 DEF ManualSync, LearnsRecorded, SyncRecord, ReadOpen, NoSync, OpenPositions, Recorded
  <1>8. QED
    BY <1>5, <1>6, <1>7 DEF Shape

\* The shape of SyncBook.
LEMMA SyncBookShape ==
  ASSUME TypeInv, NEW t \in Syncers, SyncBook(t)
  PROVE  Shape(t)
  <1>1. PICK q \in TaskRecord : q = task[t]
    BY Parts, SyncerIsTask DEF TasksOK
  <1>2. task \in [Tasks -> TaskRecord] /\ t \in Tasks
    BY Parts, SyncerIsTask DEF TasksOK
  <1>3. PICK z \in SyncRecord : z = sync[t]
    BY Parts DEF SyncTypeOK
  <1>4. sync \in [Syncers -> SyncRecord]
    BY Parts DEF SyncTypeOK
  <1>5. Moves(t)
    BY <1>1, <1>2 DEF SyncBook, Moves, At, Goto, Resting, TaskRecord
  <1>6. WritesStatus(t) /\ WritesRows(t) /\ opened' = opened
    BY <1>1, <1>2 DEF SyncBook, WritesStatus, WritesRows, At, venueVars, dbVars
  <1>7. LearnsRecorded
    BY <1>3, <1>4 DEF SyncBook, LearnsRecorded, SyncRecord
  <1>8. QED
    BY <1>5, <1>6, <1>7 DEF Shape

\* The shape of SyncContracts.
LEMMA SyncContractsShape ==
  ASSUME TypeInv, NEW t \in Syncers, SyncContracts(t)
  PROVE  Shape(t)
  <1>1. PICK q \in TaskRecord : q = task[t]
    BY Parts, SyncerIsTask DEF TasksOK
  <1>2. task \in [Tasks -> TaskRecord] /\ t \in Tasks
    BY Parts, SyncerIsTask DEF TasksOK
  <1>3. PICK z \in SyncRecord : z = sync[t]
    BY Parts DEF SyncTypeOK
  <1>4. sync \in [Syncers -> SyncRecord]
    BY Parts DEF SyncTypeOK
  <1>5. Moves(t)
    BY <1>1, <1>2 DEF SyncContracts, Moves, At, Goto, Resting, TaskRecord
  <1>6. WritesStatus(t) /\ WritesRows(t) /\ opened' = opened
    BY <1>1, <1>2 DEF SyncContracts, WritesStatus, WritesRows, At, venueVars, dbVars
  <1>7. LearnsRecorded
    <2>1. \/ \E x : sync' = [sync EXCEPT ![t].posOk = TRUE, ![t].excess = x]
          \/ sync' = [sync EXCEPT ![t].posOk = FALSE]
      BY DEF SyncContracts
    <2>2. sync'[t].snap = z.snap /\ sync'[t].todo = z.todo
      BY <1>3, <1>4, <2>1 DEF SyncRecord
    <2>3. \A u \in Syncers \ {t} : sync'[u] = sync[u]
      BY <1>4, <2>1
    <2>4. QED
      BY <1>3, <2>2, <2>3 DEF LearnsRecorded
  <1>8. QED
    BY <1>5, <1>6, <1>7 DEF Shape

\* Of the snapshots, Decided keeps the first or none.
LEMMA DecidedKeeps ==
  ASSUME NEW locals
  PROVE  Decided(locals).snap \subseteq locals.snap /\ Decided(locals).todo = {}
  BY DEF Decided, NoSync

\* The shape of SyncAbsorb.
LEMMA SyncAbsorbShape ==
  ASSUME TypeInv, NEW t \in Syncers, NEW p \in Positions, SyncAbsorb(t, p)
  PROVE  Shape(t)
  <1>1. PICK q \in TaskRecord : q = task[t]
    BY Parts, SyncerIsTask DEF TasksOK
  <1>2. task \in [Tasks -> TaskRecord] /\ t \in Tasks
    BY Parts, SyncerIsTask DEF TasksOK
  <1>3. PICK z \in SyncRecord : z = sync[t]
    BY Parts DEF SyncTypeOK
  <1>4. sync \in [Syncers -> SyncRecord]
    BY Parts DEF SyncTypeOK
  <1>5. Moves(t)
    BY <1>1, <1>2 DEF SyncAbsorb, Moves, At, Goto, Resting, TaskRecord
  <1>6. WritesStatus(t) /\ WritesRows(t) /\ opened' = opened
    BY <1>1, <1>2 DEF SyncAbsorb, WritesStatus, WritesRows, At, venueVars, dbVars
  <1>7. LearnsRecorded
    <2>1. PICK w : /\ sync' = [sync EXCEPT ![t] = w]
                   /\ w.snap \subseteq z.snap /\ w.todo \subseteq z.todo
      <3> DEFINE rest == [z EXCEPT !.gone = @ \ {p}]
                 Then(locals) ==
                   IF locals.gone = {} THEN Decided(locals) ELSE locals
                 fill(r) == [rest EXCEPT
                               !.excess = rest.excess - 1,
                               !.plan = Append(rest.plan, [pos |-> p, row |-> r])]
      <3>1. \/ sync' = [sync EXCEPT ![t] = Then(rest)]
            \/ \E r : sync' = [sync EXCEPT ![t] = Then(fill(r))]
        BY <1>3 DEF SyncAbsorb
      <3>2. rest.snap = z.snap /\ rest.todo = z.todo
        BY DEF SyncRecord
      <3>3. \A r : fill(r).snap = z.snap /\ fill(r).todo = z.todo
        BY DEF SyncRecord
      <3> HIDE DEF rest, fill
      <3>4. QED
        BY <3>1, <3>2, <3>3, DecidedKeeps
    <2>2. QED
      BY <1>3, <1>4, <2>1 DEF LearnsRecorded
  <1>8. QED
    BY <1>5, <1>6, <1>7 DEF Shape

\* The shape of SyncClassify.
LEMMA SyncClassifyShape ==
  ASSUME TypeInv, NEW t \in Syncers, NEW p \in Positions, SyncClassify(t, p)
  PROVE  Shape(t)
  <1>1. PICK q \in TaskRecord : q = task[t]
    BY Parts, SyncerIsTask DEF TasksOK
  <1>2. task \in [Tasks -> TaskRecord] /\ t \in Tasks
    BY Parts, SyncerIsTask DEF TasksOK
  <1>3. PICK z \in SyncRecord : z = sync[t]
    BY Parts DEF SyncTypeOK
  <1>4. sync \in [Syncers -> SyncRecord]
    BY Parts DEF SyncTypeOK
  <1>5. Moves(t)
    BY <1>1, <1>2 DEF SyncClassify, Moves, At, Goto, Resting, TaskRecord, Idle, AfterClassify
  <1>6. WritesStatus(t) /\ WritesRows(t) /\ opened' = opened
    BY <1>1, <1>2 DEF SyncClassify, WritesStatus, WritesRows, At, venueVars, dbVars
  <1>7. LearnsRecorded
    BY <1>3, <1>4 DEF SyncClassify, LearnsRecorded, SyncRecord, Decided, NoSync, Classify
  <1>8. QED
    BY <1>5, <1>6, <1>7 DEF Shape

\* The shape of SyncApplied.
LEMMA SyncAppliedShape ==
  ASSUME TypeInv, NEW t \in Syncers, SyncApplied(t)
  PROVE  Shape(t)
  <1>1. PICK q \in TaskRecord : q = task[t]
    BY Parts, SyncerIsTask DEF TasksOK
  <1>2. task \in [Tasks -> TaskRecord] /\ t \in Tasks
    BY Parts, SyncerIsTask DEF TasksOK
  <1>3. PICK z \in SyncRecord : z = sync[t]
    BY Parts DEF SyncTypeOK
  <1>4. sync \in [Syncers -> SyncRecord]
    BY Parts DEF SyncTypeOK
  <1>5. Moves(t)
    BY <1>1, <1>2 DEF SyncApplied, Moves, At, Goto, Resting, TaskRecord, LeaveStrategy, NextStrategy, Idle
  <1>6. WritesStatus(t) /\ WritesRows(t) /\ opened' = opened
    BY <1>1, <1>2 DEF SyncApplied, WritesStatus, WritesRows, At, venueVars, dbVars
  <1>7. LearnsRecorded
    BY <1>3, <1>4 DEF SyncApplied, LearnsRecorded, SyncRecord, LeaveStrategy, NextStrategy, NoSync, OrphanPositions, Recorded, Closed
  <1>8. QED
    BY <1>5, <1>6, <1>7 DEF Shape

\* The shape of SyncApply.
LEMMA SyncApplyShape ==
  ASSUME TypeInv, NEW t \in Syncers, SyncApply(t)
  PROVE  Shape(t)
  <1>1. PICK q \in TaskRecord : q = task[t]
    BY Parts, SyncerIsTask DEF TasksOK
  <1>2. task \in [Tasks -> TaskRecord] /\ t \in Tasks
    BY Parts, SyncerIsTask DEF TasksOK
  <1>3. PICK z \in SyncRecord : z = sync[t]
    BY Parts DEF SyncTypeOK
  <1>4. sync \in [Syncers -> SyncRecord]
    BY Parts DEF SyncTypeOK
  <1>5. Moves(t)
    <2>1. z.plan \in Seq(Fill) /\ z.plan # <<>>
      BY <1>3 DEF SyncApply, SyncRecord
    <2>2. PICK f \in Fill : f = Head(z.plan)
      BY <2>1, HeadTailProperties
    <2>3. /\ f.pos \in Positions /\ f.row \in Orders
          /\ f.row.pos = f.pos
      BY DEF Fill
    <2>4. CASE task' = task
      BY <2>4 DEF SyncApply, At, Moves, Resting
    <2>5. CASE /\ status[f.pos] = "OPEN"
               /\ task' = [task EXCEPT ![t].pc = "fill.row", ![t].pos = f.pos,
                                       ![t].cur = f.row]
      <3>1. /\ task'[t].pc = "fill.row" /\ task'[t].pos = f.pos
            /\ task'[t].cur = f.row
        BY <1>1, <1>2, <2>5 DEF TaskRecord
      <3>2. \A u \in Tasks \ {t} : task'[u] = task[u]
        BY <1>2, <2>5
      <3>3. QED
        BY <2>3, <2>5, <3>1, <3>2 DEF Moves, Recorded
    <2>6. QED
      BY <1>3, <2>2, <2>4, <2>5 DEF SyncApply
  <1>6. WritesStatus(t) /\ WritesRows(t) /\ opened' = opened
    BY <1>1, <1>2 DEF SyncApply, WritesStatus, WritesRows, At, venueVars, dbVars
  <1>7. LearnsRecorded
    BY <1>3, <1>4 DEF SyncApply, LearnsRecorded, SyncRecord
  <1>8. QED
    BY <1>5, <1>6, <1>7 DEF Shape

\* The shape of SyncOrphansDone.
LEMMA SyncOrphansDoneShape ==
  ASSUME TypeInv, NEW t \in Syncers, SyncOrphansDone(t)
  PROVE  Shape(t)
  <1>1. PICK q \in TaskRecord : q = task[t]
    BY Parts, SyncerIsTask DEF TasksOK
  <1>2. task \in [Tasks -> TaskRecord] /\ t \in Tasks
    BY Parts, SyncerIsTask DEF TasksOK
  <1>3. PICK z \in SyncRecord : z = sync[t]
    BY Parts DEF SyncTypeOK
  <1>4. sync \in [Syncers -> SyncRecord]
    BY Parts DEF SyncTypeOK
  <1>5. Moves(t)
    BY <1>1, <1>2 DEF SyncOrphansDone, Moves, At, Goto, Resting, TaskRecord, Finish, Idle
  <1>6. WritesStatus(t) /\ WritesRows(t) /\ opened' = opened
    BY <1>1, <1>2 DEF SyncOrphansDone, WritesStatus, WritesRows, At, venueVars, dbVars
  <1>7. LearnsRecorded
    BY <1>3, <1>4 DEF SyncOrphansDone, LearnsRecorded, SyncRecord, NoSync
  <1>8. QED
    BY <1>5, <1>6, <1>7 DEF Shape

\* The shape of SyncOrphan.
LEMMA SyncOrphanShape ==
  ASSUME TypeInv, WorkIsRecorded, NEW t \in Syncers, NEW p \in Positions,
         SyncOrphan(t, p)
  PROVE  Shape(t)
  <1>1. PICK q \in TaskRecord : q = task[t]
    BY Parts, SyncerIsTask DEF TasksOK
  <1>2. task \in [Tasks -> TaskRecord] /\ t \in Tasks
    BY Parts, SyncerIsTask DEF TasksOK
  <1>3. PICK z \in SyncRecord : z = sync[t]
    BY Parts DEF SyncTypeOK
  <1>4. sync \in [Syncers -> SyncRecord]
    BY Parts DEF SyncTypeOK
  <1>5. Recorded(p)
    BY DEF SyncOrphan, WorkIsRecorded
  <1>6. Moves(t)
    BY <1>1, <1>2, <1>5 DEF SyncOrphan, Moves, At, Resting, TaskRecord
  <1>7. WritesStatus(t) /\ WritesRows(t) /\ opened' = opened
    BY <1>1, <1>2 DEF SyncOrphan, WritesStatus, WritesRows, At, venueVars, dbVars
  <1>8. LearnsRecorded
    BY <1>3, <1>4 DEF SyncOrphan, LearnsRecorded, SyncRecord
  <1>9. QED
    BY <1>6, <1>7, <1>8 DEF Shape

----------------------------------------------------------------------------
(* A step of this shape preserves the invariant                             *)

\* A position once recorded stays recorded, and a closed one closed.
LEMMA ShapeStatus ==
  ASSUME TypeInv, RecordInv, NEW t \in Tasks, Shape(t), NEW p \in Positions
  PROVE  /\ Recorded(p) => Recorded(p)'
         /\ status[p] \in Closed => status'[p] \in Closed
  <1>1. status \in [Positions -> PosStatus]
    BY Parts DEF DbTypeOK
  <1>2. At(t, "open.save") => status[task[t].pos] = "NONE"
    BY DEF RecordInv, OpeningIsFresh, Recorded
  <1>3. QED
    BY <1>1, <1>2 DEF Shape, WritesStatus, Recorded, Closed

\* A step of one of these shapes keeps the invariant.
LEMMA ShapeRecordInv ==
  ASSUME TypeInv, RecordInv, NEW t \in Tasks, Shape(t), TypeInv'
  PROVE  RecordInv'
  <1>1. \A p \in Positions : Recorded(p) => Recorded(p)'
    BY ShapeStatus
  <1>2. Moves(t) /\ WritesStatus(t) /\ WritesRows(t) /\ LearnsRecorded
        /\ opened' = opened
    BY DEF Shape
  <1>3. \A u \in Tasks \ {t} : task'[u] = task[u]
    BY <1>2 DEF Moves
  <1>4. task'[t].pc # "open.save"
    BY <1>2 DEF Moves, Resting
  <1>5. OpeningIsFresh'
    <2>1. ASSUME NEW u \in Tasks, At(u, "open.save")'
          PROVE  /\ u # t /\ At(u, "open.save") /\ task'[u] = task[u]
                 /\ task[u].pos \in opened /\ status'[task[u].pos] = "NONE"
      <3>1. u # t /\ At(u, "open.save") /\ task'[u] = task[u]
        BY <1>3, <1>4, <2>1 DEF At
      <3>2. task[u].pos \in opened /\ status[task[u].pos] = "NONE"
        BY <3>1 DEF RecordInv, OpeningIsFresh, Recorded
      <3>3. At(t, "open.save") => task[t].pos # task[u].pos
        BY <3>1 DEF RecordInv, OpeningIsFresh
      <3>4. Working0(t) => task[t].pos # task[u].pos
        BY <3>2 DEF RecordInv, WorkIsRecorded, Recorded
      <3>5. task[u].pos \in Positions
        BY <3>1, Parts DEF TasksOK, Working, At, Resting
      <3>6. status'[task[u].pos] = status[task[u].pos]
        BY <1>2, <3>3, <3>4, <3>5, Parts DEF WritesStatus, DbTypeOK
      <3>7. QED
        BY <3>1, <3>2, <3>6
    <2>2. ASSUME NEW p \in Positions \ opened
          PROVE  status'[p] = "NONE"
      <3>1. status[p] = "NONE"
        BY DEF RecordInv, OpeningIsFresh, Recorded
      <3>2. At(t, "open.save") => task[t].pos # p
        BY DEF RecordInv, OpeningIsFresh
      <3>3. Working0(t) => task[t].pos # p
        BY <3>1 DEF RecordInv, WorkIsRecorded, Recorded
      <3>4. QED
        BY <1>2, <3>1, <3>2, <3>3, Parts DEF WritesStatus, DbTypeOK
    <2>3. QED
      BY <1>2, <2>1, <2>2 DEF RecordInv, OpeningIsFresh, Recorded
  <1>6. WorkIsRecorded'
    <2>1. ASSUME NEW u \in Tasks, Working0(u)'
          PROVE  Recorded(task[u].pos)'
      <3>1. CASE u # t
        BY <1>1, <1>3, <2>1, <3>1, Parts
        DEF RecordInv, WorkIsRecorded, Working0, TasksOK, Working
      <3>2. CASE u = t /\ task[t].pc \notin Resting /\ task'[t].pos = task[t].pos
        <4>1. task[t].pos \in Positions
          BY <3>2, Parts DEF TasksOK, Working
        <4>2. CASE Working0(t)
          BY <1>1, <3>2, <4>1, <4>2 DEF RecordInv, WorkIsRecorded, Recorded
        <4>3. CASE At(t, "open.save")
          <5>1. status' = [status EXCEPT ![task[t].pos] = "OPEN"]
            BY <1>2, <2>1, <3>2, <4>3
            DEF WritesStatus, Working0, At, Resting
          <5>2. QED
            BY <3>2, <4>1, <5>1, Parts DEF Recorded, DbTypeOK
        <4>4. QED
          BY <3>2, <4>2, <4>3 DEF Working0, At
      <3>3. CASE u = t /\ task'[t].pos \in Positions /\ Recorded(task'[t].pos)
        BY <1>1, <3>3 DEF Recorded
      <3>4. QED
        BY <1>2, <2>1, <3>1, <3>2, <3>3 DEF Moves, Working0
    <2>2. ASSUME NEW u \in Syncers, NEW p \in sync'[u].snap \cup sync'[u].todo
          PROVE  Recorded(p)'
      <3>1. p \in sync[u].snap \cup sync[u].todo \/ Recorded(p)
        BY <1>2 DEF LearnsRecorded
      <3>2. p \in Positions
        BY Parts DEF TypeInv, TypeOK, SyncTypeOK, SyncRecord
      <3>3. QED
        BY <1>1, <3>1, <3>2 DEF RecordInv, WorkIsRecorded
    <2>3. QED
      BY <2>1, <2>2 DEF WorkIsRecorded
  <1>7. FillsOwnRow'
    BY <1>2, <1>3 DEF RecordInv, FillsOwnRow, Moves, At, Resting
  <1>8. FilledIsSettled'
    <2>1. SUFFICES ASSUME NEW o \in Orders, row'[o] = "FILLED"
                   PROVE  \/ status'[o.pos] \in Closed
                          \/ \E u \in Syncers : At(u, "fill.save")'
                                                /\ task'[u].cur = o
      BY DEF FilledIsSettled
    <2>2. o.pos \in Positions
      BY DEF Orders
    <2>3. CASE task'[t].pc = "fill.save" /\ task'[t].cur = o
      BY <1>7, <2>3 DEF FillsOwnRow, At
    <2>4. CASE row[o] = "FILLED" /\ status[o.pos] \in Closed
      BY <2>2, <2>4, ShapeStatus
    <2>5. ASSUME NEW u \in Syncers, At(u, "fill.save"), task[u].cur = o
          PROVE  \/ status'[o.pos] \in Closed
                 \/ At(u, "fill.save")' /\ task'[u].cur = o
      <3>1. CASE u # t
        BY <1>3, <2>5, <3>1, SyncerIsTask DEF At
      <3>2. CASE u = t
        <4>1. task[t].pos = o.pos
          BY <2>5, <3>2 DEF RecordInv, FillsOwnRow, At
        <4>2. PICK s \in Closed :
                 status' = [status EXCEPT ![task[t].pos] = s]
          BY <1>2, <2>5, <3>2 DEF WritesStatus, At
        <4>3. QED
          BY <2>2, <4>1, <4>2, Parts DEF DbTypeOK
      <3>3. QED
        BY <3>1, <3>2
    <2>6. QED
      BY <1>2, <2>1, <2>3, <2>4, <2>5
      DEF WritesRows, RecordInv, FilledIsSettled
  <1>9. QED
    BY <1>5, <1>6, <1>7, <1>8 DEF RecordInv

----------------------------------------------------------------------------
(* The other steps                                                          *)

\* Every step has one of the shapes.
LEMMA StepShape ==
  ASSUME TypeInv, RecordInv, NEW t \in Tasks, Step(t)
  PROVE  Shape(t)
  <1>1. CASE OrderStep(t) /\ UNCHANGED sync
    <2>1. CASE PlaceTp(t) \/ PlaceSl(t)
      BY <1>1, <2>1, PlaceAtShape DEF PlaceTp, PlaceSl, Types
    <2>2. QED
      BY <1>1, <2>1, OpenSaveShape, OpenUntrackedShape, PlaceTickerShape,
         PlaceRowShape, PlaceDoneShape, CloseReadShape, CloseMarketShape,
         CloseFlatShape, CloseSaveShape, CancelReadShape, CancelBookShape,
         CancelNextShape, CancelMarkShape
      DEF OrderStep
  <1>2. CASE t \in Syncers /\ SyncStep(t)
    BY <1>2, SyncBookShape, SyncContractsShape, SyncApplyShape,
       SyncAppliedShape, FillRowShape, FillSaveShape, SyncOrphansDoneShape,
       SyncClassifyShape, SyncAbsorbShape, SyncOrphanShape
    DEF SyncStep, RecordInv
  <1>3. QED
    BY <1>1, <1>2 DEF Step

\* The opening order executes for a position nobody has recorded or is opening.
LEMMA OpenMarketRecordInv ==
  ASSUME TypeInv, RecordInv, NEW t \in Tasks, NEW p \in Positions,
         OpenMarket(t, p), UNCHANGED sync
  PROVE  RecordInv'
  <1>1. PICK q \in TaskRecord : q = task[t]
    BY Parts DEF TasksOK
  <1>2. task'[t].pc = "open.save" /\ task'[t].pos = p
    BY <1>1, Parts DEF OpenMarket, TasksOK, TaskRecord
  <1>3. \A u \in Tasks \ {t} : task'[u] = task[u]
    BY Parts DEF OpenMarket, TasksOK
  <1>4. /\ status' = status /\ row' = row /\ sync' = sync
        /\ opened' = opened \cup {p} /\ p \notin opened /\ At(t, "idle")
    BY DEF OpenMarket, ExecuteOpen, dbVars
  <1>5. ~Recorded(p)
    BY <1>4 DEF RecordInv, OpeningIsFresh
  <1>6. OpeningIsFresh'
    BY <1>2, <1>3, <1>4, <1>5 DEF RecordInv, OpeningIsFresh, At, Recorded
  <1>7. WorkIsRecorded'
    BY <1>2, <1>3, <1>4 DEF RecordInv, WorkIsRecorded, Working0, Recorded
  <1>8. FillsOwnRow'
    BY <1>2, <1>3 DEF RecordInv, FillsOwnRow
  <1>9. FilledIsSettled'
    BY <1>3, <1>4, SyncerIsTask DEF RecordInv, FilledIsSettled, At
  <1>10. QED
    BY <1>6, <1>7, <1>8, <1>9 DEF RecordInv

\* Steps that leave the tasks and the database alone.
LEMMA QuietRecordInv ==
  ASSUME RecordInv, UNCHANGED <<task, status, row, sync, opened>>
  PROVE  RecordInv'
  BY DEF RecordInv, OpeningIsFresh, WorkIsRecorded, FillsOwnRow,
     FilledIsSettled, At, Working0, Recorded

\* No row is recorded for what was never opened.
LEMMA InitRecordInv == Init => RecordInv
  <1> SUFFICES ASSUME Init PROVE RecordInv
    OBVIOUS
  <1>1. \A t \in Tasks : task[t].pc = "idle"
    BY IdleType DEF Init, OrderInit
  <1>2. \A p \in Positions \ opened : ~Recorded(p)
    BY DEF Init, OrderInit, Recorded
  <1>3. \A t \in Syncers : sync[t].snap = {} /\ sync[t].todo = {}
    BY DEF Init, SyncInit, NoSync
  <1>4. \A o \in Orders : row[o] # "FILLED"
    BY DEF Init, OrderInit
  <1>5. QED
    BY <1>1, <1>2, <1>3, <1>4
    DEF RecordInv, OpeningIsFresh, WorkIsRecorded, FillsOwnRow,
        FilledIsSettled, At, Working0, Resting

\* Whatever happens, the invariant is kept and no closed status is undone.
LEMMA NextRecordInv ==
  ASSUME TypeInv, RecordInv, [Next]_vars
  PROVE  /\ RecordInv'
         /\ \A p \in Positions : status[p] \in Closed => status'[p] \in Closed
  <1>1. TypeInv'
    BY NextType
  <1>2. ASSUME NEW t \in Tasks, Shape(t)
        PROVE  /\ RecordInv'
               /\ \A p \in Positions :
                     status[p] \in Closed => status'[p] \in Closed
    BY <1>1, <1>2, ShapeRecordInv, ShapeStatus
  <1>3. CASE OrderStart /\ UNCHANGED sync
    <2>1. ASSUME NEW t \in Tasks, NEW p \in Positions, OpenMarket(t, p)
          PROVE  RecordInv' /\ status' = status
      BY <1>3, <2>1, OpenMarketRecordInv DEF OpenMarket, dbVars
    <2>2. QED
      BY <1>2, <1>3, <2>1, ReplenishShape, CloseRequestShape DEF OrderStart
  <1>4. ASSUME NEW t \in Syncers, CronSync(t) \/ ManualSync(t)
        PROVE  Shape(t)
    BY <1>4, CronSyncShape, ManualSyncShape
  <1>5. ASSUME NEW t \in Tasks, Step(t)
        PROVE  Shape(t)
    BY <1>5, StepShape
  <1>6. ASSUME NEW o \in Orders, ExchangeTrigger(o), UNCHANGED sync
        PROVE  RecordInv' /\ status' = status
    BY <1>6, QuietRecordInv DEF ExchangeTrigger, Trigger, dbVars
  <1>7. CASE Rest \/ UNCHANGED vars
    BY <1>7, QuietRecordInv DEF Rest, vars, orderVars, dbVars, venueVars
  <1>8. QED
    BY <1>2, <1>3, <1>4, <1>5, <1>6, <1>7, SyncerIsTask DEF Next

\* The invariant of the records holds in every state.
LEMMA RecordInvariant == Spec => [](TypeInv /\ RecordInv)
  <1>1. Init => TypeInv /\ RecordInv
    BY InitType, InitRecordInv
  <1>2. TypeInv /\ RecordInv /\ [Next]_vars => (TypeInv /\ RecordInv)'
    BY NextType, NextRecordInv
  <1>3. QED
    BY <1>1, <1>2, PTL DEF Spec

\* A row is FILLED only when its position is closed, or inside the call that is
\* about to close it; for any number of rounds, requests and failures.
THEOREM FilledRowsAreSettled == Spec => []FilledIsSettled
  BY RecordInvariant, PTL DEF RecordInv

\* Although nobody rechecks the status before writing it, no interleaving of
\* opening, closing, replenishing and reconciling reopens a closed position.
THEOREM ClosedStaysClosed == Spec => ClosedIsFinal
  <1>1. TypeInv /\ RecordInv /\ [Next]_vars
          => [\A p \in Positions :
                 status[p] \in Closed => status'[p] \in Closed]_vars
    BY NextRecordInv
  <1>2. QED
    BY <1>1, RecordInvariant, PTL DEF Spec, ClosedIsFinal

============================================================================
