---------------------------- MODULE TpslMonitor ----------------------------
(***************************************************************************)
(* TpslMonitorService (tpsl-monitor.service.ts): reconciling the database  *)
(* with the exchange.  A round reads the OPEN positions and their PENDING  *)
(* rows, then the open orders, then the merged contracts, decides from     *)
(* these three snapshots which conditionals filled, and applies the fills  *)
(* one by one through OrderService.                                        *)
(*                                                                         *)
(* A Syncer is one round in flight.  Members of CronSyncers are fired by   *)
(* the ten-second cron behind the syncRunning flag and go through all      *)
(* strategies; the others are manual requests for one strategy, which take *)
(* no flag and afterwards cancel what non-OPEN positions left behind.      *)
(***************************************************************************)
EXTENDS OrderService, Sequences

CONSTANTS
    Strategies,   \* strategies trading this leg of this account
    StrategyOf,   \* the strategy of each position
    CronSyncers   \* the rounds of the cron job

ASSUME StrategyAssumption == StrategyOf \in [Positions -> Strategies]
ASSUME CronAssumption == CronSyncers \subseteq Syncers

VARIABLE sync   \* the locals of each reconciliation round

vars == <<orderVars, sync>>

\* A planned fill: this row's order filled, so its position is closed.
Fill == {f \in [pos : Positions, row : Orders] : f.row.pos = f.pos}

SyncRecord ==
    [snap   : SUBSET Positions,   \* positions that were OPEN
     rows   : SUBSET Orders,      \* their rows that were PENDING
     ids    : [Orders -> Orders], \* the exchangeOrderIds of these rows
     left   : SUBSET Strategies,  \* strategies still to reconcile
     strat  : Strategies \cup {"none"},
     todo   : SUBSET Positions,   \* positions to classify, or with orphan rows
     gone   : SUBSET Positions,   \* both TP and SL gone
     excess : Int,                \* database quantity minus contracts
     posOk  : BOOLEAN,            \* the contracts could be fetched
     plan   : Seq(Fill)]

NoSync == [snap |-> {}, rows |-> {}, ids |-> [o \in Orders |-> o], left |-> {}, strat |-> "none", 
           todo |-> {}, gone |-> {}, excess |-> 0, posOk |-> FALSE, plan |-> <<>>]

SyncTypeOK == sync \in [Syncers -> SyncRecord]

SyncInit == sync = [t \in Syncers |-> NoSync]

Group(t) == {p \in sync[t].snap : StrategyOf[p] = sync[t].strat}

OpenPositions(strategies) ==
    {p \in Positions : status[p] = "OPEN" /\ StrategyOf[p] \in strategies}

\* Leave a strategy: go on with the next, or end.  A manual round, which has
\* only one, still looks for orphan rows.
NextStrategy(t) ==
    IF sync[t].left # {} THEN "sync.book"
    ELSE IF t \in CronSyncers THEN "idle" ELSE "sync.orphans"

OrphanPositions(s) ==
    {p \in Positions : /\ StrategyOf[p] = s
                       /\ status[p] \in Closed
                       /\ PendingRows(p) # {}}

LeaveStrategy(t) ==
    LET pc == NextStrategy(t) IN
    /\ task' = [task EXCEPT ![t] = [Idle EXCEPT !.pc = pc]]
    /\ sync' = [sync EXCEPT ![t] =
         IF pc = "idle" THEN NoSync
         ELSE IF pc = "sync.orphans"
              THEN [NoSync EXCEPT !.todo = OrphanPositions(sync[t].strat)]
         ELSE [NoSync EXCEPT !.snap = sync[t].snap, !.rows = sync[t].rows,
                             !.ids = sync[t].ids, !.left = sync[t].left]]

----------------------------------------------------------------------------
\* A round starts: read the OPEN positions with their orders.
ReadOpen(t, ps, strategies) ==
    /\ At(t, "idle")
    /\ sync' = [sync EXCEPT ![t] =
         [NoSync EXCEPT !.snap = ps,
                        !.rows = UNION {PendingRows(p) : p \in ps},
                        !.ids = exId,
                        !.left = strategies]]
    /\ Goto(t, "sync.book")
    /\ UNCHANGED <<venueVars, dbVars>>

CronSync(t) ==
    /\ t \in CronSyncers
    /\ LET ps == OpenPositions(Strategies) IN
       ps # {} /\ ReadOpen(t, ps, {StrategyOf[p] : p \in ps})
    /\ UNCHANGED runs

ManualSync(t) ==
    /\ t \in Syncers \ CronSyncers /\ runs[t] < MaxRuns
    /\ \E s \in Strategies : ReadOpen(t, OpenPositions({s}), {s})
    /\ runs' = [runs EXCEPT ![t] = @ + 1]

\* Mutant: a failing fetchOpenOrders is read as an empty list.
SyncBook_FailureAsEmpty(t) ==
    /\ At(t, "sync.book")
    /\ \E s \in sync[t].left, book \in {LiveOrders, {}} :
       /\ sync' = [sync EXCEPT ![t].left = @ \ {s}, ![t].strat = s,
                     ![t].todo = {p \in sync[t].snap : StrategyOf[p] = s}]
       /\ task' = [task EXCEPT ![t].pc = "sync.contracts", ![t].book = book]
    /\ UNCHANGED <<venueVars, dbVars, runs>>

\* Fetch the open orders of the next strategy; a failure, or nothing open, skips
\* it.
SyncBook(t) ==
    /\ At(t, "sync.book")
    /\ \E s \in sync[t].left :
       LET here == [sync[t] EXCEPT !.left = @ \ {s}, !.strat = s,
                      !.todo = {p \in sync[t].snap : StrategyOf[p] = s}] IN
       /\ sync' = [sync EXCEPT ![t] = here]
       /\ \/ /\ here.todo # {}
             /\ task' = [task EXCEPT ![t].pc = "sync.contracts",
                                     ![t].book = LiveOrders, ![t].claimed = {}]
          \/ /\ "book" \in Faults \/ here.todo = {}
             /\ Goto(t, "sync.apply")
    /\ UNCHANGED <<venueVars, dbVars, runs>>

\* Mutant: the excess has the wrong sign.
SyncContracts_Reversed(t) ==
    /\ At(t, "sync.contracts")
    /\ sync' = [sync EXCEPT ![t].posOk = TRUE,
                  ![t].excess = contracts - Cardinality(Group(t))]
    /\ Goto(t, "sync.classify")
    /\ UNCHANGED <<venueVars, dbVars, runs>>

\* Fetch the merged contracts; the excess compares them with this strategy's
\* positions only.
SyncContracts(t) ==
    /\ At(t, "sync.contracts")
    /\ \/ sync' = [sync EXCEPT ![t].posOk = TRUE,
                     ![t].excess = Cardinality(Group(t)) - contracts]
       \/ "contracts" \in Faults /\ sync' = [sync EXCEPT ![t].posOk = FALSE]
    /\ Goto(t, "sync.classify")
    /\ UNCHANGED <<venueVars, dbVars, runs>>

\* The newest PENDING row of a type in the snapshot.
LatestPending(t, p, type) ==
    {r \in sync[t].rows :
       /\ r.pos = p /\ r.type = type
       /\ \A q \in sync[t].rows :
             q.pos = p /\ q.type = type => q.gen <= r.gen}

\* classifyAgainstOpenOrders, once each row has been matched: an order that is
\* not on the book counts as filled.
Classify(locals, p, tp, sl, tpEx, slEx) ==
    LET tpGone == tp # {} /\ tpEx = NoOrder
        slGone == sl # {} /\ slEx = NoOrder
        fill(r) == Append(locals.plan, [pos |-> p, row |-> r])
        rest == [locals EXCEPT !.todo = @ \ {p}]
    IN IF tpGone /\ slGone THEN [rest EXCEPT !.gone = @ \cup {p}]
       ELSE IF tpGone THEN [rest EXCEPT !.plan = fill(CHOOSE r \in tp : TRUE)]
       ELSE IF slGone THEN [rest EXCEPT !.plan = fill(CHOOSE r \in sl : TRUE)]
       ELSE rest

\* Candidates for the open order of a position's TP (or SL) row.
MatchOne(rows, ids, available) ==
    IF rows = {} THEN {NoOrder}
    ELSE UNION {Matches(r, ids[r], available) : r \in rows}

\* When every position is classified: both-gone positions are looked at only
\* if the contracts are known.
AfterClassify(locals) ==
    IF locals.todo # {} THEN "sync.classify"
    ELSE IF locals.gone # {} /\ locals.posOk THEN "sync.absorb"
    ELSE "sync.apply"

\* Once the fills are planned, what the round still needs: the plan, and the
\* first snapshot if there are strategies left.
Decided(locals) ==
    LET kept == IF locals.left = {} THEN NoSync ELSE locals
    IN [NoSync EXCEPT !.snap = kept.snap, !.rows = kept.rows, !.ids = kept.ids,
                      !.left = locals.left, !.strat = locals.strat,
                      !.plan = locals.plan]

\* Match the TP row of one position, then its SL row, against the book.
SyncClassify(t, p) ==
    /\ At(t, "sync.classify") /\ p \in sync[t].todo
    /\ LET tp == LatestPending(t, p, "TP")
           sl == LatestPending(t, p, "SL")
           open == task[t].book \ task[t].claimed
       IN \E tpEx \in MatchOne(tp, sync[t].ids, open) :
          \E slEx \in MatchOne(sl, sync[t].ids, open \ {tpEx}) :
          LET locals == Classify(sync[t], p, tp, sl, tpEx, slEx)
              pc == AfterClassify(locals)
              claimed == task[t].claimed \cup ({tpEx, slEx} \cap Orders)
          IN /\ sync' = [sync EXCEPT ![t] =
                  IF pc = "sync.apply" THEN Decided(locals) ELSE locals]
             /\ exId' = [o \in Orders |->
                           IF o \in tp /\ tpEx # NoOrder THEN tpEx
                           ELSE IF o \in sl /\ slEx # NoOrder THEN slEx
                           ELSE exId[o]]
             /\ task' = [task EXCEPT ![t] =
                  IF pc = "sync.classify"
                  THEN [task[t] EXCEPT !.claimed = claimed]
                  ELSE [Idle EXCEPT !.pc = pc]]
    /\ UNCHANGED <<venueVars, status, priced, entry, row, runs>>

\* Both sides gone: oldest first, while the excess covers the position.  The
\* trigger is the one nearer to the current price, so either may come out.
SyncAbsorb(t, p) ==
    /\ At(t, "sync.absorb")
    /\ p \in sync[t].gone /\ \A q \in sync[t].gone : p <= q
    /\ LET rest == [sync[t] EXCEPT !.gone = @ \ {p}]
           fill(r) == [rest EXCEPT
                         !.excess = rest.excess - 1,
                         !.plan = Append(rest.plan, [pos |-> p, row |-> r])]
           next(locals) == IF locals.gone = {} THEN Decided(locals) ELSE locals
       IN IF sync[t].excess >= 1
          THEN \E type \in Types : \E r \in LatestPending(t, p, type) :
                  sync' = [sync EXCEPT ![t] = next(fill(r))]
          ELSE sync' = [sync EXCEPT ![t] = next(rest)]
    /\ Goto(t, IF sync[t].gone = {p} THEN "sync.apply" ELSE "sync.absorb")
    /\ UNCHANGED <<venueVars, dbVars, runs>>

\* syncClosedByConditionalFill of the next planned fill: re-read the position
\* and skip it unless it is still OPEN.
SyncApply(t) ==
    /\ At(t, "sync.apply") /\ sync[t].plan # <<>>
    /\ LET f == Head(sync[t].plan) IN
       IF status[f.pos] = "OPEN"
       THEN task' = [task EXCEPT ![t].pc = "fill.row", ![t].pos = f.pos,
                                 ![t].cur = f.row]
       ELSE UNCHANGED task
    /\ sync' = [sync EXCEPT ![t].plan = Tail(@)]
    /\ UNCHANGED <<venueVars, dbVars, runs>>

SyncApplied(t) ==
    /\ At(t, "sync.apply") /\ sync[t].plan = <<>>
    /\ LeaveStrategy(t)
    /\ UNCHANGED <<venueVars, dbVars, runs>>

\* The filled row first, so that the cancel below does not touch it.
FillRow(t) ==
    /\ At(t, "fill.row")
    /\ row' = [row EXCEPT ![task[t].cur] = "FILLED"]
    /\ Goto(t, "fill.save")
    /\ UNCHANGED <<venueVars, status, priced, entry, exId, runs, sync>>

\* Mutant: the position is not closed.
FillSave_RowOnly(t) ==
    /\ At(t, "fill.save")
    /\ task' = [task EXCEPT ![t].pc = "cancel.read", ![t].after = "sync.apply",
                            ![t].cur = NoOrder]
    /\ UNCHANGED <<venueVars, dbVars, runs, sync>>

\* Mutant: the other side's conditional is not cancelled.
FillSave_NoCancel(t) ==
    /\ At(t, "fill.save")
    /\ status' = [status EXCEPT ![task[t].pos] = HitReason(task[t].cur.type)]
    /\ task' = [task EXCEPT ![t] = [Idle EXCEPT !.pc = "sync.apply"]]
    /\ UNCHANGED <<venueVars, priced, entry, row, exId, runs, sync>>

FillSave(t) ==
    /\ At(t, "fill.save")
    /\ status' = [status EXCEPT ![task[t].pos] = HitReason(task[t].cur.type)]
    /\ task' = [task EXCEPT ![t].pc = "cancel.read", ![t].after = "sync.apply",
                            ![t].cur = NoOrder]
    /\ UNCHANGED <<venueVars, priced, entry, row, exId, runs, sync>>

\* cancelOrphanPendingOrders of a manual round.
SyncOrphan(t, p) ==
    /\ At(t, "sync.orphans") /\ p \in sync[t].todo
    /\ task' = [task EXCEPT ![t].pc = "cancel.read", ![t].pos = p,
                            ![t].after = "sync.orphans"]
    /\ sync' = [sync EXCEPT ![t].todo = @ \ {p}]
    /\ UNCHANGED <<venueVars, dbVars, runs>>

SyncOrphansDone(t) ==
    /\ At(t, "sync.orphans") /\ sync[t].todo = {}
    /\ Finish(t)
    /\ sync' = [sync EXCEPT ![t] = NoSync]
    /\ UNCHANGED <<venueVars, dbVars, runs>>

SyncStep(t) ==
    \/ SyncBook(t) \/ SyncContracts(t) \/ SyncApply(t) \/ SyncApplied(t)
    \/ FillRow(t) \/ FillSave(t) \/ SyncOrphansDone(t)
    \/ \E p \in Positions :
          SyncClassify(t, p) \/ SyncAbsorb(t, p) \/ SyncOrphan(t, p)

============================================================================
