---------------------------- MODULE PositionService ----------------------------
(***************************************************************************)
(* The operations of PositionService on many positions at once: close all, *)
(* place the guards that are missing, and the reconciliation of a          *)
(* strategy's rows with what its account holds.  Each works on a list read *)
(* at its start, one position after the other, while the engine opens      *)
(* positions, guards trigger, the monitor records it and other requests    *)
(* run.  OrderService has closePosition and replenishTpSl in full; here    *)
(* each is the few steps the batches can be interrupted at.                *)
(***************************************************************************)
EXTENDS Integers, FiniteSets

CONSTANTS
    Positions, Strategies, Sides,
    StrategyOf, SideOf,  \* of a position; all are of one account and quantity 1
    Existing,            \* positions that are OPEN, with both guards, at first
    All,                 \* a batch without a strategyId
    Scopes,              \* bound: the batches that are asked for
    Closers, Repairers, Auditors  \* the requests for each operation

VARIABLES
    row,      \* Position.status: "none" before the row is created
    opening,  \* positions with a market order and no row yet
    pool,     \* side -> contracts the account holds
    tp, sl,   \* positions with a PENDING row of either kind
    placing,  \* positions whose first guards are still to be placed
    req,
    watch,    \* history: sides that did not agree while a reconciliation read
    shaken    \* history: positions that lost a guard since they had both

positionVars == <<row, opening, pool, tp, sl, placing, req, watch, shaken>>

Requests == Closers \cup Repairers \cup Auditors
IdleRequest == [at |-> "idle"]
Rest == [scope : Scopes, open : SUBSET Positions,
         left : SUBSET Positions, failed : SUBSET Positions]

RequestStates ==
    {IdleRequest}
        \cup [at : {"closing", "closed", "repairing", "repaired"}, rest : Rest]
        \cup [at : {"close", "save", "cancel", "tp", "sl", "mend"}, rest : Rest, p : Positions]
        \cup [at : {"compare"}, strategy : Strategies, rows : [Sides -> Nat],
              verdict : [Sides -> {"", "MATCHED", "DB_HEAVY", "EXCHANGE_HEAVY"}]]

PositionTypeOK ==
    /\ row \in [Positions -> {"none", "OPEN", "CLOSED"}]
    /\ opening \subseteq Positions /\ placing \subseteq Positions
    /\ pool \in [Sides -> 0..Cardinality(Positions)]
    /\ tp \subseteq Positions /\ sl \subseteq Positions
    /\ req \in [Requests -> RequestStates]
    /\ watch \in [Requests -> SUBSET Sides]
    /\ shaken \subseteq Positions

PositionInit ==
    /\ row = [p \in Positions |-> IF p \in Existing THEN "OPEN" ELSE "none"]
    /\ opening = {} /\ placing = {} /\ shaken = {}
    /\ pool = [s \in Sides |-> Cardinality({p \in Existing : SideOf[p] = s})]
    /\ tp = Existing /\ sl = Existing
    /\ req = [r \in Requests |-> IdleRequest]
    /\ watch = [r \in Requests |-> {}]

OpenRows(scope) ==
    {p \in Positions : row[p] = "OPEN" /\ scope \in {StrategyOf[p], All}}
OnSide(side) == {p \in Positions : SideOf[p] = side}

Take(p) == pool' = [pool EXCEPT ![SideOf[p]] = IF @ = 0 THEN 0 ELSE @ - 1]
Goto(r, state) == req' = [req EXCEPT ![r] = state]
Guarded == tp \cap sl

----------------------------------------------------------------------------
(* The engine, the exchange and the monitor.                               *)

OpenMarket(p) ==
    /\ row[p] = "none" /\ p \notin opening
    /\ opening' = opening \cup {p}
    /\ pool' = [pool EXCEPT ![SideOf[p]] = @ + 1]
    /\ UNCHANGED <<row, tp, sl, placing, req, shaken>>

OpenSave(p) ==
    /\ p \in opening
    /\ opening' = opening \ {p} /\ placing' = placing \cup {p}
    /\ row' = [row EXCEPT ![p] = "OPEN"]
    /\ UNCHANGED <<pool, tp, sl, req, shaken>>

\* The first guards, TP before SL; a failure leaves what there is.
PlaceFirst(p) ==
    /\ p \in placing
    /\ \/ p \notin tp /\ tp' = tp \cup {p} /\ UNCHANGED <<sl, placing>>
       \/ p \in tp /\ sl' = sl \cup {p} /\ placing' = placing \ {p} /\ UNCHANGED tp
       \/ placing' = placing \ {p} /\ UNCHANGED <<tp, sl>>
    /\ UNCHANGED <<row, opening, pool, req, shaken>>

\* The monitor saves what a conditional that triggered, or the user, closed.
MonitorCloses(p) ==
    /\ row[p] = "OPEN" /\ pool[SideOf[p]] < Cardinality({q \in OnSide(SideOf[p]) : row[q] = "OPEN"})
    /\ row' = [row EXCEPT ![p] = "CLOSED"]
    /\ tp' = tp \ {p} /\ sl' = sl \ {p}
    /\ UNCHANGED <<opening, pool, placing, req, shaken>>

Leaves(p) ==
    /\ row[p] = "OPEN" /\ pool[SideOf[p]] > 0 /\ Take(p)
    /\ UNCHANGED <<row, opening, tp, sl, placing, req, shaken>>

\* A clean-up cancels a row whose order is gone.
GuardLost(p) ==
    /\ p \in tp \cup sl /\ shaken' = shaken \cup {p}
    /\ \/ tp' = tp \ {p} /\ UNCHANGED sl
       \/ sl' = sl \ {p} /\ UNCHANGED tp
    /\ UNCHANGED <<row, opening, pool, placing, req>>

----------------------------------------------------------------------------
(* The batches.                                                            *)

Batch(r, scope, list, at) ==
    /\ req[r].at \in {"idle", "closed", "repaired"}
    /\ Goto(r, [at |-> at, rest |-> [scope |-> scope, open |-> OpenRows(scope),
                                     left |-> list, failed |-> {}]])
    /\ UNCHANGED <<row, opening, pool, tp, sl, placing, shaken>>

Into(r, p, at) == Goto(r, [at |-> at, p |-> p, rest |-> req[r].rest])

\* The next of the list, whatever became of this one.
Back(r, at, failed) ==
    Goto(r, [at |-> at, rest |-> [req[r].rest EXCEPT !.left = @ \ {req[r].p},
                                    !.failed = @ \cup failed]])

\* Mutant: an error ends the loop.
Fails_Ends(r, at) ==
    Goto(r, [at |-> IF at = "closing" THEN "closed" ELSE "repaired",
             rest |-> [req[r].rest EXCEPT !.left = {}, !.failed = @ \cup {req[r].p}]])

Fails(r, at) == Back(r, at, {req[r].p})

CloseAllStart(r, scope) == Batch(r, scope, OpenRows(scope), "closing")

CloseNext(r, p) ==
    /\ req[r].at = "closing" /\ p \in req[r].rest.left
    /\ Into(r, p, "close")
    /\ UNCHANGED <<row, opening, pool, tp, sl, placing, shaken>>

\* closePosition: a row that is not OPEN any more is an error, and so is an
\* exchange that refuses; one that holds nothing is as good as closed.
CloseAtMarket(r) ==
    /\ req[r].at = "close"
    /\ LET p == req[r].p IN
       \/ row[p] = "OPEN" /\ Take(p) /\ Into(r, p, "save")
       \/ Fails(r, "closing") /\ UNCHANGED pool
    /\ UNCHANGED <<row, opening, tp, sl, placing, shaken>>

CloseSave(r) ==
    /\ req[r].at \in {"save", "mend"}
    /\ LET p == req[r].p IN
       /\ row' = [row EXCEPT ![p] = "CLOSED"]
       /\ tp' = tp \ {p} /\ sl' = sl \ {p}
    /\ Back(r, IF req[r].at = "save" THEN "closing" ELSE "repairing", {})
    /\ UNCHANGED <<opening, pool, placing, shaken>>

CloseAllEnds(r) ==
    /\ req[r].at = "closing" /\ req[r].rest.left = {}
    /\ Goto(r, [req[r] EXCEPT !.at = "closed"])
    /\ UNCHANGED <<row, opening, pool, tp, sl, placing, shaken>>

\* Mutant: one guard is enough.
NeedsTpSl_Both(p) == p \notin tp \cup sl

NeedsTpSl(p) == p \notin tp \cap sl

RepairStart(r, scope) ==
    Batch(r, scope, {p \in OpenRows(scope) : NeedsTpSl(p)}, "repairing")

RepairNext(r, p) ==
    /\ req[r].at = "repairing" /\ p \in req[r].rest.left
    /\ Into(r, p, "cancel")
    /\ UNCHANGED <<row, opening, pool, tp, sl, placing, shaken>>

\* replenishTpSl: what is left of the guards is canceled first.
RepairCancel(r) ==
    /\ req[r].at = "cancel"
    /\ LET p == req[r].p IN
       IF row[p] = "OPEN"
       THEN /\ tp' = tp \ {p} /\ sl' = sl \ {p} /\ shaken' = shaken \cup {p}
            /\ Into(r, p, "tp")
       ELSE Fails(r, "repairing") /\ UNCHANGED <<tp, sl, shaken>>
    /\ UNCHANGED <<row, opening, pool, placing>>

\* The new ones; a price beyond the trigger closes the position instead, and
\* the row, if it is not OPEN any more, is not looked at again.
RepairPlace(r) ==
    /\ req[r].at \in {"tp", "sl"}
    /\ LET p == req[r].p IN
       \/ /\ req[r].at = "tp" /\ tp' = tp \cup {p} /\ Into(r, p, "sl")
          /\ UNCHANGED <<pool, sl, shaken>>
       \/ /\ req[r].at = "sl" /\ sl' = sl \cup {p} /\ Back(r, "repairing", {})
          /\ shaken' = IF p \in tp THEN shaken \ {p} ELSE shaken
          /\ UNCHANGED <<pool, tp>>
       \/ Take(p) /\ Into(r, p, "mend") /\ UNCHANGED <<tp, sl, shaken>>
       \/ Fails(r, "repairing") /\ UNCHANGED <<pool, tp, sl, shaken>>
    /\ UNCHANGED <<row, opening, placing>>

RepairEnds(r) ==
    /\ req[r].at = "repairing" /\ req[r].rest.left = {}
    /\ Goto(r, [req[r] EXCEPT !.at = "repaired"])
    /\ UNCHANGED <<row, opening, pool, tp, sl, placing, shaken>>

----------------------------------------------------------------------------
(* reconcile.                                                              *)

\* Mutant: closed positions count as well.
Counted_All(s, side) ==
    Cardinality({p \in OnSide(side) : row[p] # "none" /\ StrategyOf[p] = s})

Counted(s, side) == Cardinality({p \in OpenRows(s) : SideOf[p] = side})

\* The rows are read first,
CompareStart(r, s) ==
    /\ req[r].at \in {"idle", "closed", "repaired"}
    /\ Goto(r, [at |-> "compare", strategy |-> s,
                rows |-> [side \in Sides |-> Counted(s, side)],
                verdict |-> [side \in Sides |-> ""]])
    /\ UNCHANGED <<row, opening, pool, tp, sl, placing, shaken>>

\* then the contracts, from one adapter or two, whoever's they are.
Compare(r, side) ==
    /\ req[r].at = "compare" /\ req[r].verdict[side] = ""
    /\ LET diff == req[r].rows[side] - pool[side] IN
       Goto(r, [req[r] EXCEPT !.verdict[side] =
                  CASE diff = 0 -> "MATCHED"
                    [] diff > 0 -> "DB_HEAVY"
                    [] diff < 0 -> "EXCHANGE_HEAVY"])
    /\ UNCHANGED <<row, opening, pool, tp, sl, placing, shaken>>

CompareEnds(r) ==
    /\ req[r].at = "compare" /\ \A side \in Sides : req[r].verdict[side] # ""
    /\ Goto(r, IdleRequest)
    /\ UNCHANGED <<row, opening, pool, tp, sl, placing, shaken>>

----------------------------------------------------------------------------
PositionStep ==
    \/ \E p \in Positions :
          \/ OpenMarket(p) \/ OpenSave(p) \/ PlaceFirst(p)
          \/ MonitorCloses(p) \/ Leaves(p) \/ GuardLost(p)
    \/ \E r \in Closers :
          \/ \E s \in Scopes : CloseAllStart(r, s)
          \/ \E p \in Positions : CloseNext(r, p)
          \/ CloseAtMarket(r) \/ CloseAllEnds(r)
    \/ \E r \in Repairers :
          \/ \E s \in Scopes : RepairStart(r, s)
          \/ \E p \in Positions : RepairNext(r, p)
          \/ RepairCancel(r) \/ RepairPlace(r) \/ RepairEnds(r)
    \/ \E r \in Requests : CloseSave(r)
    \/ \E r \in Auditors :
          \/ \E s \in Strategies : CompareStart(r, s)
          \/ \E side \in Sides : Compare(r, side)
          \/ CompareEnds(r)

\* Rows of the strategy and contracts of the account do not agree.
Disagree(rows, contracts, s) ==
    {side \in Sides : contracts[side] #
        Cardinality({p \in OnSide(side) : rows[p] = "OPEN" /\ StrategyOf[p] = s})}

\* The history of a reconciliation: every state from its first read on.
Watched ==
    watch' = [r \in Requests |->
        IF req'[r].at # "compare" THEN {}
        ELSE (IF req[r].at = "compare" THEN watch[r] ELSE {})
               \cup Disagree(row', pool', req'[r].strategy)]

PositionNext == PositionStep /\ Watched

PositionSpec == PositionInit /\ [][PositionNext]_positionVars

----------------------------------------------------------------------------
\* closeAll closes every position it found OPEN, whatever else happens to it
\* and to the others meanwhile, or names it as failed.
CloseAllCloses ==
    \A r \in Requests :
        req[r].at = "closed" =>
            \A p \in req[r].rest.open \ req[r].rest.failed : row[p] = "CLOSED"

\* After placeTpSlMissing every position that was OPEN when it began, and is,
\* has both guards, unless it is named as failed or has lost one again since.
RepairedIsGuarded ==
    \A r \in Requests :
        req[r].at = "repaired" =>
            \A p \in req[r].rest.open \ req[r].rest.failed :
                row[p] = "OPEN" => p \in Guarded \cup shaken

\* A reconciliation raises no alarm of its own making: if it finds a side heavy,
\* rows and contracts did disagree at some moment while it read.
AlarmsAreReal ==
    \A r \in Requests :
        req[r].at = "compare" =>
            \A side \in Sides :
                req[r].verdict[side] \in {"DB_HEAVY", "EXCHANGE_HEAVY"} => side \in watch[r]

\* What a request over many positions reports at its end is so, although each of
\* them went on meanwhile.
BatchesAreTrue == CloseAllCloses /\ RepairedIsGuarded /\ AlarmsAreReal

============================================================================
