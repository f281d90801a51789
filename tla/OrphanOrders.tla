---------------------------- MODULE OrphanOrders ----------------------------
(***************************************************************************)
(* Housekeeping of conditional orders over several accounts: the scan for  *)
(* orphans and their clean-up, the pass that frees room on Lighter before  *)
(* a placement, and LighterAdapter's orders, which are known by two ids.   *)
(*                                                                         *)
(* Trading follows every step of one leg of one account; here a position   *)
(* has one conditional order, its guard, named by the position itself, and *)
(* what counts is whose orders a pass finds, claims, heals and cancels     *)
(* while others place, trigger and close.                                  *)
(***************************************************************************)
EXTENDS Integers, FiniteSets

CONSTANTS
    Positions, Strategies,   \* strategies are numbers, older ones lower
    StrategyOf, SideOf,      \* of each position
    LongOf, ShortOf,         \* the account of each side of a strategy
    NoAccount,
    LighterAccounts,
    ActiveStrategies,
    Guarded,                 \* positions open and guarded at first
    Left,                    \* positions closed whose guard was left behind -> its row
    Stale,                   \* those of them whose rows have the client's id
    BandOf,                  \* price class of each position's trigger
    Placers,
    MaxPending               \* Lighter's limit of orders per market

VARIABLES
    status,   \* Position.status: "none", "open" or "closed"
    live,     \* the guards live at the exchange
    gone,     \* the guards that triggered
    row,      \* Order.status of the guard's row
    exId,     \* its exchangeOrderId
    place,    \* the placements in flight
    closing,  \* positions recorded as closed whose cancel is still to come
    scan,     \* the scan in flight
    late,     \* history: guards cancelled that had no row when rows were read
    spared    \* history: guards whose cancel failed, or was said to have worked

orphanVars == <<status, live, gone, row, exId, place, closing, scan,
                late, spared>>

\* An order has an order_index, which the exchange assigns, and the
\* client_order_index it was sent with; either may be in a row.
Ids == [of : Positions, kind : {"index", "client"}]
Index(p) == [of |-> p, kind |-> "index"]
Client(p) == [of |-> p, kind |-> "client"]
NoId == [kind |-> "none"]

AccountOf(p) ==
    LET s == StrategyOf[p] IN
    IF SideOf[p] = "SHORT" /\ ShortOf[s] # NoAccount THEN ShortOf[s] ELSE LongOf[s]
Accounts(s) == {LongOf[s], ShortOf[s]} \ {NoAccount}
\* Closed, and no close is still at work on it.
Settled == {p \in Positions : status[p] = "closed" /\ p \notin closing}
Book(accounts) == {o \in live : AccountOf(o) \in accounts}

IdlePlace == [at |-> "idle"]
IdleScan == [at |-> "idle"]

PlaceStates == {IdlePlace} \cup
    [at : {"book", "rows", "match", "free", "send", "row"}, pos : Positions,
     book : SUBSET Positions, rows : SUBSET Positions,
     known : SUBSET Positions, closed : SUBSET Positions,
     kept : SUBSET Positions]

Orphans == [kind : {"exchange", "db"}, order : Positions,
            row : Positions \cup {0}]

ScanStates == {IdleScan} \cup
    [at : {"rows", "book", "match", "clean", "done"},
     groups : SUBSET Strategies, group : Strategies \cup {0},
     rows : SUBSET Positions, pool : SUBSET Positions,
     book : SUBSET Positions, heal : SUBSET (Positions \X Positions),
     orphans : SUBSET Orphans, known : SUBSET Positions,
     closed : SUBSET Positions, kept : SUBSET Positions]

OrphanTypeOK ==
    /\ status \in [Positions -> {"none", "open", "closed"}]
    /\ live \subseteq Positions /\ gone \subseteq Positions
    /\ row \in [Positions -> {"none", "PENDING", "CANCELED"}]
    /\ exId \in [Positions -> Ids \cup {NoId}]
    /\ place \in [Placers -> PlaceStates]
    /\ closing \subseteq Positions
    /\ scan \in ScanStates
    /\ late \subseteq Positions /\ spared \subseteq Positions

\* A guard is left by a crash (its row PENDING) or a failed cancel (CANCELED).
OrphanInit ==
    /\ status = [p \in Positions |-> IF p \in Guarded THEN "open"
                                     ELSE IF p \in DOMAIN Left THEN "closed" ELSE "none"]
    /\ live = Guarded \cup DOMAIN Left /\ gone = {}
    /\ row = [p \in Positions |-> IF p \in Guarded THEN "PENDING"
                                  ELSE IF p \in DOMAIN Left THEN Left[p] ELSE "none"]
    /\ exId = [p \in Positions |-> IF row[p] = "none" THEN NoId
                                   ELSE IF p \in Stale THEN Client(p) ELSE Index(p)]
    /\ place = [t \in Placers |-> IdlePlace]
    /\ closing = {} /\ scan = IdleScan
    /\ late = {} /\ spared = {p \in DOMAIN Left : row[p] = "CANCELED"}

----------------------------------------------------------------------------
(* Which order a row stands for.                                           *)

SameId(id, o) == id \in {Index(o), Client(o)}

\* conditionalOrdersMatch: the side and, within a tolerance, the price.
Alike(r, o) == SideOf[r] = SideOf[o] /\ BandOf[r] = BandOf[o]

\* findAndHealOpenConditional: the order of row r among those available, by one
\* of its ids or else by its features.
OrderFor(r, available) ==
    LET byId == {o \in available : SameId(exId[r], o)}
    IN IF byId # {} THEN byId ELSE {o \in available : Alike(r, o)}

\* A match by features rewrites the id.
Healed(r, o) ==
    IF SameId(exId[r], o) THEN exId ELSE [exId EXCEPT ![r] = Index(o)]

----------------------------------------------------------------------------
(* LighterAdapter.cancelOrder.                                             *)

\* What a cancel may come to: the orders it kills, and whether it says so.  An
\* order_index is cancelled directly.  A client_order_index is tried as an
\* order_index: the exchange may call it unknown, which counts as done, or
\* refuse, and then the order is looked up by it.
Answers(id, account) ==
    IF id.kind = "index" \/ account \notin LighterAccounts
    THEN {[kills |-> {id.of}, ok |-> TRUE], [kills |-> {}, ok |-> FALSE]}
    ELSE {[kills |-> {}, ok |-> TRUE],
          [kills |-> {id.of}, ok |-> id.of \in live],
          [kills |-> {}, ok |-> FALSE]}

\* The order survives its cancel: it failed, or it only seemed to work.
Survives(o, answer) == o \in live /\ o \notin answer.kills

\* Mutant: the row is canceled without an answer from the exchange.
CancelPending_RowOnly(p) ==
    /\ row' = [row EXCEPT ![p] = IF @ = "PENDING" THEN "CANCELED" ELSE @]
    /\ UNCHANGED <<exId, live, spared>>

\* cancelPendingOrders of one position: its PENDING row is matched against the
\* open orders (none, if they cannot be fetched), cancelled, and marked whatever
\* the answer was.
CancelPending(p) ==
    IF row[p] # "PENDING" THEN UNCHANGED <<row, exId, live, spared>>
    ELSE \E book \in {Book({AccountOf(p)}), {}} :
         LET found == OrderFor(p, book) IN
         \E o \in IF found = {} THEN {0} ELSE found :
            LET ids == IF o = 0 THEN exId ELSE Healed(p, o)
                id == IF o = 0 THEN exId[p] ELSE Index(o)
            IN \E answer \in Answers(id, AccountOf(p)) :
                 /\ exId' = ids
                 /\ live' = live \ answer.kills
                 /\ spared' = IF Survives(id.of, answer)
                              THEN spared \cup {id.of} ELSE spared
                 /\ row' = [row EXCEPT ![p] = "CANCELED"]

----------------------------------------------------------------------------
(* The exchange, and closes.                                               *)

GuardTriggers(o) ==
    /\ o \in live
    /\ live' = live \ {o} /\ gone' = gone \cup {o}
    /\ UNCHANGED <<status, row, exId, place, closing, scan, late, spared>>

Placing(p) == \E t \in Placers : place[t].at # "idle" /\ place[t].pos = p

\* A position is recorded as closed, by whichever chain;
ClosePosition(p) ==
    /\ status[p] = "open"
    /\ ~Placing(p)
    /\ status' = [status EXCEPT ![p] = "closed"]
    /\ closing' = closing \cup {p}
    /\ UNCHANGED <<live, gone, row, exId, place, scan, late, spared>>

\* then its order is cancelled.
CloseCancels(p) ==
    /\ p \in closing
    /\ CancelPending(p)
    /\ closing' = closing \ {p}
    /\ UNCHANGED <<status, gone, place, scan, late>>

----------------------------------------------------------------------------
(* placeTpSl on Lighter: freeUnmatchedLighterConditionals, then the order.  *)

keptByPlace == <<status, gone, closing, scan>>
PlaceGoto(t, next) == place' = [place EXCEPT ![t] = next]

PlaceStart(t, p) ==
    /\ place[t] = IdlePlace
    /\ status[p] = "none"
    /\ status' = [status EXCEPT ![p] = "open"]
    /\ PlaceGoto(t, [at |-> IF AccountOf(p) \in LighterAccounts THEN "book" ELSE "send",
                     pos |-> p, book |-> {}, rows |-> {}, known |-> {},
                     closed |-> Settled, kept |-> {}])
    /\ UNCHANGED <<live, gone, row, exId, closing, scan, late, spared>>

\* The open orders of the account; none at all need no pass, and a failure is
\* logged: the order is sent without one.
FreeBook(t) ==
    /\ place[t].at = "book"
    /\ LET book == Book({AccountOf(place[t].pos)}) IN
       \/ PlaceGoto(t, [place[t] EXCEPT !.book = book,
                          !.at = IF book = {} THEN "send" ELSE "rows"])
       \/ PlaceGoto(t, [place[t] EXCEPT !.at = "send", !.closed = {}])
    /\ UNCHANGED <<keptByPlace, live, row, exId, late, spared>>

\* Mutant: only the rows of the position's own strategy are read.
FreeRows_OwnStrategy(t) ==
    /\ place[t].at = "rows"
    /\ LET p == place[t].pos IN
       PlaceGoto(t, [place[t] EXCEPT !.at = "match",
          !.rows = {q \in Positions : row[q] = "PENDING" /\ status[q] = "open"
                                      /\ StrategyOf[q] = StrategyOf[p]},
          !.known = {q \in Positions : row[q] = "PENDING"}])
    /\ UNCHANGED <<keptByPlace, live, row, exId, late, spared>>

\* Mutant: rows of closed positions claim orders as well.
FreeRows_AnyStatus(t) ==
    /\ place[t].at = "rows"
    /\ LET p == place[t].pos IN
       PlaceGoto(t, [place[t] EXCEPT !.at = "match",
          !.rows = {q \in Positions : row[q] = "PENDING" /\ SideOf[q] = SideOf[p]
                                      /\ AccountOf(q) = AccountOf(p)},
          !.known = {q \in Positions : row[q] = "PENDING"}])
    /\ UNCHANGED <<keptByPlace, live, row, exId, late, spared>>

\* The PENDING rows of OPEN positions of this side on this account.
FreeRows(t) ==
    /\ place[t].at = "rows"
    /\ LET p == place[t].pos IN
       PlaceGoto(t, [place[t] EXCEPT !.at = "match",
          !.rows = {q \in Positions :
                      /\ row[q] = "PENDING" /\ status[q] = "open"
                      /\ SideOf[q] = SideOf[p] /\ AccountOf(q) = AccountOf(p)},
          !.known = {q \in Positions : row[q] = "PENDING"}])
    /\ UNCHANGED <<keptByPlace, live, row, exId, late, spared>>

\* Each row claims its order.
FreeMatch(t) ==
    /\ place[t].at = "match"
    /\ LET here == place[t] IN
       IF here.rows = {} THEN PlaceGoto(t, [here EXCEPT !.at = "free"]) /\ UNCHANGED exId
       ELSE \E r \in here.rows :
            LET found == OrderFor(r, here.book)
                rest == [here EXCEPT !.rows = @ \ {r}]
            IN IF found = {} THEN PlaceGoto(t, rest) /\ UNCHANGED exId
               ELSE \E o \in found :
                      /\ PlaceGoto(t, [rest EXCEPT !.book = @ \ {o}])
                      /\ exId' = Healed(r, o)
    /\ UNCHANGED <<keptByPlace, live, row, late, spared>>

\* What nobody claimed is cancelled; a failure is logged.
FreeCancel(t) ==
    /\ place[t].at = "free"
    /\ LET here == place[t] IN
       IF here.book = {}
       THEN PlaceGoto(t, [here EXCEPT !.at = "send", !.known = {}]) /\ UNCHANGED <<live, late>>
       ELSE \E o \in here.book : \E answer \in Answers(Index(o), AccountOf(o)) :
              /\ live' = live \ answer.kills
              /\ PlaceGoto(t, [here EXCEPT !.book = @ \ {o}, !.kept = @ \cup (live' \cap {o})])
              /\ late' = IF o \notin here.known THEN late \cup {o} ELSE late
    /\ UNCHANGED <<keptByPlace, row, exId, spared>>

Full(account) ==
    account \in LighterAccounts /\ Cardinality(Book({account})) >= MaxPending

\* The order is sent, unless the market holds too many for this account.
PlaceSend(t) ==
    /\ place[t].at = "send"
    /\ LET p == place[t].pos IN
       IF Full(AccountOf(p)) THEN PlaceGoto(t, IdlePlace) /\ UNCHANGED live
       ELSE /\ live' = live \cup {p}
            /\ PlaceGoto(t, [place[t] EXCEPT !.at = "row", !.closed = {}, !.kept = {}])
    /\ UNCHANGED <<keptByPlace, row, exId, late, spared>>

\* The row gets the order_index if the order is found among the open ones, or
\* keeps the client's id.
PlaceRow(t) ==
    /\ place[t].at = "row"
    /\ LET p == place[t].pos IN
       /\ row' = [row EXCEPT ![p] = "PENDING"]
       /\ \E id \in {Index(p), Client(p)} :
             /\ id = Client(p) => AccountOf(p) \in LighterAccounts
             /\ exId' = [exId EXCEPT ![p] = id]
    /\ PlaceGoto(t, IdlePlace)
    /\ UNCHANGED <<keptByPlace, live, late, spared>>

----------------------------------------------------------------------------
(* checkOrphanOrders and cleanupOrphanOrders.                              *)

keptByScan == <<status, gone, place, closing>>

\* resolveOrphanScanGroups: the oldest strategy of each pair of accounts.
ScanGroups(pool) ==
    {s \in pool : \A u \in pool :
        LongOf[u] = LongOf[s] /\ ShortOf[u] = ShortOf[s] => s <= u}

ScanPool == IF ActiveStrategies # {} THEN ActiveStrategies ELSE Strategies

\* A user scans one strategy or all; to clean up, the scan is repeated.  Bound:
\* one scan, so its report stays.
ScanStart ==
    /\ scan = IdleScan
    /\ \E scope \in {ScanPool} \cup {{s} : s \in Strategies} :
          scan' = [at |-> "rows", groups |-> ScanGroups(scope), group |-> 0,
                   rows |-> {}, pool |-> {}, book |-> {}, heal |-> {},
                   orphans |-> {}, known |-> Positions, kept |-> {},
                   closed |-> {p \in Settled : \E s \in scope :
                                              AccountOf(p) \in Accounts(s)}]
    /\ UNCHANGED <<keptByScan, live, row, exId, late, spared>>

\* Strategies whose rows belong to the accounts of s.
SharesAccounts(s, u) ==
    \/ LongOf[u] = LongOf[s]
    \/ ShortOf[s] # NoAccount /\ ShortOf[u] = ShortOf[s]
    \/ ShortOf[u] = LongOf[s]

\* The PENDING rows of a group, before its orders; those of OPEN positions are
\* the pool its orders are matched against.
ScanRows ==
    /\ scan.at = "rows" /\ scan.groups # {}
    /\ \E s \in scan.groups :
       LET rows == {p \in Positions :
                      row[p] = "PENDING" /\ SharesAccounts(s, StrategyOf[p])}
       IN scan' = [scan EXCEPT !.at = "book", !.groups = @ \ {s}, !.group = s,
                     !.rows = {p \in rows : status[p] # "open"},
                     !.pool = {p \in rows : status[p] = "open"},
                     !.known = @ \cap {p \in Positions : row[p] = "PENDING"}]
    /\ UNCHANGED <<keptByScan, live, row, exId, late, spared>>

\* Mutant: only the orders of the LONG account are listed.
ScanBook_LongOnly ==
    /\ scan.at = "book"
    /\ \/ scan' = [scan EXCEPT !.at = "match", !.book = Book({LongOf[scan.group]})]
       \/ scan' = IdleScan
    /\ UNCHANGED <<keptByScan, live, row, exId, late, spared>>

\* The open orders of both accounts; a failure ends the scan.
ScanBook ==
    /\ scan.at = "book"
    /\ \/ scan' = [scan EXCEPT !.at = "match", !.book = Book(Accounts(scan.group))]
       \/ scan' = IdleScan
    /\ UNCHANGED <<keptByScan, live, row, exId, late, spared>>

\* One order: its row in the pool by id or features, else it is an orphan, with
\* whatever row of the whole history has its id.
ScanMatch ==
    /\ scan.at = "match" /\ scan.book # {}
    /\ \E o \in scan.book :
       LET byId == {r \in scan.pool : SameId(exId[r], o)}
           alike == {r \in scan.pool : Alike(r, o)}
           rest == [scan EXCEPT !.book = @ \ {o}]
           history == {r \in Positions : row[r] # "none" /\ SameId(exId[r], o)}
       IN CASE byId # {} ->
                 \E r \in byId : scan' = [rest EXCEPT !.pool = @ \ {r}]
            [] byId = {} /\ alike # {} ->
                 \E r \in alike : scan' = [rest EXCEPT !.pool = @ \ {r},
                                             !.heal = @ \cup {<<r, o>>}]
            [] OTHER ->
                 \E r \in IF history = {} THEN {0} ELSE history :
                    scan' = [rest EXCEPT !.orphans = @ \cup
                               {[kind |-> "exchange", order |-> o, row |-> r]}]
    /\ UNCHANGED <<keptByScan, live, row, exId, late, spared>>

\* The ids are healed, and the rows of positions that were not OPEN reported.
ScanGroupEnds ==
    /\ scan.at = "match" /\ scan.book = {}
    /\ exId' = [r \in Positions |->
                  IF \E o \in Positions : <<r, o>> \in scan.heal
                  THEN Index(CHOOSE o \in Positions : <<r, o>> \in scan.heal)
                  ELSE exId[r]]
    /\ scan' = [scan EXCEPT !.at = "rows", !.group = 0, !.rows = {}, !.pool = {},
                  !.heal = {}, !.orphans = @ \cup {[kind |-> "db", order |-> p, row |-> p] :
                                        p \in scan.rows}]
    /\ UNCHANGED <<keptByScan, live, row, late, spared>>

\* All groups are scanned: what was found is cleaned up, in any order; a user
\* who ticked only some of it is one whose clean-up stops after these.
ScanEnds ==
    /\ scan.at = "rows" /\ scan.groups = {}
    /\ scan' = [scan EXCEPT !.at = "clean"]
    /\ UNCHANGED <<keptByScan, live, row, exId, late, spared>>

\* An order without a PENDING row is cancelled by its order_index; only then,
\* and only if that worked, a row of it that is PENDING is marked.
CleanExchange(x) ==
    /\ scan.at = "clean" /\ x \in scan.orphans /\ x.kind = "exchange"
    /\ \E answer \in Answers(Index(x.order), AccountOf(x.order)) :
          /\ live' = live \ answer.kills
          /\ late' = IF x.order \notin scan.known THEN late \cup {x.order} ELSE late
          /\ row' = IF answer.ok /\ x.row # 0
                    THEN [row EXCEPT ![x.row] = IF @ = "PENDING" THEN "CANCELED" ELSE @]
                    ELSE row
    /\ scan' = [scan EXCEPT !.orphans = @ \ {x}, !.kept = @ \cup (live' \cap {x.order})]
    /\ UNCHANGED <<keptByScan, exId, spared>>

\* A PENDING row of a closed position is handled like a close would have.
CleanDb(x) ==
    /\ scan.at = "clean" /\ x \in scan.orphans /\ x.kind = "db"
    /\ CancelPending(x.row)
    /\ scan' = [scan EXCEPT !.orphans = @ \ {x}, !.kept = @ \cup (live' \cap {x.row})]
    /\ UNCHANGED <<keptByScan, late>>

CleanEnds ==
    /\ scan.at = "clean" /\ scan.orphans = {}
    /\ scan' = [scan EXCEPT !.at = "done", !.known = {}]
    /\ UNCHANGED <<keptByScan, live, row, exId, late, spared>>

OrphanNext ==
    \/ \E p \in Positions : GuardTriggers(p) \/ ClosePosition(p) \/ CloseCancels(p)
    \/ \E t \in Placers :
          \/ \E p \in Positions : PlaceStart(t, p)
          \/ FreeBook(t) \/ FreeRows(t) \/ FreeMatch(t) \/ FreeCancel(t)
          \/ PlaceSend(t) \/ PlaceRow(t)
    \/ ScanStart \/ ScanRows \/ ScanBook \/ ScanMatch \/ ScanGroupEnds \/ ScanEnds
    \/ IF scan.at = "clean"
       THEN \E x \in scan.orphans : CleanExchange(x) \/ CleanDb(x) ELSE FALSE
    \/ CleanEnds

OrphanSpec == OrphanInit /\ [][OrphanNext]_orphanVars

----------------------------------------------------------------------------
\* Housekeeping takes the guard of no OPEN position: not for want of an id that
\* matches, not as that of another strategy on the account.  The exception is
\* a guard whose row was not written yet when the rows were read (late).
GuardsAreSpared ==
    \A p \in Positions :
        status[p] = "open" /\ row[p] = "PENDING" =>
            p \in live \cup gone \cup late

\* A full clean-up leaves nothing of the positions that were closed when it
\* began, on either account of the strategies it was asked for, whatever crash
\* or failure left it there; but for orders that the exchange kept.
CleanUpIsComplete ==
    scan.at = "done" =>
        \A p \in scan.closed : p \notin live \/ p \in scan.kept

\* A row is CANCELED only if its order is dead; else a cancel failed at the
\* exchange, or a stale client id was taken for a success.
CanceledIsDead ==
    \A p \in Positions : row[p] = "CANCELED" => p \notin live \/ p \in spared

\* Before an order is sent on Lighter, what earlier positions left on the
\* account is gone, so the limit counts guards of OPEN positions, orders the
\* exchange kept, and those of positions closed while the pass was under way.
RoomIsMade ==
    \A t \in Placers :
        place[t].at = "send" /\ AccountOf(place[t].pos) \in LighterAccounts =>
            \A o \in place[t].closed :
                AccountOf(o) = AccountOf(place[t].pos) =>
                o \notin live \/ o \in place[t].kept

\* Scan, clean-up, cancels and the free pass for Lighter together: they take no
\* guard of an OPEN position, leave nothing of closed ones, and what they say of
\* an order is so.
HousekeepingIsTrue == GuardsAreSpared /\ CleanUpIsComplete /\ CanceledIsDead /\ RoomIsMade

============================================================================
