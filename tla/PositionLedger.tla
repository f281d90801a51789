---------------------------- MODULE PositionLedger ----------------------------
(***************************************************************************)
(* What the rows of the positions promise of one leg of an account: the    *)
(* abstract specification that the trading core implements.                *)
(*                                                                         *)
(* A position is bought once and recorded once.  Its row leaves OPEN only  *)
(* for a reason there is: an order of its own triggered, a market close    *)
(* of its own was executed, or a close of it was told that the account has *)
(* nothing left to sell.  It never returns to OPEN.                        *)
(***************************************************************************)
EXTENDS Naturals, FiniteSets

CONSTANTS
    Positions,
    Protected    \* positions that are OPEN at first

VARIABLES
    contracts,   \* merged quantity of the account, in units of Q
    opened,      \* positions that were bought
    status,      \* Position.status
    hits,        \* pairs of a position and the type of an order that triggered
    sales,       \* positions with a market close executed and not yet recorded
    flats        \* positions with a close that found nothing to sell

ledgerVars == <<contracts, opened, status, hits, sales, flats>>

Outcome(type) == IF type = "TP" THEN "TP_HIT" ELSE "SL_HIT"

LedgerInit ==
    /\ contracts = Cardinality(Protected) /\ opened = Protected
    /\ status = [p \in Positions |-> IF p \in Protected THEN "OPEN" ELSE "NONE"]
    /\ hits = {} /\ sales = {} /\ flats = {}

Buy(p) ==
    /\ p \notin opened /\ opened' = opened \cup {p}
    /\ contracts' = contracts + 1
    /\ UNCHANGED <<status, hits, sales, flats>>

\* A position that was bought is recorded, if its price could be resolved.
Record(p) ==
    /\ p \in opened /\ status[p] = "NONE"
    /\ status' = [status EXCEPT ![p] = "OPEN"]
    /\ UNCHANGED <<contracts, opened, hits, sales, flats>>

\* A conditional of p triggers and sells, if there is anything to sell.
Hit(p, type) ==
    /\ contracts' = IF contracts >= 1 THEN contracts - 1 ELSE contracts
    /\ hits' = hits \cup {<<p, type>>}
    /\ UNCHANGED <<opened, status, sales, flats>>

Sell(p) ==
    /\ status[p] # "NONE" /\ contracts >= 1
    /\ contracts' = contracts - 1 /\ sales' = sales \cup {p}
    /\ UNCHANGED <<opened, status, hits, flats>>

FindFlat(p) ==
    /\ status[p] # "NONE" /\ contracts = 0
    /\ flats' = flats \cup {p}
    /\ UNCHANGED <<contracts, opened, status, hits, sales>>

Settle(p, outcome) ==
    /\ status[p] # "NONE" /\ status' = [status EXCEPT ![p] = outcome]
    /\ UNCHANGED <<contracts, opened, hits>>

SettleHit(p, type) ==
    Settle(p, Outcome(type)) /\ <<p, type>> \in hits /\ UNCHANGED <<sales, flats>>

\* Two closes of a position may have sold; each of them settles it.
SettleSale(p) ==
    /\ p \in sales /\ sales' \in {sales, sales \ {p}} /\ UNCHANGED flats
    /\ \E outcome \in {"TP_HIT", "SL_HIT", "MANUAL"} : Settle(p, outcome)

SettleFlat(p) ==
    /\ p \in flats /\ flats' \in {flats, flats \ {p}} /\ UNCHANGED sales
    /\ \E outcome \in {"TP_HIT", "SL_HIT", "CLOSED"} : Settle(p, outcome)

LedgerNext ==
    \E p \in Positions :
        \/ Buy(p) \/ Record(p) \/ Sell(p) \/ FindFlat(p)
        \/ SettleSale(p) \/ SettleFlat(p)
        \/ \E type \in {"TP", "SL"} : Hit(p, type) \/ SettleHit(p, type)

LedgerSpec == LedgerInit /\ [][LedgerNext]_ledgerVars

============================================================================
