----------------------------- MODULE SyncRounds -----------------------------
(***************************************************************************)
(* The rounds of the TP/SL monitor in time, for a strategy whose legs are  *)
(* in two accounts: the flag that keeps cron rounds apart, the watchdog    *)
(* that takes it away from a round that hangs, the pause after a rate      *)
(* limit, and what a round concludes if only one account answers.          *)
(*                                                                         *)
(* TpslMonitor has the reconciliation of one account in full; here a       *)
(* position is the only one of its side, so that its side is its account.  *)
(***************************************************************************)
EXTENDS Integers, FiniteSets

CONSTANTS
    Rounds,       \* bound: rounds in flight that will ever be answered
    Positions,
    Watchdog,     \* SYNC_WATCHDOG_MS, in cron periods
    Pause,        \* the pause after a rate limit, in cron periods
    RefreshEvery, \* REFRESH_EVERY_N
    PartialFaults \* one account may fail to answer while the other does not

VARIABLES
    running, startedAt, \* syncRunning, and the periods since syncStartedAt
    paused,             \* periods until rateLimitedUntil
    due,                \* the cron is to fire in this period
    unserved,           \* history: periods, without pauses, since a round began
    resets,             \* history: flags taken by the watchdog
    round,
    openRow,            \* Position.status is OPEN
    held,               \* contracts at the exchange
    orders,             \* positions whose conditionals are open there
    notGone             \* history: positions closed by a round while held

syncVars == <<running, startedAt, paused, due, unserved, resets, round,
              openRow, held, orders, notGone>>

IdleRound == [at |-> "idle"]

RoundStates ==
    {IdleRound} \cup
    [at : {"read", "books", "contracts", "plan", "apply", "refresh"}, cron : BOOLEAN,
     rows : SUBSET Positions,  \* OPEN when read, later those to be closed
     booked : SUBSET Positions,
     asked : SUBSET Positions, \* accounts still to be asked
     seen : SUBSET Positions,  \* contracts found
     answered : BOOLEAN,       \* anyOk
     synced : 0..Cardinality(Positions)]

SyncTypeOK ==
    /\ running \in BOOLEAN /\ due \in BOOLEAN
    /\ startedAt \in 0..(Watchdog + 1) /\ paused \in 0..Pause
    /\ unserved \in 0..(Watchdog + 3)
    /\ resets \in 0..Cardinality(Rounds)
    /\ round \in [Rounds -> RoundStates]
    /\ openRow \subseteq Positions /\ held \subseteq Positions
    /\ orders \subseteq Positions /\ notGone \subseteq Positions

SyncInit ==
    /\ running = FALSE /\ startedAt = 0 /\ paused = 0 /\ due = TRUE
    /\ unserved = 0 /\ resets = 0
    /\ round = [r \in Rounds |-> IdleRound]
    /\ openRow = Positions /\ held = Positions /\ orders = Positions
    /\ notGone = {}

clock == <<running, startedAt, due, unserved, resets>>
venue == <<held, orders>>
records == <<openRow, notGone>>

Min2(a, b) == IF a < b THEN a ELSE b
CronRounds == {r \in Rounds : round[r].at # "idle" /\ round[r].cron}
RoundGoto(r, next) == round' = [round EXCEPT ![r] = next]

----------------------------------------------------------------------------
(* Time, and what happens at the exchange meanwhile.                       *)

\* A cron period goes by.
Period ==
    /\ ~due /\ due' = TRUE
    /\ startedAt' = Min2(startedAt + 1, Watchdog + 1)
    /\ paused' = IF paused > 0 THEN paused - 1 ELSE 0
    /\ unserved' = IF paused > 0 THEN unserved
                   ELSE Min2(unserved + 1, Watchdog + 3)
    /\ UNCHANGED <<running, resets, round, venue, records>>

\* One conditional triggers and the exchange drops the other, or the user
\* closes at the exchange: nothing is left of the position there.
Closes(p) ==
    /\ p \in held
    /\ held' = held \ {p} /\ orders' = orders \ {p}
    /\ UNCHANGED <<clock, paused, round, records>>

\* The user cancels both conditionals there.
Unguarded(p) ==
    /\ p \in orders
    /\ orders' = orders \ {p}
    /\ UNCHANGED <<clock, paused, round, held, records>>

----------------------------------------------------------------------------
(* Rounds.                                                                 *)

Fresh(cron) == [at |-> "read", cron |-> cron, rows |-> {}, booked |-> {},
                asked |-> Positions, seen |-> {}, answered |-> FALSE, synced |-> 0]

Begin(cron) ==
    \E r \in Rounds :
        /\ round[r] = IdleRound
        /\ RoundGoto(r, Fresh(cron))

\* Mutant: nothing takes the flag from a round that hangs.
Stuck_Never == FALSE

Stuck == running /\ startedAt > Watchdog

\* syncExchangeFills: not while a round runs, unless the watchdog resets it
\* (which it does even if the pause then keeps a round from beginning).
CronFires ==
    /\ due /\ due' = FALSE
    /\ resets' = IF Stuck THEN Min2(resets + 1, Cardinality(Rounds)) ELSE resets
    /\ IF (running /\ ~Stuck) \/ paused > 0
       THEN running' = (running /\ ~Stuck) /\ UNCHANGED <<startedAt, unserved, round>>
       ELSE Begin(TRUE) /\ running' = TRUE /\ startedAt' = 0 /\ unserved' = 0
    /\ UNCHANGED <<paused, venue, records>>

\* syncStrategyConditionalFills asks no flag and sets none.
ManualFires ==
    /\ Begin(FALSE)
    /\ UNCHANGED <<clock, paused, venue, records>>

\* Mutant: a manual round clears the flag as well.
Ends_Any(r) == RoundGoto(r, IdleRound) /\ running' = FALSE

\* The finally of a cron round, whichever round the flag is for.
Ends(r) ==
    /\ RoundGoto(r, IdleRound)
    /\ running' = IF round[r].cron THEN FALSE ELSE running

\* A call of the round is never answered.
RoundHangs(r) ==
    /\ round[r].at \notin {"idle", "plan"}
    /\ RoundGoto(r, IdleRound)
    /\ UNCHANGED <<clock, paused, venue, records>>

\* handleRateLimitError: a failure may be a rate limit, which starts the pause
\* anew (the latest end counts).
Fails == paused' \in {paused, Pause}

\* The OPEN positions; none, or a pause, ends the round.
RoundReads(r) ==
    /\ round[r].at = "read"
    /\ IF openRow = {} \/ paused > 0
       THEN Ends(r)
       ELSE /\ RoundGoto(r, [round[r] EXCEPT !.at = "books", !.rows = openRow])
            /\ UNCHANGED running
    /\ UNCHANGED <<startedAt, due, unserved, resets, paused, venue, records>>

\* The open orders of both accounts: if one fails, the round is skipped.
RoundLists(r) ==
    /\ round[r].at = "books"
    /\ \/ /\ RoundGoto(r, [round[r] EXCEPT !.at = "contracts", !.booked = orders])
          /\ UNCHANGED <<running, paused>>
       \/ Ends(r) /\ Fails
    /\ UNCHANGED <<startedAt, due, unserved, resets, venue, records>>

Asked(r, accounts, found, ok) ==
    LET here == round[r]
        rest == here.asked \ accounts
    IN RoundGoto(r, [here EXCEPT !.asked = rest, !.seen = @ \cup found, !.answered = ok,
                       !.at = IF rest = {} THEN "plan" ELSE "contracts"])

\* fetchExchangeContractsBySideMulti: one account after the other; one that
\* fails counts as empty, and it is enough that one answers.
RoundAsks(r, p) ==
    /\ round[r].at = "contracts" /\ p \in round[r].asked
    /\ \/ /\ Asked(r, {p}, held \cap {p}, TRUE)
          /\ UNCHANGED paused
       \/ /\ PartialFaults
          /\ Asked(r, {p}, {}, round[r].answered) /\ Fails
       \/ /\ round[r].asked = Positions
          /\ Asked(r, Positions, {}, FALSE) /\ Fails
    /\ UNCHANGED <<clock, venue, records>>

\* Mutant: an account that does not answer is empty, and so are all.
ToClose_Unanswered(here) ==
    {p \in here.rows : p \notin here.booked /\ p \notin here.seen}

\* Positions whose orders are both gone are closed in the database as far as
\* the contracts that are missing go.
ToClose(here) ==
    IF here.answered
    THEN {p \in here.rows : p \notin here.booked /\ p \notin here.seen} ELSE {}

RoundPlans(r) ==
    /\ round[r].at = "plan"
    /\ RoundGoto(r, [Fresh(round[r].cron) EXCEPT !.at = "apply", !.rows = ToClose(round[r])])
    /\ UNCHANGED <<clock, paused, venue, records>>

\* An error in one of them is logged, and the next one follows.
RoundApplyFails(r, p) ==
    /\ round[r].at = "apply" /\ p \in round[r].rows
    /\ RoundGoto(r, [round[r] EXCEPT !.rows = @ \ {p}])
    /\ Fails
    /\ UNCHANGED <<clock, venue, records>>

\* applyFillSync: only a position that is still OPEN becomes CLOSED.
RoundApplies(r, p) ==
    /\ round[r].at = "apply" /\ p \in round[r].rows
    /\ LET n == round[r].synced + (IF p \in openRow THEN 1 ELSE 0)
           full == p \in openRow /\ n % RefreshEvery = 0
       IN /\ RoundGoto(r, [round[r] EXCEPT !.rows = @ \ {p}, !.synced = n,
                             !.at = IF full THEN "refresh" ELSE "apply"])
          /\ notGone' = IF p \in openRow \cap held THEN notGone \cup {p} ELSE notGone
    /\ openRow' = openRow \ {p}
    /\ UNCHANGED <<clock, paused, venue>>

\* After every RefreshEvery of them the orders are listed again: what comes of
\* that is not looked at, but a failure ends the round.
RoundRefreshes(r) ==
    /\ round[r].at = "refresh"
    /\ \/ RoundGoto(r, [round[r] EXCEPT !.at = "apply"]) /\ UNCHANGED <<running, paused>>
       \/ Ends(r) /\ Fails
    /\ UNCHANGED <<startedAt, due, unserved, resets, venue, records>>

RoundEnds(r) ==
    /\ round[r].at = "apply" /\ round[r].rows = {}
    /\ Ends(r)
    /\ UNCHANGED <<startedAt, due, unserved, resets, paused, venue, records>>

SyncNext ==
    \/ Period \/ CronFires \/ ManualFires
    \/ \E p \in Positions : Closes(p) \/ Unguarded(p)
    \/ \E r \in Rounds :
          \/ RoundHangs(r) \/ RoundReads(r) \/ RoundLists(r) \/ RoundPlans(r)
          \/ RoundRefreshes(r) \/ RoundEnds(r)
          \/ \E p \in Positions : RoundAsks(r, p)
          \/ \E p \in Positions : RoundApplies(r, p) \/ RoundApplyFails(r, p)

SyncSpec == SyncInit /\ [][SyncNext]_syncVars

----------------------------------------------------------------------------
\* Rounds that hang stop nothing: outside the pauses of a rate limit a round
\* begins at least every SYNC_WATCHDOG_MS, but for one period of the cron.
SyncGoesOn == unserved <= Watchdog + 1

\* Cron rounds overlap only as often as the watchdog has struck, although a
\* round that was given up ends by clearing the flag of its successor.
OverlapIsBounded ==
    Cardinality(CronRounds) <= (IF running THEN 1 ELSE 0) + resets
        \/ resets = Cardinality(Rounds)

\* A round closes, in the database, only what is gone at the exchange.
ClosedMeansGone == notGone = {}

\* The flag, the watchdog and the pause together: reconciliation neither stops
\* for a round that hangs nor piles up.
RoundsGoOn == SyncGoesOn /\ OverlapIsBounded

============================================================================
