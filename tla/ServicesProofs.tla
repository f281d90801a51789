---------------------------- MODULE ServicesProofs ----------------------------
(***************************************************************************)
(* Theorems of the services around the trading core, for any values of the *)
(* constants.  The services share no state: a behaviour of all of them is  *)
(* one of each, which has a specification and an invariant of its own.     *)
(***************************************************************************)
EXTENDS Services, ExchangeServiceProofs, FiniteSetTheorems, TLAPS

----------------------------------------------------------------------------
(* A behaviour of the services is one of each service                       *)

\* Sync moves or stays.
LEMMA RoundsRun == ServicesSpec => Sync!SyncSpec
<1>1. ServicesInit => Sync!SyncInit
  BY DEF ServicesInit
<1>2. [ServicesNext]_servicesVars => [Sync!SyncNext]_(Sync!syncVars)
  BY DEF ServicesNext, servicesVars, syncState, Sync!syncVars
<1> QED
  BY <1>1, <1>2, PTL DEF ServicesSpec, Sync!SyncSpec

\* Market moves or stays.
LEMMA PricesRun == ServicesSpec => Market!MarketSpec
<1>1. ServicesInit => Market!MarketInit
  BY DEF ServicesInit
<1>2. [ServicesNext]_servicesVars => [Market!MarketNext]_(Market!marketVars)
  BY DEF ServicesNext, servicesVars, marketState, Market!marketVars
<1> QED
  BY <1>1, <1>2, PTL DEF ServicesSpec, Market!MarketSpec

\* Books moves or stays.
LEMMA BooksRun == ServicesSpec => Books!BinanceSpec
<1>1. ServicesInit => Books!BinanceInit
  BY DEF ServicesInit
<1>2. [ServicesNext]_servicesVars => [Books!BinanceNext]_(Books!binanceVars)
  BY DEF ServicesNext, servicesVars, binanceState, Books!binanceVars
<1> QED
  BY <1>1, <1>2, PTL DEF ServicesSpec, Books!BinanceSpec

\* Legs moves or stays.
LEMMA LegsRun == ServicesSpec => Legs!LighterSpec
<1>1. ServicesInit => Legs!LighterInit
  BY DEF ServicesInit
<1>2. [ServicesNext]_servicesVars => [Legs!LighterNext]_(Legs!lighterVars)
  BY DEF ServicesNext, servicesVars, lighterState, Legs!lighterVars
<1> QED
  BY <1>1, <1>2, PTL DEF ServicesSpec, Legs!LighterSpec

\* Batches moves or stays.
LEMMA BatchesRun == ServicesSpec => Batches!PositionSpec
<1>1. ServicesInit => Batches!PositionInit
  BY DEF ServicesInit
<1>2. [ServicesNext]_servicesVars => [Batches!PositionNext]_(Batches!positionVars)
  BY DEF ServicesNext, servicesVars, positionState, Batches!positionVars
<1> QED
  BY <1>1, <1>2, PTL DEF ServicesSpec, Batches!PositionSpec

----------------------------------------------------------------------------
(* SyncRounds: the flag, the watchdog and the pause                         *)

\* The clock alone.  While the flag is set the last round began when it was
\* set; once it is not, the cron serves the next period without a pause.
ClockInv ==
    /\ running \in BOOLEAN /\ due \in BOOLEAN
    /\ startedAt \in 0..(Watchdog + 1)
    /\ paused \in 0..Pause
    /\ unserved \in Nat
    /\ running => unserved <= startedAt
    /\ running /\ startedAt > Watchdog => due
    /\ ~running => unserved <= Watchdog + 1
    /\ ~running /\ ~due /\ paused = 0 => unserved <= Watchdog

\* How any step moves the clock, whatever the rounds do.
ClockMoves ==
    \/ Sync!Period
    \/ Sync!CronFires
    \/ /\ running' \in {running, FALSE} /\ paused' \in {paused, Pause}
       /\ UNCHANGED <<startedAt, due, unserved>>

\* Only the cron and time set the flag, the clock or the pause to anything else.
LEMMA SyncMovesClock == [Sync!SyncNext]_(Sync!syncVars) => ClockMoves
<1>1. CASE UNCHANGED Sync!syncVars
  BY <1>1 DEF ClockMoves, Sync!syncVars
<1>2. CASE Sync!Period \/ Sync!CronFires
  BY <1>2 DEF ClockMoves
<1>3. CASE Sync!ManualFires \/ \E p \in Reconciled : Sync!Closes(p) \/ Sync!Unguarded(p)
  BY <1>3 DEF ClockMoves, Sync!ManualFires, Sync!Closes, Sync!Unguarded, Sync!clock
<1>4. ASSUME NEW r \in Rounds,
             \/ Sync!RoundHangs(r) \/ Sync!RoundReads(r) \/ Sync!RoundLists(r)
             \/ Sync!RoundPlans(r) \/ Sync!RoundRefreshes(r) \/ Sync!RoundEnds(r)
      PROVE  ClockMoves
  BY <1>4 DEF ClockMoves, Sync!RoundHangs, Sync!RoundReads, Sync!RoundLists,
     Sync!RoundPlans, Sync!RoundRefreshes, Sync!RoundEnds, Sync!Ends, Sync!Fails,
     Sync!clock
<1>5. ASSUME NEW r \in Rounds, NEW p \in Reconciled,
             \/ Sync!RoundAsks(r, p) \/ Sync!RoundApplies(r, p)
             \/ Sync!RoundApplyFails(r, p)
      PROVE  ClockMoves
  BY <1>5 DEF ClockMoves, Sync!RoundAsks, Sync!RoundApplies, Sync!RoundApplyFails,
     Sync!Fails, Sync!clock
<1> QED
  BY <1>1, <1>2, <1>3, <1>4, <1>5 DEF Sync!SyncNext

\* A step of the clock keeps what is said of it.
LEMMA ClockStep ==
  ASSUME Watchdog \in Nat, Pause \in Nat, ClockInv, ClockMoves
  PROVE  ClockInv'
<1> DEFINE type == /\ startedAt \in 0..(Watchdog + 1) /\ paused \in 0..Pause
                   /\ unserved \in Nat
<1>0. type
  BY DEF ClockInv
<1>1. CASE Sync!Period
  <2>1. /\ ~due /\ due' = TRUE /\ running' = running
        /\ startedAt' = IF startedAt + 1 < Watchdog + 1 THEN startedAt + 1 ELSE Watchdog + 1
        /\ paused' = IF paused > 0 THEN paused - 1 ELSE 0
        /\ unserved' = IF paused > 0 THEN unserved
                       ELSE IF unserved + 1 < Watchdog + 3 THEN unserved + 1 ELSE Watchdog + 3
    BY <1>1 DEF Sync!Period, Sync!Min2
  <2>2. type'
    BY <1>0, <2>1, SMT
  <2>3. ASSUME running PROVE unserved' <= startedAt'
    <3>1. unserved <= startedAt /\ startedAt <= Watchdog
      BY <2>1, <2>3, <1>0 DEF ClockInv
    <3> QED
      BY <3>1, <2>1, <1>0, SMT
  <2>4. ASSUME ~running PROVE unserved' <= Watchdog + 1
    <3>1. unserved <= Watchdog + 1 /\ (paused = 0 => unserved <= Watchdog)
      BY <2>1, <2>4 DEF ClockInv
    <3> QED
      BY <3>1, <2>1, <1>0, SMT
  <2> QED
    BY <2>1, <2>2, <2>3, <2>4 DEF ClockInv
<1>2. CASE Sync!CronFires
  <2>1. /\ due /\ due' = FALSE /\ paused' = paused
    BY <1>2 DEF Sync!CronFires
  <2>2. CASE /\ (running /\ ~Sync!Stuck) \/ paused > 0
             /\ running' = (running /\ ~Sync!Stuck)
             /\ startedAt' = startedAt /\ unserved' = unserved
    <3>1. running' \in BOOLEAN /\ (running' => running /\ ~(startedAt > Watchdog))
      BY <2>2 DEF Sync!Stuck, ClockInv
    <3>2. unserved <= Watchdog + 1
      <4>1. running => unserved <= startedAt
        BY DEF ClockInv
      <4>2. ~running => unserved <= Watchdog + 1
        BY DEF ClockInv
      <4> QED
        BY <4>1, <4>2, <1>0, SMT
    <3>3. ~running' => paused # 0
      <4>1. ~running' => paused > 0
        BY <2>2
      <4> QED
        BY <4>1, <1>0
    <3> QED
      BY <2>1, <2>2, <3>1, <3>2, <3>3 DEF ClockInv
  <2>3. CASE running' = TRUE /\ startedAt' = 0 /\ unserved' = 0
    <3>1. type' /\ running' /\ running' \in BOOLEAN /\ due' \in BOOLEAN
      <4>1. type'
        BY <2>1, <2>3, <1>0, SMT
      <4>2. running' /\ running' \in BOOLEAN /\ due' \in BOOLEAN
        BY <2>1, <2>3, Zenon
      <4> QED
        BY <4>1, <4>2
    <3>2. unserved' <= startedAt' /\ ~(startedAt' > Watchdog)
      BY <2>3, SMT
    <3> QED
      BY <3>1, <3>2, Zenon DEF ClockInv
  <2> QED
    BY <1>2, <2>2, <2>3 DEF Sync!CronFires
<1>3. CASE /\ running' \in {running, FALSE} /\ paused' \in {paused, Pause}
           /\ UNCHANGED <<startedAt, due, unserved>>
  <2>1. ~running' /\ running => unserved <= Watchdog + 1 /\ (~due => unserved <= Watchdog)
    <3>1. running => unserved <= startedAt /\ (~due => ~(startedAt > Watchdog))
      BY DEF ClockInv
    <3> QED
      BY <3>1, <1>0, SMT
  <2>2. paused' = 0 => paused = 0
    BY <1>3, <1>0, SMT
  <2>3. paused' \in 0..Pause
    BY <1>3, <1>0, SMT
  <2>4. running' \in BOOLEAN /\ (running' => running)
    <3>1. running \in BOOLEAN
      BY DEF ClockInv
    <3>2. running' = running \/ running' = FALSE
      BY <1>3
    <3>3. CASE running' = running
      BY <3>1, <3>3, Zenon
    <3>4. CASE running' = FALSE
      BY <3>4, Zenon
    <3> QED
      BY <3>2, <3>3, <3>4
  <2> QED
    BY <1>3, <1>0, <2>1, <2>2, <2>3, <2>4 DEF ClockInv
<1> QED
  BY <1>1, <1>2, <1>3 DEF ClockMoves

----------------------------------------------------------------------------
(* SyncRounds: what the rounds in flight know                               *)

\* The record of a round; how many positions it may close is not limited here.
Busy ==
    [at : {"read", "books", "contracts", "plan", "apply", "refresh"}, cron : BOOLEAN,
     rows : SUBSET Reconciled, booked : SUBSET Reconciled, asked : SUBSET Reconciled,
     seen : SUBSET Reconciled, answered : BOOLEAN, synced : Nat]
RoundKinds == {Sync!IdleRound} \cup Busy

RoundsTyped ==
    /\ round \in [Rounds -> RoundKinds]
    /\ openRow \subseteq Reconciled /\ held \subseteq Reconciled /\ orders \subseteq Reconciled

\* One account fails with the other, or there is only one.
AllOrNone == ~PartialFaults \/ \A p, q \in Reconciled : p = q

\* Then what is neither still to be asked for nor seen is not held, once an account
\* has answered, and neither is what a round is to close.
Knows(here) ==
    AllOrNone =>
       /\ here.at \in {"read", "books"} => ~here.answered /\ here.asked = Reconciled
       /\ here.at = "contracts" => (here.answered <=> here.asked # Reconciled)
       /\ here.at = "plan" => here.asked = {}
       /\ here.at \in {"contracts", "plan"} /\ here.answered =>
             held \subseteq here.asked \cup here.seen
       /\ here.at \in {"apply", "refresh"} => here.rows \cap held = {}

KnowsInv ==
    /\ RoundsTyped
    /\ \A r \in Rounds : Knows(round[r])
    /\ AllOrNone => notGone = {}

\* One round that keeps what it must know is enough.
LEMMA KnowsStep ==
  ASSUME KnowsInv, NEW r \in Rounds, NEW next \in RoundKinds,
         round' = [round EXCEPT ![r] = next], Knows(next),
         UNCHANGED <<held, orders>>, openRow' \subseteq openRow, AllOrNone => notGone' = {}
  PROVE  KnowsInv'
<1>1. RoundsTyped'
  BY SMT DEF KnowsInv, RoundsTyped
<1>2. ASSUME NEW q \in Rounds PROVE Knows(round[q])'
  <2>1. round'[q] \in {round[q], next}
    BY SMT DEF KnowsInv, RoundsTyped
  <2>2. Knows(round'[q])
    BY <2>1 DEF KnowsInv
  <2> QED
    BY <2>2 DEF Knows
<1> QED
  BY <1>1, <1>2 DEF KnowsInv

\* A round that is not idle is a record of one kind.
LEMMA BusyRounds == \A here \in RoundKinds : here.at # "idle" => here \in Busy
  BY DEF RoundKinds, Sync!IdleRound

\* A new round, and one that is over, know nothing.
LEMMA BlankRounds ==
  ASSUME NEW cron \in BOOLEAN
  PROVE  /\ Sync!Fresh(cron) \in RoundKinds /\ Knows(Sync!Fresh(cron))
         /\ Sync!Fresh(cron).cron = cron /\ Sync!Fresh(cron).at = "read"
         /\ Sync!IdleRound \in RoundKinds /\ Knows(Sync!IdleRound)
         /\ Sync!IdleRound.at = "idle"
<1>1. Sync!Fresh(cron) \in RoundKinds
  BY SMT DEF RoundKinds, Busy, Sync!Fresh
<1>2. Knows(Sync!Fresh(cron)) /\ Sync!Fresh(cron).cron = cron /\ Sync!Fresh(cron).at = "read"
  BY SMT DEF Knows, Sync!Fresh
<1>3. Sync!IdleRound \in RoundKinds /\ Sync!IdleRound.at = "idle"
  BY DEF RoundKinds, Sync!IdleRound
<1>4. Knows(Sync!IdleRound)
  BY <1>3 DEF Knows
<1> QED
  BY <1>1, <1>2, <1>3, <1>4

\* Cron rounds only end; a cron round that ends by itself clears the flag.
Counts ==
    /\ resets' = resets
    /\ \/ Sync!CronRounds' \subseteq Sync!CronRounds /\ running' = running
       \/ \E r \in Sync!CronRounds :
             Sync!CronRounds' \subseteq Sync!CronRounds \ {r} /\ running' = FALSE

\* A step of one round that is none of a new round.
LEMMA FlagStep ==
  ASSUME RoundsTyped, NEW r \in Rounds, NEW next,
         round' = [round EXCEPT ![r] = next],
         next.at = "idle" \/ (round[r].at # "idle" /\ next.cron = round[r].cron)
  PROVE  /\ Sync!CronRounds' \subseteq Sync!CronRounds
         /\ next.at = "idle" => Sync!CronRounds' \subseteq Sync!CronRounds \ {r}
<1>1. \A q \in Rounds : round'[q] = IF q = r THEN next ELSE round[q]
  BY SMT DEF RoundsTyped
<1> QED
  BY <1>1 DEF Sync!CronRounds

\* The end of a round.
LEMMA EndStep ==
  ASSUME KnowsInv, NEW r \in Rounds, round[r].at # "idle", Sync!Ends(r),
         UNCHANGED <<resets, held, orders, openRow, notGone>>
  PROVE  KnowsInv' /\ Counts
<1>1. Sync!IdleRound \in RoundKinds /\ Knows(Sync!IdleRound) /\ Sync!IdleRound.at = "idle"
  BY BlankRounds
<1>2. round' = [round EXCEPT ![r] = Sync!IdleRound]
  BY DEF Sync!Ends, Sync!RoundGoto
<1>3. KnowsInv'
  BY <1>1, <1>2, KnowsStep DEF KnowsInv
<1>4. Sync!CronRounds' \subseteq Sync!CronRounds \ {r}
  BY <1>1, <1>2, FlagStep DEF KnowsInv
<1>5. CASE round[r].cron
  <2>1. r \in Sync!CronRounds /\ running' = FALSE
    BY <1>5 DEF Sync!CronRounds, Sync!Ends
  <2> QED
    BY <1>3, <1>4, <2>1 DEF Counts
<1>6. CASE ~round[r].cron
  <2>1. running' = running
    BY <1>6 DEF Sync!Ends
  <2> QED
    BY <1>3, <1>4, <2>1 DEF Counts
<1> QED
  BY <1>5, <1>6

\* A step of a round that goes on.
LEMMA GoOnStep ==
  ASSUME KnowsInv, NEW r \in Rounds, round[r].at # "idle",
         NEW next \in RoundKinds, Sync!RoundGoto(r, next),
         next.cron = round[r].cron, Knows(next),
         UNCHANGED <<running, resets, held, orders>>,
         openRow' \subseteq openRow, AllOrNone => notGone' = {}
  PROVE  KnowsInv' /\ Counts
<1>1. round' = [round EXCEPT ![r] = next]
  BY DEF Sync!RoundGoto
<1>2. KnowsInv'
  BY <1>1, KnowsStep
<1>3. Sync!CronRounds' \subseteq Sync!CronRounds
  BY <1>1, FlagStep DEF KnowsInv
<1> QED
  BY <1>2, <1>3 DEF Counts

\* Every action of a round keeps both.
LEMMA RoundStep ==
  ASSUME KnowsInv, NEW r \in Rounds,
         \/ Sync!RoundHangs(r) \/ Sync!RoundReads(r) \/ Sync!RoundLists(r)
         \/ Sync!RoundPlans(r) \/ Sync!RoundRefreshes(r) \/ Sync!RoundEnds(r)
  PROVE  KnowsInv' /\ Counts
<1>0. round[r] \in RoundKinds /\ Knows(round[r]) /\ (AllOrNone => notGone = {})
  BY DEF KnowsInv, RoundsTyped
<1>1. CASE Sync!RoundHangs(r)
  <2>1. /\ round' = [round EXCEPT ![r] = Sync!IdleRound] /\ round[r].at # "idle"
        /\ UNCHANGED <<running, resets, held, orders, openRow, notGone>>
    BY <1>1 DEF Sync!RoundHangs, Sync!RoundGoto, Sync!clock, Sync!venue, Sync!records
  <2>2. Sync!IdleRound \in RoundKinds /\ Knows(Sync!IdleRound) /\ Sync!IdleRound.at = "idle"
    BY BlankRounds
  <2>3. KnowsInv'
    BY <2>1, <2>2, <1>0, KnowsStep
  <2>4. Sync!CronRounds' \subseteq Sync!CronRounds
    BY <2>1, <2>2, FlagStep DEF KnowsInv
  <2> QED
    BY <2>1, <2>3, <2>4 DEF Counts
<1>2. CASE Sync!RoundReads(r)
  <2>1. /\ round[r].at = "read"
        /\ UNCHANGED <<resets, held, orders, openRow, notGone>>
        /\ \/ Sync!Ends(r)
           \/ /\ Sync!RoundGoto(r, [round[r] EXCEPT !.at = "books", !.rows = openRow])
              /\ running' = running
    BY <1>2 DEF Sync!RoundReads, Sync!venue, Sync!records
  <2>2. CASE Sync!Ends(r)
    BY <2>1, <2>2, EndStep
  <2>3. CASE /\ Sync!RoundGoto(r, [round[r] EXCEPT !.at = "books", !.rows = openRow])
             /\ running' = running
    <3> PICK q \in Busy : q = round[r]
      BY <1>0, <2>1, BusyRounds
    <3> DEFINE next == [q EXCEPT !.at = "books", !.rows = openRow]
    <3>1. openRow \in SUBSET Reconciled
      BY DEF KnowsInv, RoundsTyped
    <3>2. next \in Busy
      BY <3>1 DEF Busy
    <3>3. /\ next.cron = q.cron /\ next.at = "books"
          /\ next.answered = q.answered /\ next.asked = q.asked
      BY DEF Busy
    <3>4. Knows(next)
      <4>1. Knows(q) /\ q.at = "read"
        BY <1>0, <2>1
      <4> HIDE DEF next
      <4> QED
        BY <4>1, <3>3 DEF Knows
    <3>5. next \in RoundKinds
      BY <3>2 DEF RoundKinds
    <3>6. Sync!RoundGoto(r, next)
      BY <2>3
    <3> HIDE DEF next
    <3> QED
      BY <2>1, <2>3, <3>3, <3>4, <3>5, <3>6, <1>0, GoOnStep
  <2> QED
    BY <2>1, <2>2, <2>3
<1>3. CASE Sync!RoundLists(r)
  <2>1. /\ round[r].at = "books"
        /\ UNCHANGED <<resets, held, orders, openRow, notGone>>
        /\ \/ Sync!Ends(r)
           \/ /\ Sync!RoundGoto(r, [round[r] EXCEPT !.at = "contracts", !.booked = orders])
              /\ running' = running
    BY <1>3 DEF Sync!RoundLists, Sync!venue, Sync!records
  <2>2. CASE Sync!Ends(r)
    BY <2>1, <2>2, EndStep
  <2>3. CASE /\ Sync!RoundGoto(r, [round[r] EXCEPT !.at = "contracts", !.booked = orders])
             /\ running' = running
    <3> PICK q \in Busy : q = round[r]
      BY <1>0, <2>1, BusyRounds
    <3> DEFINE next == [q EXCEPT !.at = "contracts", !.booked = orders]
    <3>1. orders \in SUBSET Reconciled
      BY DEF KnowsInv, RoundsTyped
    <3>2. next \in Busy
      BY <3>1 DEF Busy
    <3>3. /\ next.cron = q.cron /\ next.at = "contracts"
          /\ next.answered = q.answered /\ next.asked = q.asked
      BY DEF Busy
    <3>4. Knows(next)
      <4>1. Knows(q) /\ q.at = "books"
        BY <1>0, <2>1
      <4> HIDE DEF next
      <4> QED
        BY <4>1, <3>3 DEF Knows
    <3>5. next \in RoundKinds
      BY <3>2 DEF RoundKinds
    <3>6. Sync!RoundGoto(r, next)
      BY <2>3
    <3> HIDE DEF next
    <3> QED
      BY <2>1, <2>3, <3>3, <3>4, <3>5, <3>6, <1>0, GoOnStep
  <2> QED
    BY <2>1, <2>2, <2>3
<1>4. CASE Sync!RoundPlans(r)
  <2>1. /\ round[r].at = "plan"
        /\ Sync!RoundGoto(r, [Sync!Fresh(round[r].cron) EXCEPT !.at = "apply",
                                !.rows = Sync!ToClose(round[r])])
        /\ UNCHANGED <<running, resets, held, orders, openRow, notGone>>
    BY <1>4 DEF Sync!RoundPlans, Sync!clock, Sync!venue, Sync!records
  <2> PICK q \in Busy : q = round[r]
    BY <1>0, <2>1, BusyRounds
  <2>2. q.rows \subseteq Reconciled /\ q.asked \subseteq Reconciled /\ q.cron \in BOOLEAN
    BY DEF Busy
  <2>3. Sync!ToClose(q) \in SUBSET Reconciled
    BY <2>2 DEF Sync!ToClose
  <2>4. AllOrNone => Sync!ToClose(q) \cap held = {}
    <3>1. AllOrNone => q.asked = {} /\ (q.answered => held \subseteq q.asked \cup q.seen)
      BY <1>0, <2>1 DEF Knows
    <3> QED
      BY <3>1 DEF Sync!ToClose
  <2> PICK f \in Busy : f = Sync!Fresh(q.cron) /\ f.cron = q.cron
    BY <2>2, BlankRounds, BusyRounds
  <2> DEFINE next == [f EXCEPT !.at = "apply", !.rows = Sync!ToClose(q)]
  <2>5. next \in Busy
    BY <2>3 DEF Busy
  <2>6. next.cron = q.cron /\ next.at = "apply" /\ next.rows = Sync!ToClose(q)
    BY DEF Busy
  <2>7. Sync!RoundGoto(r, next)
    BY <2>1
  <2> HIDE DEF next
  <2>8. Knows(next) /\ next \in RoundKinds
    BY <2>4, <2>5, <2>6 DEF Knows, RoundKinds
  <2> QED
    BY <2>1, <2>6, <2>7, <2>8, <1>0, GoOnStep
<1>5. CASE Sync!RoundRefreshes(r)
  <2>1. /\ round[r].at = "refresh"
        /\ UNCHANGED <<resets, held, orders, openRow, notGone>>
        /\ \/ Sync!Ends(r)
           \/ /\ Sync!RoundGoto(r, [round[r] EXCEPT !.at = "apply"])
              /\ running' = running
    BY <1>5 DEF Sync!RoundRefreshes, Sync!venue, Sync!records
  <2>2. CASE Sync!Ends(r)
    BY <2>1, <2>2, EndStep
  <2>3. CASE /\ Sync!RoundGoto(r, [round[r] EXCEPT !.at = "apply"])
             /\ running' = running
    <3> PICK q \in Busy : q = round[r]
      BY <1>0, <2>1, BusyRounds
    <3> DEFINE next == [q EXCEPT !.at = "apply"]
    <3>1. next \in Busy
      BY DEF Busy
    <3>2. next.cron = q.cron /\ next.at = "apply" /\ next.rows = q.rows
      BY DEF Busy
    <3>3. Sync!RoundGoto(r, next)
      BY <2>3
    <3> HIDE DEF next
    <3>4. Knows(next) /\ next \in RoundKinds
      BY <1>0, <2>1, <3>1, <3>2 DEF Knows, RoundKinds
    <3> QED
      BY <2>1, <2>3, <3>2, <3>3, <3>4, <1>0, GoOnStep
  <2> QED
    BY <2>1, <2>2, <2>3
<1>6. CASE Sync!RoundEnds(r)
  <2>1. /\ round[r].at = "apply" /\ Sync!Ends(r)
        /\ UNCHANGED <<resets, held, orders, openRow, notGone>>
    BY <1>6 DEF Sync!RoundEnds, Sync!venue, Sync!records
  <2> QED
    BY <2>1, EndStep
<1> QED
  BY <1>1, <1>2, <1>3, <1>4, <1>5, <1>6

\* Asking one account, or being refused by both.
LEMMA AskStep ==
  ASSUME KnowsInv, NEW r \in Rounds, NEW p \in Reconciled, Sync!RoundAsks(r, p)
  PROVE  KnowsInv' /\ Counts
<1>1. /\ round[r].at = "contracts" /\ p \in round[r].asked
      /\ UNCHANGED <<running, resets, held, orders, openRow, notGone>>
  BY DEF Sync!RoundAsks, Sync!clock, Sync!venue, Sync!records
<1>2. round[r] \in RoundKinds /\ Knows(round[r]) /\ (AllOrNone => notGone = {}) /\ held \subseteq Reconciled
  BY DEF KnowsInv, RoundsTyped
<1> PICK q \in Busy : q = round[r]
  BY <1>1, <1>2, BusyRounds
<1>3. /\ q.asked \in SUBSET Reconciled /\ q.seen \in SUBSET Reconciled
      /\ q.cron \in BOOLEAN /\ q.answered \in BOOLEAN
  BY DEF Busy
<1>4. /\ p \in q.asked
      /\ AllOrNone =>
            /\ q.answered <=> q.asked # Reconciled
            /\ q.answered => held \subseteq q.asked \cup q.seen
  BY <1>1, <1>2 DEF Knows
<1>5. ASSUME NEW accounts \in SUBSET Reconciled, NEW found \in SUBSET Reconciled,
             NEW ok \in BOOLEAN, Sync!Asked(r, accounts, found, ok),
             AllOrNone => /\ q.asked \ accounts # {} => (ok <=> q.asked \ accounts # Reconciled)
                          /\ ok => held \subseteq (q.asked \ accounts) \cup q.seen \cup found
      PROVE  KnowsInv' /\ Counts
  <2> DEFINE rest == q.asked \ accounts
             next == [q EXCEPT !.asked = rest, !.seen = @ \cup found, !.answered = ok,
                               !.at = IF rest = {} THEN "plan" ELSE "contracts"]
  <2>1. next \in Busy
    BY <1>3 DEF Busy
  <2>2. /\ next.cron = q.cron /\ next.at = IF rest = {} THEN "plan" ELSE "contracts"
        /\ next.asked = rest /\ next.seen = q.seen \cup found /\ next.answered = ok
    BY DEF Busy
  <2>3. Sync!RoundGoto(r, next)
    BY <1>5 DEF Sync!Asked
  <2> HIDE DEF next
  <2>4. Knows(next) /\ next \in RoundKinds
    BY <1>5, <2>1, <2>2 DEF Knows, RoundKinds
  <2> QED
    BY <1>1, <1>2, <2>2, <2>3, <2>4, GoOnStep
<1>6. CASE Sync!Asked(r, {p}, held \cap {p}, TRUE)
  BY <1>2, <1>3, <1>4, <1>5, <1>6
<1>7. CASE PartialFaults /\ Sync!Asked(r, {p}, {}, q.answered)
  <2>1. AllOrNone => Reconciled = {p}
    BY <1>7 DEF AllOrNone
  <2> QED
    BY <1>3, <1>4, <1>5, <1>7, <2>1
<1>8. CASE q.asked = Reconciled /\ Sync!Asked(r, Reconciled, {}, FALSE)
  BY <1>3, <1>4, <1>5, <1>8
<1> QED
  BY <1>6, <1>7, <1>8 DEF Sync!RoundAsks

\* Closing one position, or failing to.
LEMMA ApplyStep ==
  ASSUME KnowsInv, NEW r \in Rounds, NEW p \in Reconciled,
         Sync!RoundApplies(r, p) \/ Sync!RoundApplyFails(r, p)
  PROVE  KnowsInv' /\ Counts
<1>1. /\ round[r].at = "apply" /\ p \in round[r].rows
      /\ UNCHANGED <<running, resets, held, orders>> /\ openRow' \subseteq openRow
  BY DEF Sync!RoundApplies, Sync!RoundApplyFails, Sync!clock, Sync!venue, Sync!records
<1>2. round[r] \in RoundKinds /\ Knows(round[r]) /\ (AllOrNone => notGone = {})
  BY DEF KnowsInv, RoundsTyped
<1> PICK q \in Busy : q = round[r]
  BY <1>1, <1>2, BusyRounds
<1>3. /\ q.rows \in SUBSET Reconciled /\ q.synced \in Nat /\ q.cron \in BOOLEAN
      /\ AllOrNone => q.rows \cap held = {} /\ p \notin held
  BY <1>1, <1>2 DEF Busy, Knows
<1>4. AllOrNone => notGone' = {}
  BY <1>2, <1>3 DEF Sync!RoundApplies, Sync!RoundApplyFails, Sync!records
<1>5. CASE Sync!RoundApplies(r, p)
  <2> DEFINE n == q.synced + (IF p \in openRow THEN 1 ELSE 0)
             at == IF p \in openRow /\ n % RefreshEvery = 0 THEN "refresh" ELSE "apply"
             next == [q EXCEPT !.rows = @ \ {p}, !.synced = n, !.at = at]
  <2>1. n \in Nat /\ at \in {"apply", "refresh"}
    BY <1>3
  <2>2. next \in Busy
    BY <1>3, <2>1 DEF Busy
  <2>3. next.cron = q.cron /\ next.at = at /\ next.rows = q.rows \ {p}
    BY DEF Busy
  <2>4. Sync!RoundGoto(r, next)
    BY <1>5 DEF Sync!RoundApplies
  <2> HIDE DEF next
  <2>5. Knows(next) /\ next \in RoundKinds
    BY <1>3, <2>1, <2>2, <2>3 DEF Knows, RoundKinds
  <2> QED
    BY <1>1, <1>2, <1>4, <2>3, <2>4, <2>5, GoOnStep
<1>6. CASE Sync!RoundApplyFails(r, p)
  <2> DEFINE next == [q EXCEPT !.rows = @ \ {p}]
  <2>1. next \in Busy
    BY <1>3 DEF Busy
  <2>2. next.cron = q.cron /\ next.at = "apply" /\ next.rows = q.rows \ {p}
    BY <1>1 DEF Busy
  <2>3. Sync!RoundGoto(r, next)
    BY <1>6 DEF Sync!RoundApplyFails
  <2> HIDE DEF next
  <2>4. Knows(next) /\ next \in RoundKinds
    BY <1>3, <2>1, <2>2 DEF Knows, RoundKinds
  <2> QED
    BY <1>1, <1>2, <1>4, <2>2, <2>3, <2>4, GoOnStep
<1> QED
  BY <1>5, <1>6

\* A round begins.
LEMMA BeginStep ==
  ASSUME KnowsInv, NEW cron \in BOOLEAN, Sync!Begin(cron),
         UNCHANGED <<held, orders, openRow, notGone>>
  PROVE  /\ KnowsInv'
         /\ \E r \in Rounds : Sync!CronRounds' \subseteq Sync!CronRounds \cup {r}
         /\ ~cron => Sync!CronRounds' \subseteq Sync!CronRounds
<1> DEFINE next == Sync!Fresh(cron)
<1>1. PICK r \in Rounds : round[r] = Sync!IdleRound /\ Sync!RoundGoto(r, next)
  BY DEF Sync!Begin
<1>2. next \in RoundKinds /\ Knows(next) /\ next.cron = cron
  BY BlankRounds
<1> HIDE DEF next
<1>3. round' = [round EXCEPT ![r] = next]
  BY <1>1 DEF Sync!RoundGoto
<1>4. KnowsInv'
  BY <1>2, <1>3, KnowsStep DEF KnowsInv
<1>5. \A q \in Rounds : round'[q] = IF q = r THEN next ELSE round[q]
  BY <1>3, SMT DEF KnowsInv, RoundsTyped
<1>6. Sync!CronRounds' \subseteq Sync!CronRounds \cup {r}
  BY <1>5 DEF Sync!CronRounds
<1>7. ~cron => Sync!CronRounds' \subseteq Sync!CronRounds
  BY <1>5, <1>2 DEF Sync!CronRounds
<1> QED
  BY <1>4, <1>6, <1>7

\* The exchange, and time, leave the rounds alone.
LEMMA OutsideStep ==
  ASSUME KnowsInv,
         \/ Sync!Period
         \/ \E p \in Reconciled : Sync!Closes(p) \/ Sync!Unguarded(p)
         \/ UNCHANGED Sync!syncVars
  PROVE  KnowsInv' /\ Counts
<1>1. /\ UNCHANGED <<round, openRow, notGone, running, resets>>
      /\ held' \subseteq held /\ orders' \subseteq orders
  BY DEF Sync!Period, Sync!Closes, Sync!Unguarded, Sync!syncVars, Sync!clock,
         Sync!venue, Sync!records
<1>2. RoundsTyped' /\ (AllOrNone => notGone' = {})
  BY <1>1 DEF KnowsInv, RoundsTyped
<1>3. \A r \in Rounds : Knows(round[r])'
  BY <1>1 DEF KnowsInv, Knows
<1>4. Sync!CronRounds' = Sync!CronRounds
  BY <1>1 DEF Sync!CronRounds
<1> QED
  BY <1>1, <1>2, <1>3, <1>4 DEF KnowsInv, Counts

\* Any step but the firing of the cron only ends rounds.
LEMMA SyncStep ==
  ASSUME KnowsInv, [Sync!SyncNext]_(Sync!syncVars)
  PROVE  KnowsInv' /\ (Counts \/ Sync!CronFires)
<1>1. CASE UNCHANGED Sync!syncVars \/ Sync!Period
             \/ \E p \in Reconciled : Sync!Closes(p) \/ Sync!Unguarded(p)
  BY <1>1, OutsideStep
<1>2. CASE Sync!CronFires
  <2>1. UNCHANGED <<held, orders, openRow, notGone>>
    BY <1>2 DEF Sync!CronFires, Sync!venue, Sync!records
  <2>2. CASE Sync!Begin(TRUE)
    BY <1>2, <2>1, <2>2, BeginStep
  <2>3. CASE UNCHANGED round
    BY <1>2, <2>1, <2>3 DEF KnowsInv, RoundsTyped, Knows
  <2> QED
    BY <1>2, <2>2, <2>3 DEF Sync!CronFires
<1>3. CASE Sync!ManualFires
  <2>1. Sync!Begin(FALSE) /\ UNCHANGED <<running, resets, held, orders, openRow, notGone>>
    BY <1>3 DEF Sync!ManualFires, Sync!clock, Sync!venue, Sync!records
  <2>2. KnowsInv' /\ Sync!CronRounds' \subseteq Sync!CronRounds
    BY <2>1, BeginStep
  <2> QED
    BY <2>1, <2>2 DEF Counts
<1>4. ASSUME NEW r \in Rounds,
             \/ Sync!RoundHangs(r) \/ Sync!RoundReads(r) \/ Sync!RoundLists(r)
             \/ Sync!RoundPlans(r) \/ Sync!RoundRefreshes(r) \/ Sync!RoundEnds(r)
      PROVE  KnowsInv' /\ Counts
  BY <1>4, RoundStep
<1>5. ASSUME NEW r \in Rounds, NEW p \in Reconciled,
             \/ Sync!RoundAsks(r, p) \/ Sync!RoundApplies(r, p)
             \/ Sync!RoundApplyFails(r, p)
      PROVE  KnowsInv' /\ Counts
  BY <1>5, AskStep, ApplyStep
<1> QED
  BY <1>1, <1>2, <1>3, <1>4, <1>5 DEF Sync!SyncNext

\* At first no round is in flight.
LEMMA SyncBegins ==
  Sync!SyncInit => KnowsInv /\ Sync!CronRounds = {} /\ resets = 0 /\ running \in BOOLEAN
<1> SUFFICES ASSUME Sync!SyncInit
             PROVE  KnowsInv /\ Sync!CronRounds = {} /\ resets = 0 /\ running \in BOOLEAN
  OBVIOUS
<1>1. Sync!IdleRound \in RoundKinds /\ Knows(Sync!IdleRound) /\ Sync!IdleRound.at = "idle"
  BY BlankRounds
<1>2. round \in [Rounds -> RoundKinds] /\ \A r \in Rounds : round[r] = Sync!IdleRound
  BY <1>1 DEF Sync!SyncInit
<1>3. KnowsInv
  BY <1>1, <1>2 DEF KnowsInv, RoundsTyped, Sync!SyncInit
<1>4. Sync!CronRounds = {}
  BY <1>1, <1>2 DEF Sync!CronRounds
<1> QED
  BY <1>3, <1>4 DEF Sync!SyncInit

\* The rounds are finitely many, and the flag is one.
OverlapInv ==
    /\ running \in BOOLEAN /\ resets \in 0..Cardinality(Rounds)
    /\ Sync!OverlapIsBounded

Flag(b) == IF b THEN 1 ELSE 0

\* The flag counts for one.
LEMMA FlagCounts ==
  \A b \in BOOLEAN : Flag(b) \in 0..1 /\ (b => Flag(b) = 1) /\ (~b => Flag(b) = 0)
  BY DEF Flag

\* The library's cardinality is the one that SyncRounds takes from it.
LEMMA SyncCardinality == \A S : Sync!Cardinality(S) = Cardinality(S)
  BY DEF Sync!Cardinality, Cardinality

\* A round more needs a flag that was not set, or one reset more.
LEMMA OverlapStep ==
  ASSUME IsFiniteSet(Rounds), KnowsInv, OverlapInv, [Sync!SyncNext]_(Sync!syncVars)
  PROVE  OverlapInv'
<1> DEFINE crons == Sync!CronRounds
           most == Cardinality(Rounds)
<1>0. /\ most \in Nat /\ running \in BOOLEAN /\ resets \in 0..most
      /\ crons \subseteq Rounds /\ crons' \subseteq Rounds
      /\ IsFiniteSet(crons) /\ IsFiniteSet(crons')
      /\ Cardinality(crons) \in Nat /\ Cardinality(crons') \in Nat
      /\ Flag(running) \in 0..1
  <2>1. crons \subseteq Rounds /\ crons' \subseteq Rounds
    BY DEF Sync!CronRounds
  <2>2. IsFiniteSet(crons) /\ IsFiniteSet(crons')
    BY <2>1, FS_Subset
  <2> HIDE DEF crons
  <2> QED
    BY <2>1, <2>2, FS_CardinalityType, FlagCounts DEF OverlapInv
<1>1. Cardinality(crons) <= Flag(running) + resets \/ resets = most
  <2>1. Sync!Cardinality(crons) = Cardinality(crons) /\ Sync!Cardinality(Rounds) = most
    BY SyncCardinality
  <2> QED
    BY <2>1, Zenon DEF OverlapInv, Sync!OverlapIsBounded, Flag
<1>2. SUFFICES /\ running' \in BOOLEAN /\ resets' \in 0..most
               /\ Cardinality(crons') <= Flag(running') + resets' \/ resets' = most
  <2>1. /\ Sync!Cardinality(crons') = Cardinality(crons')
        /\ Sync!Cardinality(Rounds) = most
    BY SyncCardinality
  <2> QED
    BY <2>1, Zenon DEF OverlapInv, Sync!OverlapIsBounded, Flag
<1>3. Counts \/ Sync!CronFires
  BY SyncStep
<1> HIDE DEF crons
<1>4. CASE Counts
  <2>1. resets' = resets
    BY <1>4 DEF Counts
  <2>2. CASE crons' \subseteq crons /\ running' = running
    <3>1. Cardinality(crons') <= Cardinality(crons)
      BY <1>0, <2>2, FS_Subset
    <3>2. Flag(running') = Flag(running)
      BY <2>2
    <3> QED
      BY <1>0, <1>1, <2>1, <2>2, <3>1, <3>2
  <2>3. ASSUME NEW r \in crons, crons' \subseteq crons \ {r}, running' = FALSE
        PROVE  /\ running' \in BOOLEAN /\ resets' \in 0..most
               /\ Cardinality(crons') <= Flag(running') + resets' \/ resets' = most
    <3>1. IsFiniteSet(crons \ {r}) /\ Cardinality(crons \ {r}) = Cardinality(crons) - 1
      BY <1>0, FS_RemoveElement
    <3>2. Cardinality(crons') <= Cardinality(crons) - 1
      BY <2>3, <3>1, FS_Subset
    <3>3. Flag(running') = 0 /\ Flag(running) \in 0..1 /\ running' \in BOOLEAN
      BY <1>0, <2>3, FlagCounts
    <3> QED
      BY <1>0, <1>1, <2>1, <3>2, <3>3
  <2> QED
    BY <1>4, <2>2, <2>3 DEF Counts, crons
<1>5. CASE Sync!CronFires
  <2> DEFINE stuck == Sync!Stuck
  <2>1. resets' = IF stuck THEN IF resets + 1 < most THEN resets + 1 ELSE most ELSE resets
    BY <1>5, SyncCardinality DEF Sync!CronFires, Sync!Min2
  <2>2. stuck => running
    BY DEF Sync!Stuck
  <2> HIDE DEF stuck
  <2>3. resets' \in 0..most /\ (stuck => resets' = resets + 1 \/ resets' = most)
    BY <1>0, <2>1
  <2>4. CASE /\ round' = round /\ running' = (running /\ ~stuck)
    <3>1. crons' = crons
      BY <2>4 DEF crons, Sync!CronRounds
    <3>2. running' \in BOOLEAN /\ (running' <=> running /\ ~stuck)
      BY <2>4, Zenon
    <3>3. stuck => Flag(running) = 1 /\ Flag(running') = 0
      BY <1>0, <2>2, <3>2, FlagCounts, Zenon
    <3>4. ~stuck => Flag(running') = Flag(running)
      BY <1>0, <3>2, FlagCounts, Zenon
    <3>5. Flag(running') \in 0..1
      BY <3>2, FlagCounts, Zenon
    <3> QED
      BY <1>0, <1>1, <2>1, <2>3, <3>1, <3>2, <3>3, <3>4, <3>5
  <2>5. CASE Sync!Begin(TRUE) /\ running' = TRUE /\ (~running \/ stuck)
    <3>1. UNCHANGED <<held, orders, openRow, notGone>>
      BY <1>5 DEF Sync!CronFires, Sync!venue, Sync!records
    <3>2. PICK r \in Rounds : crons' \subseteq crons \cup {r}
      BY <2>5, <3>1, BeginStep DEF crons
    <3>3. /\ IsFiniteSet(crons \cup {r})
          /\ Cardinality(crons \cup {r}) <= Cardinality(crons) + 1
          /\ Cardinality(crons \cup {r}) \in Nat
      <4>1. CASE r \in crons
        <5>1. crons \cup {r} = crons
          BY <4>1
        <5> QED
          BY <1>0, <5>1
      <4>2. CASE r \notin crons
        BY <4>2, <1>0, FS_AddElement
      <4> QED
        BY <4>1, <4>2
    <3>4. Cardinality(crons') <= Cardinality(crons) + 1
      <4>1. Cardinality(crons') <= Cardinality(crons \cup {r})
        BY <3>2, <3>3, FS_Subset
      <4> QED
        BY <4>1, <3>3, <1>0
    <3>5. running' \in BOOLEAN /\ Flag(running') = 1
      BY <2>5, FlagCounts, Zenon
    <3>6. ~running => Flag(running) = 0
      BY <1>0, FlagCounts, Zenon
    <3> QED
      BY <1>0, <1>1, <2>1, <2>3, <2>5, <3>4, <3>5, <3>6
  <2> QED
    BY <1>5, <2>4, <2>5 DEF Sync!CronFires, stuck
<1> QED
  BY <1>3, <1>4, <1>5

----------------------------------------------------------------------------
\* The clock, the flag and what the rounds know, together.
RoundsInv == ClockInv /\ KnowsInv /\ OverlapInv

\* Sync by itself.
LEMMA RoundsAlone ==
  ASSUME Watchdog \in Nat, Pause \in Nat, IsFiniteSet(Rounds)
  PROVE  Sync!SyncSpec => []RoundsInv
<1> USE DEF RoundsInv
<1>1. Sync!SyncInit => RoundsInv
  <2> SUFFICES ASSUME Sync!SyncInit PROVE RoundsInv
    OBVIOUS
  <2>1. ClockInv
    <3>1. /\ running = FALSE /\ due = TRUE
          /\ startedAt = 0 /\ paused = 0 /\ unserved = 0
      BY DEF Sync!SyncInit
    <3>2. /\ startedAt \in 0..(Watchdog + 1) /\ paused \in 0..Pause
          /\ unserved \in Nat /\ unserved <= Watchdog + 1
      BY <3>1
    <3> QED
      BY <3>1, <3>2, Zenon DEF ClockInv
  <2>2. KnowsInv /\ Sync!CronRounds = {} /\ resets = 0 /\ running \in BOOLEAN
    BY SyncBegins
  <2>3. Cardinality(Rounds) \in Nat /\ Cardinality({}) = 0
    BY FS_CardinalityType, FS_EmptySet
  <2>4. OverlapInv
    <3>1. Sync!Cardinality({}) = 0 /\ Sync!Cardinality(Rounds) = Cardinality(Rounds)
      BY <2>3, SyncCardinality
    <3>2. 0 <= Flag(running) + 0 /\ 0 \in 0..Cardinality(Rounds)
      BY <2>2, <2>3, FlagCounts
    <3> QED
      BY <2>2, <3>1, <3>2, Zenon DEF OverlapInv, Sync!OverlapIsBounded, Flag
  <2> QED
    BY <2>1, <2>2, <2>4
<1>2. RoundsInv /\ [Sync!SyncNext]_(Sync!syncVars) => RoundsInv'
  BY SyncMovesClock, ClockStep, SyncStep, OverlapStep
<1> HIDE DEF RoundsInv
<1> QED
  BY <1>1, <1>2, PTL DEF Sync!SyncSpec

\* Reconciliation neither stops for a round that hangs nor piles up, for any
\* number of rounds and any lengths of the watchdog and the pause.
THEOREM ReconciliationGoesOn == ServicesSpec => []RoundsGoOn
<1>1. Sync!SyncSpec => []RoundsInv
  BY ClockAssumption, RoundsAlone
<1>2. RoundsInv => Sync!RoundsGoOn
  <2> SUFFICES ASSUME RoundsInv PROVE Sync!RoundsGoOn
    OBVIOUS
  <2> USE DEF RoundsInv
  <2>1. unserved <= Watchdog + 1
    <3>1. startedAt \in 0..(Watchdog + 1) /\ unserved \in Nat
      BY DEF ClockInv
    <3>2. (running => unserved <= startedAt) /\ (~running => unserved <= Watchdog + 1)
      BY DEF ClockInv
    <3> QED
      BY <3>1, <3>2, ClockAssumption
  <2> QED
    BY <2>1 DEF OverlapInv, Sync!RoundsGoOn, Sync!SyncGoesOn
<1> QED
  BY <1>1, <1>2, RoundsRun, PTL DEF RoundsGoOn

\* Sync by itself.
LEMMA ClosingAlone ==
  ASSUME AllOrNone
  PROVE  Sync!SyncSpec => []Sync!ClosedMeansGone
<1>1. Sync!SyncInit => KnowsInv
  BY SyncBegins
<1>2. KnowsInv /\ [Sync!SyncNext]_(Sync!syncVars) => KnowsInv'
  BY SyncStep
<1>3. Sync!SyncSpec => []KnowsInv
  BY <1>1, <1>2, PTL DEF Sync!SyncSpec
<1>4. KnowsInv => Sync!ClosedMeansGone
  BY DEF KnowsInv, Sync!ClosedMeansGone
<1> QED
  BY <1>3, <1>4, PTL

\* A round closes only what is gone at the exchange, whatever triggers, hangs or
\* fails meanwhile, unless one account answers while another one fails.
THEOREM ClosingIsTrue ==
  ASSUME AllOrNone
  PROVE  ServicesSpec => []ClosedMeansGone
<1>1. Sync!SyncSpec => []Sync!ClosedMeansGone
  BY ClosingAlone
<1> QED
  BY <1>1, RoundsRun, PTL DEF ClosedMeansGone

----------------------------------------------------------------------------
(* MarketData                                                               *)

\* The price in memory may come from a fetch of any age and is judged by its age;
\* that in Redis has a life that ends before it is too old.
AudienceInv ==
    /\ watchers \in [Symbols -> SUBSET Browsers]
    /\ subscriptions \subseteq Symbols
    /\ Market!WatchedIsRefreshed

Reading == [at : {"redis", "send"}, symbol : Symbols, cached : Market!Ages \cup {None}]
Fetching == [at : {"fetch"}, symbol : Symbols, cached : Market!Ages \cup {None},
             age : 0..MaxLag]
Got == [at : {"got"}, age : Market!Ages, fallback : BOOLEAN]
AskOK(a) ==
    \/ a = Market!IdleAsk \/ a \in Reading \/ a \in Fetching
    \/ a \in Got /\ (a.fallback \/ a.age <= RedisTtl + MaxLag)

Kept == [age : Market!Ages, left : 1..RedisTtl]
RedisOK(p) == p = None \/ (p \in Kept /\ p.age + p.left <= RedisTtl + MaxLag)

PricesInv ==
    /\ priceMap \in [Symbols -> Market!Ages \cup {None}]
    /\ redis = [s \in Symbols |-> redis[s]] /\ \A s \in Symbols : RedisOK(redis[s])
    /\ flights \subseteq [symbol : Symbols, age : 0..MaxLag]
    /\ ask = [k \in Askers |-> ask[k]] /\ \A k \in Askers : AskOK(ask[k])

\* The lives of the keys, as in the code: the cache in memory is the shorter one.
LivesOK ==
    /\ CacheMaxAge \in Nat /\ RedisTtl \in Nat \ {0} /\ MaxLag \in Nat
    /\ CacheMaxAge <= RedisTtl

\* Leaving symbols keeps those that others watch.
LEMMA WithoutKeeps ==
  ASSUME AudienceInv, NEW b \in Browsers, NEW symbols \in SUBSET Symbols,
         Market!Without(b, symbols)
  PROVE  /\ watchers' \in [Symbols -> SUBSET Browsers]
         /\ subscriptions' \subseteq subscriptions
         /\ \A s \in Symbols :
               /\ watchers'[s] = IF s \in symbols THEN watchers[s] \ {b} ELSE watchers[s]
               /\ watchers'[s] # {} => s \in subscriptions'
               /\ s \in subscriptions' => watchers'[s] # {} \/ s \in monitored
  BY DEF AudienceInv, Market!WatchedIsRefreshed, Market!Without

\* Each step of the browsers and the monitor keeps the sets of symbols in order.
LEMMA AudienceStep ==
  ASSUME AudienceInv, OpenSymbols \subseteq Symbols,
         [Market!MarketNext]_(Market!marketVars)
  PROVE  AudienceInv'
<1>1. CASE UNCHANGED Market!audience
  BY <1>1 DEF AudienceInv, Market!WatchedIsRefreshed, Market!audience
<1>2. ASSUME NEW b \in Browsers, Market!Connect(b) PROVE AudienceInv'
  BY <1>2 DEF AudienceInv, Market!WatchedIsRefreshed, Market!Connect
<1>3. ASSUME NEW b \in Browsers, Market!Disconnect(b) PROVE AudienceInv'
  <2>1. Market!Without(b, Symbols) /\ monitored' = monitored /\ connected' = connected \ {b}
    BY <1>3 DEF Market!Disconnect
  <2>2. /\ watchers' \in [Symbols -> SUBSET Browsers]
        /\ subscriptions' \subseteq subscriptions
        /\ \A s \in Symbols :
              /\ watchers'[s] = IF s \in Symbols THEN watchers[s] \ {b} ELSE watchers[s]
              /\ watchers'[s] # {} => s \in subscriptions'
              /\ s \in subscriptions' => watchers'[s] # {} \/ s \in monitored
    BY <2>1, WithoutKeeps
  <2>3. \A s \in Symbols : watchers'[s] \subseteq connected'
    BY <2>1, <2>2 DEF AudienceInv, Market!WatchedIsRefreshed
  <2> QED
    BY <2>1, <2>2, <2>3 DEF AudienceInv, Market!WatchedIsRefreshed
<1>4. ASSUME NEW b \in Browsers, NEW s \in Symbols, Market!Unsubscribe(b, s)
      PROVE  AudienceInv'
  <2>1. Market!Without(b, {s}) /\ monitored' = monitored /\ connected' = connected
    BY <1>4 DEF Market!Unsubscribe
  <2>2. /\ watchers' \in [Symbols -> SUBSET Browsers]
        /\ subscriptions' \subseteq subscriptions
        /\ \A x \in Symbols :
              /\ watchers'[x] = IF x \in {s} THEN watchers[x] \ {b} ELSE watchers[x]
              /\ watchers'[x] # {} => x \in subscriptions'
              /\ x \in subscriptions' => watchers'[x] # {} \/ x \in monitored
    BY <2>1, WithoutKeeps
  <2>3. \A x \in Symbols : watchers'[x] \subseteq connected'
    BY <2>1, <2>2 DEF AudienceInv, Market!WatchedIsRefreshed
  <2> QED
    BY <2>1, <2>2, <2>3 DEF AudienceInv, Market!WatchedIsRefreshed
<1>5. ASSUME NEW b \in Browsers, NEW s \in Symbols, Market!Subscribe(b, s)
      PROVE  AudienceInv'
  BY <1>5 DEF AudienceInv, Market!WatchedIsRefreshed, Market!Subscribe
<1>6. CASE Market!SubscribeOpen
  BY <1>6 DEF AudienceInv, Market!WatchedIsRefreshed, Market!SubscribeOpen
<1>7. CASE Market!Tick \/ Market!RedisTurns \/ Market!Refresh
  BY <1>1, <1>7 DEF Market!Tick, Market!RedisTurns, Market!Refresh
<1>8. ASSUME NEW f \in flights, Market!RefreshArrives(f) \/ Market!RefreshFails(f)
      PROVE  AudienceInv'
  BY <1>1, <1>8 DEF Market!RefreshArrives, Market!RefreshFails
<1>9. ASSUME NEW k \in Askers,
             \/ \E s \in Symbols, ticker \in BOOLEAN : Market!Ask(k, s, ticker)
             \/ Market!AskRedis(k) \/ Market!AskSend(k) \/ Market!AskArrives(k)
             \/ Market!AskFails(k)
      PROVE  AudienceInv'
  BY <1>1, <1>9 DEF Market!Ask, Market!AskRedis, Market!AskSend, Market!AskArrives,
     Market!AskFails
<1> QED
  <2>1. CASE UNCHANGED Market!marketVars
    BY <1>1, <2>1 DEF Market!marketVars, Market!audience
  <2> QED
    BY <1>2, <1>3, <1>4, <1>5, <1>6, <1>7, <1>8, <1>9, <2>1 DEF Market!MarketNext

\* A price gets older by one tick at most.
LEMMA OlderAge ==
  ASSUME LivesOK
  PROVE  /\ \A age \in Market!Ages \cup {None} : Market!Older(age) \in Market!Ages \cup {None}
         /\ \A age \in Market!Ages :
               Market!Older(age) \in Market!Ages /\ Market!Older(age) <= age + 1
         /\ 0..MaxLag \subseteq Market!Ages
  BY DEF LivesOK, Market!Older, Market!Ages, Market!Oldest

\* A price that arrives is young enough.
LEMMA UpdateStep ==
  ASSUME PricesInv, LivesOK, NEW s \in Symbols, NEW age \in 0..MaxLag,
         Market!UpdatePrice(s, age)
  PROVE  /\ priceMap' \in [Symbols -> Market!Ages \cup {None}]
         /\ redis' = [x \in Symbols |-> redis'[x]]
         /\ \A x \in Symbols : RedisOK(redis'[x])
<1>1. priceMap' = [priceMap EXCEPT ![s] = age] /\ age \in Market!Ages
  BY OlderAge DEF Market!UpdatePrice
<1>2. priceMap' \in [Symbols -> Market!Ages \cup {None}]
  BY <1>1 DEF PricesInv
<1> DEFINE new == [age |-> age, left |-> RedisTtl]
<1>3. RedisOK(new)
  BY <1>1 DEF RedisOK, Kept, LivesOK
<1> HIDE DEF new
<1>4. redis' = redis \/ redis' = [redis EXCEPT ![s] = new]
  BY DEF Market!UpdatePrice, new
<1> QED
  BY <1>2, <1>3, <1>4, SMT DEF PricesInv

\* A caller that moves.
LEMMA AskStep1 ==
  ASSUME PricesInv, NEW k \in Askers, NEW next, AskOK(next), Market!Asking(k, next)
  PROVE  ask' = [x \in Askers |-> ask'[x]] /\ \A x \in Askers : AskOK(ask'[x])
<1>1. ask' = [ask EXCEPT ![k] = next]
  BY DEF Market!Asking
<1> QED
  BY <1>1, SMT DEF PricesInv

\* Time passes for what is kept and what is under way.
LEMMA TickStep ==
  ASSUME PricesInv, LivesOK, Market!Tick
  PROVE  PricesInv'
<1>1. priceMap' \in [Symbols -> Market!Ages \cup {None}]
  BY OlderAge DEF PricesInv, Market!Tick
<1>2. redis' = [x \in Symbols |-> redis'[x]] /\ \A s \in Symbols : RedisOK(redis'[s])
  <2>1. redis' = [s \in Symbols |->
                   IF redis[s] = None THEN None
                   ELSE IF redis[s].left = 1 THEN None
                   ELSE [age |-> Market!Older(redis[s].age), left |-> redis[s].left - 1]]
    BY DEF Market!Tick
  <2>2. ASSUME NEW s \in Symbols, redis[s] # None, redis[s].left # 1
        PROVE  RedisOK([age |-> Market!Older(redis[s].age), left |-> redis[s].left - 1])
    <3>1. redis[s].age \in Market!Ages /\ redis[s].left \in 1..RedisTtl
          /\ redis[s].age + redis[s].left <= RedisTtl + MaxLag
      BY <2>2 DEF PricesInv, RedisOK, Kept
    <3> DEFINE age == Market!Older(redis[s].age)
               left == redis[s].left - 1
    <3>2. age \in Market!Ages /\ age <= redis[s].age + 1
      BY <3>1, OlderAge
    <3>3. left \in 1..RedisTtl /\ age + left <= RedisTtl + MaxLag
      BY <2>2, <3>1, <3>2 DEF LivesOK, Market!Ages, Market!Oldest
    <3> HIDE DEF age, left
    <3> QED
      BY <3>2, <3>3 DEF RedisOK, Kept, age, left
  <2>3. RedisOK(None)
    BY DEF RedisOK
  <2> QED
    BY <2>1, <2>2, <2>3, Zenon
<1>3. flights' \subseteq [symbol : Symbols, age : 0..MaxLag]
  <2>1. ASSUME NEW f \in flights PROVE [f EXCEPT !.age = @ + 1] \in [symbol : Symbols, age : 0..MaxLag]
    <3>1. f \in [symbol : Symbols, age : 0..MaxLag] /\ f.age < MaxLag
      BY DEF PricesInv, Market!Tick
    <3> QED
      BY <3>1 DEF LivesOK
  <2> QED
    BY <2>1 DEF Market!Tick
<1>4. ask' = [x \in Askers |-> ask'[x]] /\ \A k \in Askers : AskOK(ask'[k])
  <2>1. ask' = [k \in Askers |->
                 CASE ask[k].at = "fetch" ->
                        [ask[k] EXCEPT !.age = @ + 1, !.cached = Market!Older(@)]
                   [] ask[k].at \in {"redis", "send"} ->
                        [ask[k] EXCEPT !.cached = Market!Older(@)]
                   [] OTHER -> ask[k]]
    BY DEF Market!Tick
  <2>2. ASSUME NEW k \in Askers PROVE AskOK(ask'[k])
    <3>1. AskOK(ask[k]) /\ (ask[k].at = "fetch" => ask[k].age < MaxLag)
      BY DEF PricesInv, Market!Tick
    <3>2. CASE ask[k].at = "fetch"
      <4> PICK a \in Fetching : a = ask[k]
        BY <3>1, <3>2 DEF AskOK, Reading, Got, Market!IdleAsk
      <4>1. a.age + 1 \in 0..MaxLag /\ Market!Older(a.cached) \in Market!Ages \cup {None}
        BY <3>1, <3>2, OlderAge DEF Fetching, LivesOK
      <4>2. [a EXCEPT !.age = @ + 1, !.cached = Market!Older(@)] \in Fetching
        BY <4>1 DEF Fetching
      <4>3. ask'[k] = [a EXCEPT !.age = @ + 1, !.cached = Market!Older(@)]
        BY <2>1, <3>2
      <4> QED
        BY <4>2, <4>3 DEF AskOK
    <3>3. CASE ask[k].at \in {"redis", "send"}
      <4> PICK a \in Reading : a = ask[k]
        BY <3>1, <3>3 DEF AskOK, Fetching, Got, Market!IdleAsk
      <4>1. Market!Older(a.cached) \in Market!Ages \cup {None}
        BY OlderAge DEF Reading
      <4>2. [a EXCEPT !.cached = Market!Older(@)] \in Reading
        BY <4>1 DEF Reading
      <4>3. ask'[k] = [a EXCEPT !.cached = Market!Older(@)]
        BY <2>1, <3>3
      <4> QED
        BY <4>2, <4>3 DEF AskOK
    <3>4. CASE ask[k].at \notin {"fetch", "redis", "send"}
      <4>1. ask'[k] = ask[k]
        BY <2>1, <3>4
      <4> QED
        BY <3>1, <4>1
    <3> QED
      BY <3>2, <3>3, <3>4
  <2> QED
    BY <2>1, <2>2, Zenon
<1> QED
  BY <1>1, <1>2, <1>3, <1>4 DEF PricesInv

\* Asking, and answering from memory, Redis, the exchange or what was read before.
LEMMA CallerPriceStep ==
  ASSUME PricesInv, LivesOK, NEW k \in Askers,
         \/ \E s \in Symbols, ticker \in BOOLEAN : Market!Ask(k, s, ticker)
         \/ Market!AskRedis(k) \/ Market!AskSend(k) \/ Market!AskArrives(k)
         \/ Market!AskFails(k)
  PROVE  PricesInv'
<1>0. AskOK(ask[k])
  BY DEF PricesInv
<1>1. ASSUME NEW s \in Symbols, NEW ticker \in BOOLEAN, Market!Ask(k, s, ticker)
      PROVE  PricesInv'
  <2>1. UNCHANGED <<priceMap, redis, flights>> /\ priceMap[s] \in Market!Ages \cup {None}
    BY <1>1 DEF Market!Ask, PricesInv
  <2>2. CASE Market!Fresh(priceMap[s]) /\ Market!Answer(k, priceMap[s], FALSE)
    <3> DEFINE a == [at |-> "got", age |-> priceMap[s], fallback |-> FALSE]
    <3>1. priceMap[s] \in Market!Ages /\ priceMap[s] <= RedisTtl + MaxLag
      BY <2>1, <2>2 DEF Market!Fresh, LivesOK, Market!Ages, Market!Oldest
    <3>2. AskOK(a)
      BY <3>1 DEF AskOK, Got
    <3>3. Market!Asking(k, a)
      BY <2>2 DEF Market!Answer
    <3> HIDE DEF a
    <3> QED
      BY <2>1, <3>2, <3>3, AskStep1 DEF PricesInv
  <2>3. CASE Market!Asking(k, [at |-> IF redisUp /\ ~ticker THEN "redis" ELSE "send",
                               symbol |-> s, cached |-> IF ticker THEN None ELSE priceMap[s]])
    <3> DEFINE a == [at |-> IF redisUp /\ ~ticker THEN "redis" ELSE "send",
                     symbol |-> s, cached |-> IF ticker THEN None ELSE priceMap[s]]
    <3>1. AskOK(a)
      BY <2>1 DEF AskOK, Reading
    <3>2. Market!Asking(k, a)
      BY <2>3
    <3> HIDE DEF a
    <3> QED
      BY <2>1, <3>1, <3>2, AskStep1 DEF PricesInv
  <2> QED
    BY <1>1, <2>2, <2>3 DEF Market!Ask
<1>2. CASE Market!AskRedis(k)
  <2>1. UNCHANGED <<priceMap, redis, flights>> /\ ask[k].at = "redis"
    BY <1>2 DEF Market!AskRedis
  <2> PICK q \in Reading : q = ask[k]
    BY <1>0, <2>1 DEF AskOK, Fetching, Got, Market!IdleAsk
  <2>2. q.symbol \in Symbols
    BY DEF Reading
  <2>3. CASE redis[q.symbol] # None /\ Market!Answer(k, redis[q.symbol].age, FALSE)
    <3> DEFINE a == [at |-> "got", age |-> redis[q.symbol].age, fallback |-> FALSE]
    <3>1. redis[q.symbol].age \in Market!Ages /\ redis[q.symbol].age <= RedisTtl + MaxLag
      <4>1. redis[q.symbol] \in Kept
            /\ redis[q.symbol].age + redis[q.symbol].left <= RedisTtl + MaxLag
        BY <2>2, <2>3 DEF PricesInv, RedisOK
      <4>2. redis[q.symbol].age \in Market!Ages /\ redis[q.symbol].left \in 1..RedisTtl
        BY <4>1 DEF Kept
      <4> QED
        BY <4>1, <4>2 DEF LivesOK, Market!Ages, Market!Oldest
    <3>2. AskOK(a)
      BY <3>1 DEF AskOK, Got
    <3>3. Market!Asking(k, a)
      BY <2>3 DEF Market!Answer
    <3> HIDE DEF a
    <3> QED
      BY <2>1, <3>2, <3>3, AskStep1 DEF PricesInv
  <2>4. CASE Market!Asking(k, [q EXCEPT !.at = "send"])
    <3> DEFINE a == [q EXCEPT !.at = "send"]
    <3>1. a \in Reading
      BY DEF Reading
    <3>2. Market!Asking(k, a)
      BY <2>4
    <3> HIDE DEF a
    <3> QED
      BY <2>1, <3>1, <3>2, AskStep1 DEF PricesInv, AskOK
  <2> QED
    BY <1>2, <2>3, <2>4 DEF Market!AskRedis
<1>3. CASE Market!AskSend(k)
  <2>1. UNCHANGED <<priceMap, redis, flights>> /\ ask[k].at = "send"
    BY <1>3 DEF Market!AskSend
  <2> PICK q \in Reading : q = ask[k]
    BY <1>0, <2>1 DEF AskOK, Fetching, Got, Market!IdleAsk
  <2> DEFINE a == [at |-> "fetch", symbol |-> q.symbol, cached |-> q.cached, age |-> 0]
  <2>2. a \in Fetching
    BY DEF Reading, Fetching, LivesOK
  <2>3. Market!Asking(k, a)
    BY <1>3 DEF Market!AskSend
  <2> HIDE DEF a
  <2> QED
    BY <2>1, <2>2, <2>3, AskStep1 DEF PricesInv, AskOK
<1>4. CASE Market!AskArrives(k)
  <2>1. /\ ask[k].at = "fetch" /\ flights' = flights
        /\ Market!UpdatePrice(ask[k].symbol, ask[k].age) /\ Market!Answer(k, ask[k].age, FALSE)
    BY <1>4 DEF Market!AskArrives
  <2> PICK q \in Fetching : q = ask[k]
    BY <1>0, <2>1 DEF AskOK, Reading, Got, Market!IdleAsk
  <2>2. q.symbol \in Symbols /\ q.age \in 0..MaxLag
    BY DEF Fetching
  <2> DEFINE a == [at |-> "got", age |-> q.age, fallback |-> FALSE]
  <2>3. q.age \in Market!Ages /\ q.age <= RedisTtl + MaxLag
    BY <2>2, OlderAge DEF LivesOK
  <2>4. AskOK(a)
    BY <2>3 DEF AskOK, Got
  <2>5. Market!Asking(k, a)
    BY <2>1 DEF Market!Answer
  <2> HIDE DEF a
  <2>6. ask' = [x \in Askers |-> ask'[x]] /\ \A x \in Askers : AskOK(ask'[x])
    BY <2>4, <2>5, AskStep1
  <2>7. /\ priceMap' \in [Symbols -> Market!Ages \cup {None}]
        /\ redis' = [x \in Symbols |-> redis'[x]]
        /\ \A x \in Symbols : RedisOK(redis'[x])
    BY <2>1, <2>2, UpdateStep
  <2> QED
    BY <2>1, <2>6, <2>7 DEF PricesInv
<1>5. CASE Market!AskFails(k)
  <2>1. UNCHANGED <<priceMap, redis, flights>> /\ ask[k].at = "fetch"
    BY <1>5 DEF Market!AskFails
  <2> PICK q \in Fetching : q = ask[k]
    BY <1>0, <2>1 DEF AskOK, Reading, Got, Market!IdleAsk
  <2>2. CASE Market!Asking(k, Market!IdleAsk)
    <3>1. AskOK(Market!IdleAsk)
      BY DEF AskOK
    <3> QED
      BY <2>1, <2>2, <3>1, AskStep1 DEF PricesInv
  <2>3. CASE q.cached # None /\ Market!Answer(k, q.cached, TRUE)
    <3> DEFINE a == [at |-> "got", age |-> q.cached, fallback |-> TRUE]
    <3>1. q.cached \in Market!Ages
      BY <2>3 DEF Fetching
    <3>2. AskOK(a)
      BY <3>1 DEF AskOK, Got
    <3>3. Market!Asking(k, a)
      BY <2>3 DEF Market!Answer
    <3> HIDE DEF a
    <3> QED
      BY <2>1, <3>2, <3>3, AskStep1 DEF PricesInv
  <2> QED
    BY <1>5, <2>2, <2>3 DEF Market!AskFails
<1> QED
  BY <1>1, <1>2, <1>3, <1>4, <1>5

\* Any step keeps prices young enough.
LEMMA PricesStep ==
  ASSUME PricesInv, LivesOK, subscriptions \subseteq Symbols,
         [Market!MarketNext]_(Market!marketVars)
  PROVE  PricesInv'
<1>1. CASE UNCHANGED <<priceMap, redis, flights, ask>>
  BY <1>1 DEF PricesInv
<1>2. ASSUME NEW b \in Browsers,
             \/ Market!Connect(b) \/ Market!Disconnect(b)
             \/ \E s \in Symbols : Market!Subscribe(b, s) \/ Market!Unsubscribe(b, s)
      PROVE  PricesInv'
  BY <1>1, <1>2 DEF Market!Connect, Market!Disconnect, Market!Subscribe,
     Market!Unsubscribe, Market!prices
<1>3. CASE Market!SubscribeOpen \/ Market!RedisTurns \/ UNCHANGED Market!marketVars
  BY <1>1, <1>3 DEF Market!SubscribeOpen, Market!RedisTurns, Market!prices,
     Market!marketVars
<1>4. CASE Market!Refresh
  <2>1. UNCHANGED <<priceMap, redis, ask>>
        /\ flights' = flights \cup {[symbol |-> s, age |-> 0] : s \in subscriptions}
    BY <1>4 DEF Market!Refresh
  <2>2. flights' \subseteq [symbol : Symbols, age : 0..MaxLag]
    BY <2>1 DEF PricesInv, LivesOK
  <2> QED
    BY <2>1, <2>2 DEF PricesInv
<1>5. ASSUME NEW f \in flights, Market!RefreshArrives(f) PROVE PricesInv'
  <2>1. f.symbol \in Symbols /\ f.age \in 0..MaxLag
    BY DEF PricesInv
  <2>2. flights' \subseteq flights /\ ask' = ask /\ Market!UpdatePrice(f.symbol, f.age)
    BY <1>5 DEF Market!RefreshArrives
  <2>3. /\ priceMap' \in [Symbols -> Market!Ages \cup {None}]
        /\ redis' = [x \in Symbols |-> redis'[x]]
        /\ \A x \in Symbols : RedisOK(redis'[x])
    BY <2>1, <2>2, UpdateStep
  <2> QED
    BY <2>2, <2>3 DEF PricesInv
<1>6. ASSUME NEW f \in flights, Market!RefreshFails(f) PROVE PricesInv'
  BY <1>6 DEF Market!RefreshFails, PricesInv
<1>7. CASE Market!Tick
  BY <1>7, TickStep
<1>8. ASSUME NEW k \in Askers,
             \/ \E s \in Symbols, ticker \in BOOLEAN : Market!Ask(k, s, ticker)
             \/ Market!AskRedis(k) \/ Market!AskSend(k) \/ Market!AskArrives(k)
             \/ Market!AskFails(k)
      PROVE  PricesInv'
  BY <1>8, CallerPriceStep
<1> QED
  BY <1>2, <1>3, <1>4, <1>5, <1>6, <1>7, <1>8 DEF Market!MarketNext

\* Market by itself.
LEMMA PricesAlone ==
  ASSUME LivesOK, OpenSymbols \subseteq Symbols
  PROVE  Market!MarketSpec => [](AudienceInv /\ PricesInv)
<1>1. Market!MarketInit => AudienceInv /\ PricesInv
  <2> SUFFICES ASSUME Market!MarketInit PROVE AudienceInv /\ PricesInv
    OBVIOUS
  <2>1. AudienceInv
    BY DEF Market!MarketInit, AudienceInv, Market!WatchedIsRefreshed
  <2>2. priceMap \in [Symbols -> Market!Ages \cup {None}] /\ flights = {}
    BY DEF Market!MarketInit
  <2>3. redis = [s \in Symbols |-> redis[s]] /\ \A s \in Symbols : RedisOK(redis[s])
    BY DEF Market!MarketInit, RedisOK
  <2>4. ask = [k \in Askers |-> ask[k]] /\ \A k \in Askers : AskOK(ask[k])
    BY DEF Market!MarketInit, AskOK
  <2> QED
    BY <2>1, <2>2, <2>3, <2>4 DEF PricesInv
<1>2. AudienceInv /\ PricesInv /\ [Market!MarketNext]_(Market!marketVars)
        => (AudienceInv /\ PricesInv)'
  <2>1. AudienceInv => subscriptions \subseteq Symbols
    BY DEF AudienceInv
  <2> QED
    BY <2>1, AudienceStep, PricesStep
<1> QED
  BY <1>1, <1>2, PTL DEF Market!MarketSpec

\* What is watched is refreshed, and a decision is made on no price beyond an age,
\* for any symbols, browsers and callers, whichever fetch is answered last.
THEOREM PricesStayFresh == ServicesSpec => []PricesAreFresh
<1>1. Market!MarketSpec => [](AudienceInv /\ PricesInv)
  BY LivesAssumption, PricesAlone DEF LivesOK
<1>2. AudienceInv /\ PricesInv => Market!PricesAreFresh
  <2> SUFFICES ASSUME AudienceInv, PricesInv, NEW k \in Askers, ask[k].at = "got"
               PROVE  ask[k].fallback \/ ask[k].age <= RedisTtl + MaxLag
    BY DEF Market!PricesAreFresh, Market!PriceIsFresh, AudienceInv
  <2>1. AskOK(ask[k])
    BY DEF PricesInv
  <2> QED
    BY <2>1 DEF AskOK, Reading, Fetching, Market!IdleAsk
<1> QED
  BY <1>1, <1>2, PricesRun, PTL DEF PricesAreFresh

----------------------------------------------------------------------------
(* BinanceAdapter                                                           *)

Lists == [at : {"regular", "algo", "listed"}, list : Books!Listings]
Cancels == [at : {"cancel", "delete"}, order : Orders]

\* While the second book is still to be read: what was open all the time is open
\* now, and what is open now was so at some time; the first book has been listed.
ListOK(c) ==
    /\ c.at \in {"regular", "algo"} =>
          c.list.since \subseteq Books!Open /\ Books!Open \subseteq c.list.ever
    /\ c.at = "algo" =>
          /\ {o \in c.list.since : ~Books!Algo(o)} \subseteq c.list.got
          /\ c.list.got \subseteq c.list.ever
    /\ c.at = "listed" =>
          c.list.since \subseteq c.list.got /\ c.list.got \subseteq c.list.ever

BinanceInv ==
    /\ Books!BinanceTypeOK
    /\ \A k \in Callers : ListOK(request[k])
    /\ Books!CanceledIsNotFilled

\* The state of a call, by kind.
LEMMA CallKinds ==
  ASSUME NEW c \in Books!CallStates
  PROVE  c = Books!IdleCall \/ c \in Lists \/ c \in Cancels
  BY DEF Books!CallStates, Lists, Cancels

\* An order that leaves the book is in no listing any longer.
LEMMA LeavesStep ==
  ASSUME NEW f \in [Callers -> Books!CallStates], NEW o \in Books!Open,
         \A k \in Callers : ListOK(f[k]), NEW outcome \in {"filled", "canceled"},
         Books!BinanceTypeOK, Books!Becomes(o, outcome), request' = Books!Leaves(o, f)
  PROVE  /\ request' \in [Callers -> Books!CallStates]
         /\ book' \in [Orders -> {"new", "open", "filled", "canceled"}]
         /\ \A k \in Callers : ListOK(request[k])'
<1>1. o \in Orders /\ book[o] = "open"
  BY DEF Books!Open
<1>2. /\ book' \in [Orders -> {"new", "open", "filled", "canceled"}]
      /\ Books!Open' = Books!Open \ {o}
  BY <1>1 DEF Books!BinanceTypeOK, Books!Becomes, Books!Open
<1>3. ASSUME NEW k \in Callers
      PROVE  request'[k] \in Books!CallStates /\ ListOK(request[k])'
  <2>1. CASE f[k].at \in {"regular", "algo"}
    <3> PICK q \in Lists : q = f[k]
      BY <2>1, CallKinds DEF Books!IdleCall, Cancels
    <3> DEFINE l == [q.list EXCEPT !.since = @ \ {o}]
    <3>1. q.list \in Books!Listings
      BY DEF Lists
    <3>2. l \in Books!Listings /\ l.since = q.list.since \ {o}
          /\ l.got = q.list.got /\ l.ever = q.list.ever
      BY <3>1 DEF Books!Listings
    <3>3. request'[k] = [q EXCEPT !.list = l]
      BY <2>1 DEF Books!Leaves
    <3> HIDE DEF l
    <3>4. [q EXCEPT !.list = l] \in Lists /\ [q EXCEPT !.list = l].list = l
          /\ [q EXCEPT !.list = l].at = q.at
      BY <3>2 DEF Lists
    <3>5. ListOK(q)
      OBVIOUS
    <3>6. ListOK(request[k])'
      BY <1>2, <2>1, <3>2, <3>3, <3>4, <3>5 DEF ListOK
    <3> QED
      BY <3>3, <3>4, <3>6 DEF Lists, Books!CallStates
  <2>2. CASE f[k].at \notin {"regular", "algo"}
    <3>1. request'[k] = f[k]
      BY <2>2 DEF Books!Leaves
    <3> QED
      BY <2>2, <3>1 DEF ListOK
  <2> QED
    BY <2>1, <2>2
<1>4. request' = [k \in Callers |-> request'[k]]
  BY DEF Books!Leaves
<1> QED
  BY <1>2, <1>3, <1>4

\* A call that moves while the books stay.
LEMMA CallStep ==
  ASSUME BinanceInv, NEW k \in Callers, NEW next \in Books!CallStates, ListOK(next),
         Books!CallGoto(k, next), book' = book
  PROVE  request' \in [Callers -> Books!CallStates] /\ \A x \in Callers : ListOK(request[x])'
<1>1. request' = [request EXCEPT ![k] = next] /\ request \in [Callers -> Books!CallStates]
  BY DEF Books!CallGoto, BinanceInv, Books!BinanceTypeOK
<1>2. request' \in [Callers -> Books!CallStates]
      /\ \A x \in Callers : request'[x] = IF x = k THEN next ELSE request[x]
  BY <1>1, Zenon
<1>3. Books!Open' = Books!Open
  BY DEF Books!Open
<1>4. ASSUME NEW x \in Callers PROVE ListOK(request[x])'
  <2>1. ListOK(request'[x])
    BY <1>2 DEF BinanceInv
  <2> QED
    BY <1>3, <2>1 DEF ListOK
<1> QED
  BY <1>2, <1>4

\* A new order may be seen by the listings in flight.
LEMMA PlacedStep ==
  ASSUME BinanceInv, NEW o \in Orders, Books!PlaceOrder(o)
  PROVE  BinanceInv'
<1>1. /\ book[o] = "new" /\ lateCancels' = lateCancels /\ canceled' = canceled
      /\ book' = [book EXCEPT ![o] = "open"]
      /\ request' = [k \in Callers |->
           IF Books!IsListing(k) THEN [request[k] EXCEPT !.list.ever = @ \cup {o}] ELSE request[k]]
  BY DEF Books!PlaceOrder, Books!Becomes
<1>2. /\ book' \in [Orders -> {"new", "open", "filled", "canceled"}]
      /\ Books!Open' = Books!Open \cup {o}
      /\ \A x \in Orders : book'[x] = "canceled" <=> book[x] = "canceled"
  BY <1>1 DEF BinanceInv, Books!BinanceTypeOK, Books!Open
<1>3. ASSUME NEW k \in Callers
      PROVE  request'[k] \in Books!CallStates /\ ListOK(request[k])'
  <2>0. request[k] \in Books!CallStates /\ ListOK(request[k])
    BY DEF BinanceInv, Books!BinanceTypeOK
  <2>1. CASE Books!IsListing(k)
    <3> PICK q \in Lists : q = request[k]
      BY <2>0, <2>1, CallKinds DEF Books!IdleCall, Cancels, Books!IsListing
    <3> DEFINE l == [q.list EXCEPT !.ever = @ \cup {o}]
    <3>1. q.list \in Books!Listings
      BY DEF Lists
    <3>2. l \in Books!Listings /\ l.since = q.list.since
          /\ l.got = q.list.got /\ l.ever = q.list.ever \cup {o}
      BY <3>1 DEF Books!Listings
    <3>3. request'[k] = [q EXCEPT !.list = l]
      BY <1>1, <2>1
    <3> HIDE DEF l
    <3>4. [q EXCEPT !.list = l] \in Lists /\ [q EXCEPT !.list = l].list = l
          /\ [q EXCEPT !.list = l].at = q.at
      BY <3>2 DEF Lists
    <3>5. ListOK(q) /\ q.at \in {"regular", "algo"}
      BY <2>0, <2>1 DEF Books!IsListing
    <3>6. ListOK(request[k])'
      BY <1>2, <3>2, <3>3, <3>4, <3>5 DEF ListOK
    <3> QED
      BY <3>3, <3>4, <3>6 DEF Lists, Books!CallStates
  <2>2. CASE ~Books!IsListing(k)
    <3>1. request'[k] = request[k]
      BY <1>1, <2>2
    <3> QED
      BY <2>0, <2>2, <3>1 DEF ListOK, Books!IsListing
  <2> QED
    BY <2>1, <2>2
<1>4. request' = [k \in Callers |-> request'[k]]
  BY <1>1
<1>5. Books!CanceledIsNotFilled'
  BY <1>1, <1>2 DEF BinanceInv, Books!CanceledIsNotFilled, Books!BinanceTypeOK
<1> QED
  BY <1>1, <1>2, <1>3, <1>4, <1>5 DEF BinanceInv, Books!BinanceTypeOK

\* fetchOpenOrders, step by step.
LEMMA ListStep ==
  ASSUME BinanceInv, NEW k \in Callers,
         \/ Books!ListStart(k) \/ Books!ListRegular(k) \/ Books!ListAlgo(k)
         \/ Books!ListFails(k)
  PROVE  BinanceInv'
<1>0. /\ UNCHANGED <<book, lateCancels, canceled>>
      /\ request[k] \in Books!CallStates /\ ListOK(request[k]) /\ Books!Open \in SUBSET Orders
  BY DEF Books!ListStart, Books!ListRegular, Books!ListAlgo, Books!ListFails,
     BinanceInv, Books!BinanceTypeOK, Books!Open
<1>1. ASSUME NEW next \in Books!CallStates, ListOK(next), Books!CallGoto(k, next)
      PROVE  BinanceInv'
  <2>1. request' \in [Callers -> Books!CallStates] /\ \A x \in Callers : ListOK(request[x])'
    BY <1>0, <1>1, CallStep
  <2> QED
    BY <1>0, <2>1 DEF BinanceInv, Books!BinanceTypeOK, Books!CanceledIsNotFilled
<1>2. CASE Books!ListStart(k)
  <2> DEFINE l == [since |-> Books!Open, ever |-> Books!Open, got |-> {}]
             next == [at |-> "regular", list |-> l]
  <2>1. l \in Books!Listings
    BY <1>0 DEF Books!Listings
  <2>2. next \in Books!CallStates /\ ListOK(next)
    BY <2>1 DEF Books!CallStates, ListOK
  <2>3. Books!CallGoto(k, next)
    BY <1>2 DEF Books!ListStart
  <2> HIDE DEF next
  <2> QED
    BY <1>1, <2>2, <2>3
<1>3. ASSUME NEW q \in Lists, q = request[k], q.at \in {"regular", "algo"},
             NEW got \in SUBSET Orders, NEW at \in {"algo", "listed"},
             Books!CallGoto(k, [q EXCEPT !.at = at, !.list.got = got]),
             at = "algo" => /\ q.at = "regular" /\ got = {o \in Books!Open : ~Books!Algo(o)},
             at = "listed" => q.list.since \subseteq got /\ got \subseteq q.list.ever
      PROVE  BinanceInv'
  <2> DEFINE l == [q.list EXCEPT !.got = got]
             next == [q EXCEPT !.at = at, !.list = l]
  <2>1. q.list \in Books!Listings
    BY DEF Lists
  <2>2. l \in Books!Listings /\ l.since = q.list.since /\ l.ever = q.list.ever /\ l.got = got
    BY <2>1 DEF Books!Listings
  <2>3. Books!CallGoto(k, next)
    BY <1>3
  <2> HIDE DEF l
  <2>4. next \in Lists /\ next.at = at /\ next.list = l
    BY <2>2 DEF Lists
  <2> HIDE DEF next
  <2>5. ListOK(q)
    BY <1>0, <1>3
  <2>6. ListOK(next)
    BY <1>3, <2>2, <2>4, <2>5 DEF ListOK
  <2>7. next \in Books!CallStates
    BY <2>4 DEF Lists, Books!CallStates
  <2> QED
    BY <1>1, <2>3, <2>6, <2>7
<1>4. CASE Books!ListRegular(k)
  <2>1. request[k].at = "regular"
    BY <1>4 DEF Books!ListRegular
  <2> PICK q \in Lists : q = request[k]
    BY <1>0, <2>1, CallKinds DEF Books!IdleCall, Cancels
  <2>2. Books!CallGoto(k, [q EXCEPT !.at = "algo", !.list.got = {o \in Books!Open : ~Books!Algo(o)}])
    BY <1>4 DEF Books!ListRegular
  <2>3. {o \in Books!Open : ~Books!Algo(o)} \in SUBSET Orders
    BY <1>0
  <2> QED
    BY <1>3, <2>1, <2>2, <2>3
<1>5. CASE Books!ListAlgo(k)
  <2>1. request[k].at = "algo"
    BY <1>5 DEF Books!ListAlgo
  <2> PICK q \in Lists : q = request[k]
    BY <1>0, <2>1, CallKinds DEF Books!IdleCall, Cancels
  <2> DEFINE all == q.list.got \cup {o \in Books!Open : Books!Algo(o)}
  <2>2. Books!CallGoto(k, [q EXCEPT !.at = "listed", !.list.got = all])
    BY <1>5 DEF Books!ListAlgo
  <2>3. q.list.got \subseteq Orders
    BY DEF Lists, Books!Listings
  <2>4. /\ all \in SUBSET Orders
        /\ q.list.since \subseteq all /\ all \subseteq q.list.ever
    BY <1>0, <2>1, <2>3 DEF ListOK
  <2> HIDE DEF all
  <2> QED
    BY <1>3, <2>1, <2>2, <2>4
<1>6. CASE Books!ListFails(k)
  <2>1. Books!IdleCall \in Books!CallStates /\ ListOK(Books!IdleCall)
    BY DEF Books!CallStates, ListOK, Books!IdleCall
  <2>2. Books!CallGoto(k, Books!IdleCall)
    BY <1>6 DEF Books!ListFails, Books!CallReturn
  <2> QED
    BY <1>1, <2>1, <2>2
<1> QED
  BY <1>2, <1>4, <1>5, <1>6

\* The idle call is as good as any.
LEMMA IdleIsOK == Books!IdleCall \in Books!CallStates /\ ListOK(Books!IdleCall)
  BY DEF Books!CallStates, ListOK, Books!IdleCall

\* An order is filled, or is canceled for a caller that gave up long ago.
LEMMA LeftStep ==
  ASSUME BinanceInv,
         \/ \E o \in Orders : Books!Fill(o)
         \/ \E c \in lateCancels : Books!LateCancel(c)
  PROVE  BinanceInv'
<1>1. ASSUME NEW o \in Books!Open, NEW outcome \in {"filled", "canceled"},
             Books!Becomes(o, outcome), request' = Books!Leaves(o, request),
             lateCancels' \subseteq lateCancels, canceled' = canceled
      PROVE  BinanceInv'
  <2>1. /\ request' \in [Callers -> Books!CallStates]
        /\ book' \in [Orders -> {"new", "open", "filled", "canceled"}]
        /\ \A k \in Callers : ListOK(request[k])'
    <3>1. /\ request \in [Callers -> Books!CallStates] /\ Books!BinanceTypeOK
          /\ \A k \in Callers : ListOK(request[k])
      BY DEF BinanceInv, Books!BinanceTypeOK
    <3> QED
      BY <1>1, <3>1, LeavesStep
  <2>2. book' = [book EXCEPT ![o] = outcome] /\ o \in Orders /\ book[o] = "open"
    BY <1>1 DEF Books!Becomes, Books!Open
  <2>3. Books!CanceledIsNotFilled'
    BY <1>1, <2>2 DEF BinanceInv, Books!BinanceTypeOK, Books!CanceledIsNotFilled
  <2> QED
    BY <1>1, <2>1, <2>3 DEF BinanceInv, Books!BinanceTypeOK
<1>2. ASSUME NEW o \in Orders, Books!Fill(o) PROVE BinanceInv'
  BY <1>1, <1>2 DEF Books!Fill
<1>3. ASSUME NEW c \in lateCancels, Books!LateCancel(c) PROVE BinanceInv'
  <2>1. lateCancels' \subseteq lateCancels /\ canceled' = canceled
    BY <1>3 DEF Books!LateCancel
  <2>2. CASE /\ c.order \in Books!Open /\ Books!Becomes(c.order, "canceled")
             /\ request' = Books!Leaves(c.order, request)
    BY <1>1, <2>1, <2>2
  <2>3. CASE UNCHANGED <<book, request>>
    BY <2>1, <2>3 DEF BinanceInv, Books!BinanceTypeOK, Books!CanceledIsNotFilled,
       ListOK, Books!Open
  <2> QED
    BY <1>3, <2>2, <2>3 DEF Books!LateCancel
<1> QED
  BY <1>2, <1>3

\* cancelOrder, in one book and then in the other.
LEMMA CancelStep ==
  ASSUME BinanceInv, NEW k \in Callers,
         \/ \E o \in Orders : Books!CancelStart(k, o)
         \/ Books!CancelRegular(k) \/ Books!DeleteAlgo(k) \/ Books!CancelTimesOut(k)
  PROVE  BinanceInv'
<1>1. ASSUME NEW next \in Books!CallStates, ListOK(next), Books!CallGoto(k, next),
             UNCHANGED <<book, canceled>>, lateCancels' \subseteq [order : Orders, algo : BOOLEAN]
      PROVE  BinanceInv'
  <2>1. request' \in [Callers -> Books!CallStates] /\ \A x \in Callers : ListOK(request[x])'
    BY <1>1, CallStep
  <2> QED
    BY <1>1, <2>1 DEF BinanceInv, Books!BinanceTypeOK, Books!CanceledIsNotFilled
<1>2. ASSUME NEW o \in Books!Open, Books!Done(k, o), lateCancels' = lateCancels
      PROVE  BinanceInv'
  <2> DEFINE f == [request EXCEPT ![k] = Books!IdleCall]
  <2>1. /\ request \in [Callers -> Books!CallStates] /\ Books!BinanceTypeOK
        /\ \A x \in Callers : ListOK(request[x])
    BY DEF BinanceInv, Books!BinanceTypeOK
  <2>2. f \in [Callers -> Books!CallStates] /\ \A x \in Callers : ListOK(f[x])
    BY <2>1, IdleIsOK
  <2>3. /\ Books!Becomes(o, "canceled") /\ canceled' = canceled \cup {o}
        /\ request' = Books!Leaves(o, f)
    BY <1>2 DEF Books!Done
  <2> HIDE DEF f
  <2>4. /\ request' \in [Callers -> Books!CallStates]
        /\ book' \in [Orders -> {"new", "open", "filled", "canceled"}]
        /\ \A x \in Callers : ListOK(request[x])'
    BY <2>1, <2>2, <2>3, LeavesStep
  <2>5. book' = [book EXCEPT ![o] = "canceled"] /\ o \in Orders
    BY <2>3 DEF Books!Becomes, Books!Open
  <2>6. Books!CanceledIsNotFilled' /\ canceled' \subseteq Orders
    BY <2>1, <2>3, <2>5 DEF BinanceInv, Books!BinanceTypeOK, Books!CanceledIsNotFilled
  <2> QED
    BY <1>2, <2>1, <2>4, <2>6 DEF BinanceInv, Books!BinanceTypeOK
<1>3. lateCancels \subseteq [order : Orders, algo : BOOLEAN] /\ request[k] \in Books!CallStates
  BY DEF BinanceInv, Books!BinanceTypeOK
<1>4. ASSUME NEW o \in Orders, Books!CancelStart(k, o) PROVE BinanceInv'
  <2> DEFINE next == [at |-> "cancel", order |-> o]
  <2>1. next \in Books!CallStates /\ ListOK(next)
    BY DEF Books!CallStates, ListOK
  <2>2. Books!CallGoto(k, next) /\ UNCHANGED <<book, canceled, lateCancels>>
    BY <1>4 DEF Books!CancelStart
  <2> HIDE DEF next
  <2> QED
    BY <1>1, <1>3, <2>1, <2>2
<1>5. CASE Books!CancelRegular(k)
  <2>1. request[k].at = "cancel" /\ lateCancels' = lateCancels
    BY <1>5 DEF Books!CancelRegular
  <2> PICK q \in Cancels : q = request[k]
    BY <1>3, <2>1, CallKinds DEF Books!IdleCall, Lists
  <2>2. CASE q.order \in Books!Open /\ Books!Done(k, q.order)
    BY <1>2, <2>1, <2>2
  <2>3. CASE /\ Books!CallGoto(k, [at |-> "delete", order |-> q.order])
             /\ UNCHANGED <<book, canceled>>
    <3> DEFINE next == [at |-> "delete", order |-> q.order]
    <3>1. next \in Books!CallStates /\ ListOK(next)
      BY DEF Books!CallStates, ListOK, Cancels
    <3>2. Books!CallGoto(k, next)
      BY <2>3
    <3> HIDE DEF next
    <3> QED
      BY <1>1, <1>3, <2>1, <2>3, <3>1, <3>2
  <2> QED
    BY <1>5, <2>2, <2>3 DEF Books!CancelRegular
<1>6. CASE Books!DeleteAlgo(k)
  <2>1. request[k].at = "delete" /\ lateCancels' = lateCancels
    BY <1>6 DEF Books!DeleteAlgo
  <2>2. CASE request[k].order \in Books!Open /\ Books!Done(k, request[k].order)
    BY <1>2, <2>1, <2>2
  <2>3. CASE Books!CallReturn(k) /\ UNCHANGED <<book, canceled>>
    BY <1>1, <1>3, <2>1, <2>3, IdleIsOK DEF Books!CallReturn
  <2> QED
    BY <1>6, <2>2, <2>3 DEF Books!DeleteAlgo
<1>7. CASE Books!CancelTimesOut(k)
  <2>1. /\ request[k].at \in {"cancel", "delete"} /\ Books!CallGoto(k, Books!IdleCall)
        /\ UNCHANGED <<book, canceled>>
        /\ lateCancels' = lateCancels \cup {[order |-> request[k].order, algo |-> request[k].at = "delete"]}
    BY <1>7 DEF Books!CancelTimesOut, Books!CallReturn
  <2> PICK q \in Cancels : q = request[k]
    BY <1>3, <2>1, CallKinds DEF Books!IdleCall, Lists
  <2>2. [order |-> q.order, algo |-> q.at = "delete"] \in [order : Orders, algo : BOOLEAN]
    BY DEF Cancels
  <2> QED
    BY <1>1, <1>3, <2>1, <2>2, IdleIsOK
<1> QED
  BY <1>4, <1>5, <1>6, <1>7

\* Books by itself.
LEMMA OrdersAlone == Books!BinanceSpec => []BinanceInv
<1>1. Books!BinanceInit => BinanceInv
  <2> SUFFICES ASSUME Books!BinanceInit PROVE BinanceInv
    OBVIOUS
  <2>1. Books!BinanceTypeOK
    BY IdleIsOK DEF Books!BinanceInit, Books!BinanceTypeOK
  <2>2. \A k \in Callers : ListOK(request[k])
    BY IdleIsOK DEF Books!BinanceInit
  <2> QED
    BY <2>1, <2>2 DEF BinanceInv, Books!BinanceInit, Books!CanceledIsNotFilled
<1>2. BinanceInv /\ [Books!BinanceNext]_(Books!binanceVars) => BinanceInv'
  <2> SUFFICES ASSUME BinanceInv, [Books!BinanceNext]_(Books!binanceVars)
               PROVE  BinanceInv'
    OBVIOUS
  <2>1. CASE UNCHANGED Books!binanceVars
    BY <2>1 DEF Books!binanceVars, BinanceInv, Books!BinanceTypeOK,
       Books!CanceledIsNotFilled, ListOK, Books!Open
  <2>2. CASE Books!BinanceNext
    BY <2>2, PlacedStep, LeftStep, ListStep, CancelStep DEF Books!BinanceNext
  <2> QED
    BY <2>1, <2>2
<1> QED
  BY <1>1, <1>2, PTL DEF Books!BinanceSpec

\* For any orders and any number of callers, no list hides an open order and no
\* cancel that succeeded hides a fill, however calls overlap and time out.
THEOREM OrdersStaySeen == ServicesSpec => []OrdersAreSeen
<1>1. BinanceInv => Books!OrdersAreSeen
  BY DEF BinanceInv, Books!OrdersAreSeen, Books!ListIsComplete, ListOK
<1> QED
  BY <1>1, OrdersAlone, BooksRun, PTL DEF OrdersAreSeen

----------------------------------------------------------------------------
(* LighterAdapter: one memory of settings for all legs of an account        *)

LegStages == {"mode", "leverage", "order", "price", "again"}
Resolvings == [at : {"resolve"}, stage : LegStages]
Lookups == [at : {"load", "ready"}, stage : LegStages, age : Legs!Ages]
SentUpdates == [at : {"sent"}, stage : {"mode", "leverage"}, value : Legs!Settings]
Sendings == [at : {"sent"}, stage : {"order"}]

Own(o) == [mode |-> ModeOf[o], leverage |-> LeverageOf[o]]

\* The settings of the leg that an opening opens are still being made.
Sets(q) == q # Legs!IdleOpening /\ q.stage \in {"mode", "leverage", "order"}

\* A list on its way is no older than it may take, one that came could be used.
AgeOK(q) ==
    /\ q \in Lookups /\ q.at = "load" => q.age <= MaxLoad
    /\ q \in Lookups /\ q.at = "ready" => q.age < CacheLife \/ q.age <= MaxLoad

\* A leg that is set up alone finds the memory, and then the exchange, its own.
Prepared(o, q) ==
    /\ q.stage = "mode" => preferred.mode = ModeOf[o]
    /\ q.stage = "leverage" =>
         preferred = Own(o) /\ (q.at = "sent" => q.value = Own(o))
    /\ q.stage = "order" /\ o \notin refused => setting[MarketOf[o]] = Own(o)

Alone(o) == \A x \in Openings : Sets(opening[x]) => x = o

LegsInv ==
    /\ Legs!LighterTypeOK
    /\ \A o \in Openings : AgeOK(opening[o])
    /\ \A o \in Openings : Sets(opening[o]) => opened[o] = None
    /\ \A o \in Openings : Sets(opening[o]) /\ o \notin overlapped =>
         Alone(o) /\ Prepared(o, opening[o])
    /\ Legs!OpensWithOwnSetting
    /\ Legs!EntryIsRecent

\* What an opening waits for is told by where it is.
LEMMA OpeningKinds ==
  ASSUME NEW q \in Legs!OpeningStates
  PROVE  /\ q.at = "resolve" => q \in Resolvings
         /\ q.at \in {"load", "ready"} => q \in Lookups
         /\ q.at = "sent" /\ q.stage \in {"mode", "leverage"} => q \in SentUpdates
         /\ q.at = "sent" /\ q.stage = "order" => q \in Sendings
         /\ q.at \in {"resolve", "load", "ready", "sent"} => q # Legs!IdleOpening
BY DEF Legs!OpeningStates, Legs!IdleOpening, Resolvings, Lookups, SentUpdates, Sendings,
   LegStages

\* The states an opening is given are states it can be in.
LEMMA OpeningMembers ==
  /\ Resolvings \subseteq Legs!OpeningStates
  /\ Lookups \subseteq Legs!OpeningStates
  /\ SentUpdates \subseteq Legs!OpeningStates
  /\ Sendings \subseteq Legs!OpeningStates
  /\ Legs!IdleOpening \in Legs!OpeningStates
BY DEF Legs!OpeningStates, Resolvings, Lookups, SentUpdates, Sendings, LegStages

\* No list that is waited for has an age to be held against it.
LEMMA NoAge ==
  /\ AgeOK(Legs!IdleOpening)
  /\ \A q \in Resolvings \cup SentUpdates \cup Sendings : AgeOK(q)
  /\ ~Sets(Legs!IdleOpening)
  /\ \A q \in Resolvings \cup Lookups \cup SentUpdates \cup Sendings : q # Legs!IdleOpening
<1>1. \A q \in Lookups : q.at \in {"load", "ready"}
  BY DEF Lookups
<1>2. \A q \in Resolvings : q.at = "resolve"
  BY DEF Resolvings
<1>3. \A q \in SentUpdates \cup Sendings : q.at = "sent"
  BY DEF SentUpdates, Sendings
<1>4. Legs!IdleOpening.at = "idle"
  BY DEF Legs!IdleOpening
<1> QED
  BY <1>1, <1>2, <1>3, <1>4 DEF AgeOK, Sets

\* The sets the adapter's set-up legs are counted by, in both forms.
LEMMA BeingSetIs == Legs!BeingSet = {o \in Openings : Sets(opening[o])}
BY DEF Legs!BeingSet, Sets

\* One opening moves and the others stay.
LEMMA OpeningMoves ==
  ASSUME LegsInv, NEW o \in Openings, NEW q \in Legs!OpeningStates, AgeOK(q),
         Legs!Step(o, q)
  PROVE  /\ opening' \in [Openings -> Legs!OpeningStates]
         /\ opening'[o] = q
         /\ \A x \in Openings : x # o => opening'[x] = opening[x]
         /\ \A x \in Openings : AgeOK(opening'[x])
<1>1. opening' = [opening EXCEPT ![o] = q] /\ opening \in [Openings -> Legs!OpeningStates]
  BY DEF Legs!Step, LegsInv, Legs!LighterTypeOK
<1>2. \A x \in Openings : AgeOK(opening[x])
  BY DEF LegsInv
<1> QED
  BY <1>1, <1>2

\* A leg that goes on within its stage, sending what the adapter prefers.
LEMMA SameStage ==
  ASSUME LegsInv, NEW o \in Openings, NEW q \in Legs!OpeningStates, AgeOK(q),
         Legs!Step(o, q), opening[o] # Legs!IdleOpening, q # Legs!IdleOpening,
         q.stage = opening[o].stage,
         q.stage = "leverage" /\ q.at = "sent" => q.value = preferred,
         marketAge' \in Legs!Ages \cup {None},
         UNCHANGED <<preferred, setting, opened, entry, overlapped, refused>>
  PROVE  LegsInv'
<1>1. /\ opening' \in [Openings -> Legs!OpeningStates]
      /\ opening'[o] = q
      /\ \A x \in Openings : x # o => opening'[x] = opening[x]
      /\ \A x \in Openings : AgeOK(opening[x])'
  BY OpeningMoves DEF AgeOK
<1>2. \A x \in Openings : Sets(opening[x])' <=> Sets(opening[x])
  BY <1>1 DEF Sets
<1>3. Legs!LighterTypeOK'
  BY <1>1 DEF LegsInv, Legs!LighterTypeOK
<1>4. \A x \in Openings : Sets(opening[x])' => (opened[x] = None)'
  BY <1>2 DEF LegsInv
<1>5. ASSUME NEW x \in Openings, Sets(opening[x])', x \notin overlapped'
      PROVE  Alone(x)' /\ Prepared(x, opening[x])'
  <2>1. Alone(x) /\ Prepared(x, opening[x])
    BY <1>2, <1>5 DEF LegsInv
  <2>2. Alone(x)'
    BY <1>2, <2>1 DEF Alone
  <2>3. CASE x # o
    BY <2>1, <2>2, <2>3, <1>1 DEF Prepared
  <2>4. CASE x = o
    <3>1. q.stage = "leverage" => preferred = Own(o)
      BY <2>1, <2>4 DEF Prepared
    <3> QED
      BY <2>1, <2>2, <2>4, <1>1, <3>1 DEF Prepared, Own
  <2> QED
    BY <2>3, <2>4
<1>6. Legs!OpensWithOwnSetting' /\ Legs!EntryIsRecent'
  BY DEF LegsInv, Legs!OpensWithOwnSetting, Legs!EntryIsRecent
<1> QED
  BY <1>1, <1>3, <1>4, <1>5, <1>6 DEF LegsInv

\* A leg that is no longer set up, opened or not.
LEMMA LeavesSet ==
  ASSUME LegsInv, NEW o \in Openings, NEW q \in Legs!OpeningStates, AgeOK(q), ~Sets(q),
         Legs!Step(o, q),
         \/ opened' = opened
         \/ /\ opening[o] # Legs!IdleOpening /\ opening[o].stage = "order"
            /\ opened' = [opened EXCEPT ![o] = setting[MarketOf[o]]],
         MarketOf \in [Openings -> Markets],
         entry' \in [Openings -> Legs!Ages \cup {None}], Legs!EntryIsRecent',
         UNCHANGED <<preferred, marketAge, setting, overlapped, refused>>
  PROVE  LegsInv'
<1>1. /\ opening' \in [Openings -> Legs!OpeningStates]
      /\ opening'[o] = q
      /\ \A x \in Openings : x # o => opening'[x] = opening[x]
      /\ \A x \in Openings : AgeOK(opening[x])'
  BY OpeningMoves DEF AgeOK
<1>2. \A x \in Openings : Sets(opening[x])' => x # o /\ Sets(opening[x])
  BY <1>1 DEF Sets
<1>3. /\ opened' \in [Openings -> Legs!Settings \cup {None}]
      /\ \A x \in Openings : x # o => opened'[x] = opened[x]
      /\ opened'[o] = opened[o]
           \/ (Sets(opening[o]) /\ opening[o].stage = "order"
                /\ opened'[o] = setting[MarketOf[o]])
  <2>1. opened \in [Openings -> Legs!Settings \cup {None}]
        /\ setting \in [Markets -> Legs!Settings]
    BY DEF LegsInv, Legs!LighterTypeOK
  <2> QED
    BY <2>1 DEF Sets
<1>4. Legs!LighterTypeOK'
  BY <1>1, <1>3 DEF LegsInv, Legs!LighterTypeOK
<1>5. \A x \in Openings : Sets(opening[x])' => (opened[x] = None)'
  BY <1>2, <1>3 DEF LegsInv
<1>6. ASSUME NEW x \in Openings, Sets(opening[x])', x \notin overlapped'
      PROVE  Alone(x)' /\ Prepared(x, opening[x])'
  <2>1. Alone(x) /\ Prepared(x, opening[x])
    BY <1>2, <1>6 DEF LegsInv
  <2>2. Alone(x)'
    BY <1>2, <2>1 DEF Alone
  <2> QED
    BY <2>1, <2>2, <1>1, <1>2, <1>6 DEF Prepared
<1>7. Legs!OpensWithOwnSetting'
  <2> SUFFICES ASSUME NEW x \in Openings, opened'[x] # None, x \notin overlapped \cup refused
               PROVE  opened'[x] = Own(x)
    BY DEF Legs!OpensWithOwnSetting, Own
  <2>1. CASE opened'[x] = opened[x]
    BY <2>1 DEF LegsInv, Legs!OpensWithOwnSetting, Own
  <2>2. CASE /\ x = o /\ Sets(opening[o]) /\ opening[o].stage = "order"
             /\ opened'[o] = setting[MarketOf[o]]
    BY <2>2 DEF LegsInv, Prepared
  <2> QED
    BY <2>1, <2>2, <1>3
<1> QED
  BY <1>1, <1>4, <1>5, <1>6, <1>7 DEF LegsInv

\* loadMarkets and the calls that wait for it.
LEMMA LookupStep ==
  ASSUME LegsInv, CacheLife \in Nat, MaxLoad \in Nat, NEW o \in Openings,
         \/ Legs!Resolve(o) \/ Legs!LoadArrives(o) \/ Legs!SendSetting(o)
         \/ Legs!SendOrder(o)
  PROVE  LegsInv'
<1>1. /\ opening[o] \in Legs!OpeningStates /\ AgeOK(opening[o])
      /\ marketAge \in Legs!Ages \cup {None} /\ preferred \in Legs!Settings
  BY DEF LegsInv, Legs!LighterTypeOK
<1>2. CASE Legs!Resolve(o)
  <2>1. opening[o].at = "resolve"
    BY <1>2 DEF Legs!Resolve
  <2> PICK q \in Resolvings : q = opening[o]
    BY <1>1, <2>1, OpeningKinds
  <2> DEFINE next == [at |-> IF Legs!Fresh THEN "ready" ELSE "load", stage |-> q.stage,
                      age |-> IF Legs!Fresh THEN marketAge ELSE 0]
  <2>2. next \in Lookups /\ next.stage = q.stage /\ next.at # "sent"
        /\ (next.at = "load" => next.age = 0)
        /\ (next.at = "ready" => next.age < CacheLife)
    BY <1>1 DEF Lookups, Resolvings, LegStages, Legs!Ages, Legs!Fresh
  <2>3. Legs!Step(o, next)
        /\ UNCHANGED <<preferred, marketAge, setting, opened, entry, overlapped, refused>>
    BY <1>2 DEF Legs!Resolve
  <2> HIDE DEF next
  <2>4. AgeOK(next)
    BY <2>2 DEF AgeOK, Lookups, Legs!Ages
  <2>5. next \in Legs!OpeningStates /\ next # Legs!IdleOpening /\ q # Legs!IdleOpening
    BY <2>2, OpeningMembers, NoAge
  <2> QED
    BY <1>1, <2>2, <2>3, <2>4, <2>5, SameStage
<1>3. CASE Legs!LoadArrives(o)
  <2>1. opening[o].at = "load"
    BY <1>3 DEF Legs!LoadArrives
  <2> PICK q \in Lookups : q = opening[o]
    BY <1>1, <2>1, OpeningKinds
  <2> DEFINE next == [q EXCEPT !.at = "ready"]
  <2>2. next \in Lookups /\ next.stage = q.stage /\ next.at = "ready" /\ next.age = q.age
        /\ q.age \in Legs!Ages
    BY DEF Lookups
  <2>3. Legs!Step(o, next) /\ marketAge' = q.age
        /\ UNCHANGED <<preferred, setting, opened, entry, overlapped, refused>>
    BY <1>3 DEF Legs!LoadArrives
  <2> HIDE DEF next
  <2>4. AgeOK(next)
    BY <1>1, <2>1, <2>2 DEF AgeOK
  <2>5. next \in Legs!OpeningStates /\ next # Legs!IdleOpening /\ q # Legs!IdleOpening
    BY <2>2, OpeningMembers, NoAge
  <2> QED
    BY <1>1, <2>2, <2>3, <2>4, <2>5, SameStage
<1>4. CASE Legs!SendSetting(o)
  <2>1. opening[o].at = "ready" /\ opening[o].stage \in {"mode", "leverage"}
    BY <1>4 DEF Legs!SendSetting
  <2> PICK q \in Lookups : q = opening[o]
    BY <1>1, <2>1, OpeningKinds
  <2> DEFINE next == [at |-> "sent", stage |-> q.stage, value |-> preferred]
  <2>2. next \in SentUpdates /\ next.stage = q.stage /\ next.value = preferred
    BY <1>1, <2>1 DEF SentUpdates
  <2>3. Legs!Step(o, next)
        /\ UNCHANGED <<preferred, marketAge, setting, opened, entry, overlapped, refused>>
    BY <1>4 DEF Legs!SendSetting
  <2> HIDE DEF next
  <2>4. AgeOK(next) /\ next \in Legs!OpeningStates /\ next # Legs!IdleOpening
        /\ q # Legs!IdleOpening
    BY <2>2, OpeningMembers, NoAge
  <2> QED
    BY <1>1, <2>2, <2>3, <2>4, SameStage
<1>5. CASE Legs!SendOrder(o)
  <2>1. opening[o].at = "ready" /\ opening[o].stage = "order"
    BY <1>5 DEF Legs!SendOrder
  <2> PICK q \in Lookups : q = opening[o]
    BY <1>1, <2>1, OpeningKinds
  <2> DEFINE next == [at |-> "sent", stage |-> "order"]
  <2>2. next \in Sendings /\ next.stage = "order"
    BY DEF Sendings
  <2>3. Legs!Step(o, next)
        /\ UNCHANGED <<preferred, marketAge, setting, opened, entry, overlapped, refused>>
    BY <1>5 DEF Legs!SendOrder
  <2> HIDE DEF next
  <2>4. AgeOK(next) /\ next \in Legs!OpeningStates /\ next # Legs!IdleOpening
        /\ q # Legs!IdleOpening
    BY <2>2, OpeningMembers, NoAge
  <2> QED
    BY <1>1, <2>1, <2>2, <2>3, <2>4, SameStage
<1> QED
  BY <1>2, <1>3, <1>4, <1>5

\* The steps after which a leg is not set up any longer.
LEMMA LeaveStep ==
  ASSUME LegsInv, CacheLife \in Nat, MaxLoad \in Nat,
         MarketOf \in [Openings -> Markets], NEW o \in Openings,
         Legs!LoadFails(o) \/ Legs!OrderAnswered(o) \/ Legs!Quote(o)
  PROVE  LegsInv'
<1>1. /\ opening[o] \in Legs!OpeningStates /\ AgeOK(opening[o])
      /\ entry \in [Openings -> Legs!Ages \cup {None}] /\ Legs!EntryIsRecent
  BY DEF LegsInv, Legs!LighterTypeOK
<1>2. \A stage \in {"price", "again"} :
         Legs!Resolving(stage) \in Resolvings /\ ~Sets(Legs!Resolving(stage))
  BY DEF Legs!Resolving, Resolvings, LegStages, Sets
<1>3. \A stage \in {"price", "again"} :
         /\ Legs!Resolving(stage) \in Legs!OpeningStates
         /\ AgeOK(Legs!Resolving(stage))
  BY <1>2, OpeningMembers, NoAge
<1>4. Legs!IdleOpening \in Legs!OpeningStates /\ AgeOK(Legs!IdleOpening)
      /\ ~Sets(Legs!IdleOpening)
  BY OpeningMembers, NoAge
<1>5. entry' = entry => Legs!EntryIsRecent' /\ entry' \in [Openings -> Legs!Ages \cup {None}]
  BY <1>1 DEF Legs!EntryIsRecent
<1>6. CASE Legs!LoadFails(o)
  BY <1>2, <1>3, <1>4, <1>5, <1>6, LeavesSet DEF Legs!LoadFails
<1>7. CASE Legs!OrderAnswered(o)
  <2>1. opening[o].at = "sent" /\ opening[o].stage = "order"
        /\ opening[o] # Legs!IdleOpening
    BY <1>1, <1>7, OpeningKinds DEF Legs!OrderAnswered
  <2> QED
    BY <1>2, <1>3, <1>4, <1>5, <1>7, <2>1, LeavesSet DEF Legs!OrderAnswered
<1>8. CASE Legs!Quote(o)
  <2>1. opening[o].at = "ready"
    BY <1>8 DEF Legs!Quote
  <2>2. PICK q \in Lookups : q = opening[o]
    BY <1>1, <2>1, OpeningKinds
  <2>3. q.age \in Legs!Ages /\ (q.age < CacheLife \/ q.age <= MaxLoad)
        /\ 0 \in Legs!Ages /\ 0 <= MaxLoad
    BY <1>1, <2>1, <2>2 DEF AgeOK, Lookups, Legs!Ages
  <2>4. PICK age \in {0, q.age} : entry' = [entry EXCEPT ![o] = age]
    BY <1>8, <2>2 DEF Legs!Quote
  <2>5. entry' \in [Openings -> Legs!Ages \cup {None}]
    BY <1>1, <2>3, <2>4
  <2>6. Legs!EntryIsRecent'
    BY <1>1, <2>3, <2>4 DEF Legs!EntryIsRecent
  <2> QED
    BY <1>4, <1>8, <2>5, <2>6, LeavesSet DEF Legs!Quote
<1> QED
  BY <1>6, <1>7, <1>8

\* A leg begins: it overlaps what is being set up, or is set up alone.
LEMMA ModeStep ==
  ASSUME LegsInv, NEW o \in Openings, Legs!SetMarginMode(o)
  PROVE  LegsInv'
<1> DEFINE next == Legs!Resolving("mode")
<1>1. next \in Resolvings /\ next.stage = "mode"
  BY DEF Legs!Resolving, Resolvings, LegStages
<1>2. Legs!Step(o, next) /\ opening[o] = Legs!IdleOpening
  BY DEF Legs!SetMarginMode
<1> HIDE DEF next
<1>3. next \in Legs!OpeningStates /\ AgeOK(next) /\ next # Legs!IdleOpening
  BY <1>1, OpeningMembers, NoAge
<1>4. /\ opening' \in [Openings -> Legs!OpeningStates]
      /\ opening'[o] = next
      /\ \A x \in Openings : x # o => opening'[x] = opening[x]
      /\ \A x \in Openings : AgeOK(opening[x])'
  BY <1>2, <1>3, OpeningMoves DEF AgeOK
<1>5. \A x \in Openings : Sets(opening[x])' <=> x = o \/ Sets(opening[x])
  BY <1>1, <1>3, <1>4 DEF Sets
<1>6. /\ preferred \in Legs!Settings
      /\ opened \in [Openings -> Legs!Settings \cup {None}]
      /\ entry \in [Openings -> Legs!Ages \cup {None}]
      /\ overlapped \subseteq Openings /\ refused \subseteq Openings
      /\ Legs!BeingSet \subseteq Openings
  BY DEF LegsInv, Legs!LighterTypeOK, Legs!BeingSet
<1>7. /\ preferred' = [preferred EXCEPT !.mode = ModeOf[o]]
      /\ opened' = [opened EXCEPT ![o] = None] /\ entry' = [entry EXCEPT ![o] = None]
      /\ overlapped' = IF Legs!BeingSet = {} THEN overlapped \ {o}
                       ELSE overlapped \cup Legs!BeingSet \cup {o}
      /\ refused' = refused \ {o} /\ marketAge' = marketAge /\ setting' = setting
  BY DEF Legs!SetMarginMode
<1>8. preferred' \in Legs!Settings /\ preferred'.mode = ModeOf[o]
  BY <1>6, <1>7 DEF Legs!Settings
<1>9. Legs!LighterTypeOK'
  BY <1>4, <1>6, <1>7, <1>8 DEF LegsInv, Legs!LighterTypeOK
<1>10. \A x \in Openings : Sets(opening[x])' => (opened[x] = None)'
  BY <1>5, <1>6, <1>7 DEF LegsInv
<1>11. ASSUME NEW x \in Openings, Sets(opening[x])', x \notin overlapped'
       PROVE  Alone(x)' /\ Prepared(x, opening[x])'
  <2>1. x = o /\ Legs!BeingSet = {}
    BY <1>5, <1>7, <1>11, BeingSetIs
  <2>2. Alone(x)'
    BY <1>5, <2>1, BeingSetIs DEF Alone
  <2>3. Prepared(x, opening[x])'
    BY <1>1, <1>4, <1>8, <2>1 DEF Prepared
  <2> QED
    BY <2>2, <2>3
<1>12. Legs!OpensWithOwnSetting'
  <2> SUFFICES ASSUME NEW x \in Openings, opened'[x] # None,
                      x \notin overlapped' \cup refused'
               PROVE  opened'[x] = Own(x)
    BY DEF Legs!OpensWithOwnSetting, Own
  <2>1. x # o /\ opened'[x] = opened[x]
    BY <1>6, <1>7
  <2>2. x \notin overlapped \cup refused
    BY <1>7, <2>1
  <2> QED
    BY <2>1, <2>2 DEF LegsInv, Legs!OpensWithOwnSetting, Own
<1>13. Legs!EntryIsRecent'
  BY <1>6, <1>7 DEF LegsInv, Legs!EntryIsRecent
<1> QED
  BY <1>4, <1>9, <1>10, <1>11, <1>12, <1>13 DEF LegsInv

\* An update is answered, and the adapter keeps the leverage after the mode.
LEMMA AnswerStep ==
  ASSUME LegsInv, MarketOf \in [Openings -> Markets], NEW o \in Openings,
         Legs!SettingAnswered(o)
  PROVE  LegsInv'
<1>1. /\ opening[o] \in Legs!OpeningStates /\ preferred \in Legs!Settings
      /\ setting \in [Markets -> Legs!Settings] /\ refused \subseteq Openings
      /\ opening[o].at = "sent" /\ opening[o].stage \in {"mode", "leverage"}
  BY DEF LegsInv, Legs!LighterTypeOK, Legs!SettingAnswered
<1> PICK q \in SentUpdates : q = opening[o]
  BY <1>1, OpeningKinds
<1> DEFINE next == Legs!Resolving(IF q.stage = "mode" THEN "leverage" ELSE "order")
<1>2. next \in Resolvings /\ next.at = "resolve"
      /\ next.stage = (IF q.stage = "mode" THEN "leverage" ELSE "order")
  BY DEF Legs!Resolving, Resolvings, LegStages
<1>3. Legs!Step(o, next)
  BY DEF Legs!SettingAnswered
<1> HIDE DEF next
<1>4. next \in Legs!OpeningStates /\ AgeOK(next) /\ next # Legs!IdleOpening
      /\ q # Legs!IdleOpening
  BY <1>2, OpeningMembers, NoAge
<1>5. /\ opening' \in [Openings -> Legs!OpeningStates]
      /\ opening'[o] = next
      /\ \A x \in Openings : x # o => opening'[x] = opening[x]
      /\ \A x \in Openings : AgeOK(opening[x])'
  BY <1>3, <1>4, OpeningMoves DEF AgeOK
<1>6. Sets(q) /\ Sets(next)
  BY <1>1, <1>2, <1>4 DEF Sets
<1>7. \A x \in Openings : Sets(opening[x])' <=> Sets(opening[x])
  BY <1>5, <1>6 DEF Sets
<1>8. UNCHANGED <<marketAge, opened, entry, overlapped>>
  BY DEF Legs!SettingAnswered
<1>9. /\ \/ setting' = [setting EXCEPT ![MarketOf[o]] = q.value] /\ refused' = refused \ {o}
         \/ setting' = setting /\ refused' = refused \cup {o}
      /\ q.stage = "mode" => preferred' = [preferred EXCEPT !.leverage = LeverageOf[o]]
      /\ q.stage # "mode" => preferred' = preferred
  BY DEF Legs!SettingAnswered, Legs!Keep
<1>10. q.value \in Legs!Settings /\ q.stage \in {"mode", "leverage"}
  BY DEF SentUpdates
<1>11. preferred' \in Legs!Settings
       /\ (q.stage = "mode" => preferred'.mode = preferred.mode
                               /\ preferred'.leverage = LeverageOf[o])
  BY <1>1, <1>9 DEF Legs!Settings
<1>12. setting' \in [Markets -> Legs!Settings] /\ refused' \subseteq Openings
  BY <1>1, <1>9, <1>10
<1>13. Legs!LighterTypeOK'
  BY <1>5, <1>8, <1>11, <1>12 DEF LegsInv, Legs!LighterTypeOK
<1>14. \A x \in Openings : Sets(opening[x])' => (opened[x] = None)'
  BY <1>7, <1>8 DEF LegsInv
<1>15. ASSUME NEW x \in Openings, Sets(opening[x])', x \notin overlapped'
       PROVE  Alone(x)' /\ Prepared(x, opening[x])'
  <2>1. Alone(x) /\ Prepared(x, opening[x])
    BY <1>7, <1>8, <1>15 DEF LegsInv
  <2>2. x = o /\ Alone(x)'
    BY <1>6, <1>7, <2>1 DEF Alone
  <2>3. CASE q.stage = "mode"
    <3>1. next.stage = "leverage" /\ next.at # "sent"
      BY <1>2, <2>3
    <3>2. preferred'.mode = ModeOf[o] /\ preferred'.leverage = LeverageOf[o]
      BY <1>11, <2>1, <2>2, <2>3 DEF Prepared
    <3>3. preferred' = Own(o)
      BY <1>11, <3>2 DEF Legs!Settings, Own
    <3> QED
      BY <1>5, <2>2, <3>1, <3>3 DEF Prepared, Own
  <2>4. CASE q.stage = "leverage"
    <3>1. next.stage = "order" /\ q.value = Own(o)
      BY <1>1, <1>2, <2>1, <2>2, <2>4 DEF Prepared
    <3>2. o \notin refused' => setting'[MarketOf[o]] = Own(o)
      BY <1>1, <1>9, <3>1
    <3> QED
      BY <1>5, <2>2, <3>1, <3>2 DEF Prepared, Own
  <2> QED
    BY <2>3, <2>4, <1>10
<1>16. Legs!OpensWithOwnSetting'
  <2> SUFFICES ASSUME NEW x \in Openings, opened[x] # None,
                      x \notin overlapped \cup refused'
               PROVE  opened[x] = Own(x)
    BY <1>8 DEF Legs!OpensWithOwnSetting, Own
  <2>1. x # o
    BY <1>6 DEF LegsInv
  <2> QED
    BY <1>9, <2>1 DEF LegsInv, Legs!OpensWithOwnSetting, Own
<1>17. Legs!EntryIsRecent'
  BY <1>8 DEF LegsInv, Legs!EntryIsRecent
<1> QED
  BY <1>5, <1>13, <1>14, <1>15, <1>16, <1>17 DEF LegsInv

\* Time passes: lists grow older, on their way and in the memory.
LEMMA AgesStep ==
  ASSUME LegsInv, CacheLife \in Nat, MaxLoad \in Nat, Legs!Elapse
  PROVE  LegsInv'
<1> DEFINE Elapsed(q) == IF q.at = "load" THEN [q EXCEPT !.age = Legs!Older(@)] ELSE q
<1>1. \A age \in Legs!Ages : Legs!Older(age) \in Legs!Ages
                             /\ (age < MaxLoad => Legs!Older(age) <= MaxLoad)
  BY DEF Legs!Older, Legs!Ages
<1>2. opening' = [x \in Openings |-> Elapsed(opening[x])]
      /\ UNCHANGED <<preferred, setting, opened, entry, overlapped, refused>>
  BY DEF Legs!Elapse
<1>3. ASSUME NEW x \in Openings
      PROVE  /\ opening'[x] \in Legs!OpeningStates /\ AgeOK(opening'[x])
             /\ opening'[x] = opening[x]
                  \/ /\ opening'[x].at = "load" /\ opening'[x].stage = opening[x].stage
                     /\ opening[x] # Legs!IdleOpening /\ opening'[x] # Legs!IdleOpening
  <2>1. opening[x] \in Legs!OpeningStates /\ AgeOK(opening[x])
    BY DEF LegsInv, Legs!LighterTypeOK
  <2>2. CASE opening[x].at = "load"
    <3>1. PICK q \in Lookups : q = opening[x]
      BY <2>1, <2>2, OpeningKinds
    <3> DEFINE next == [q EXCEPT !.age = Legs!Older(q.age)]
    <3>2. q.age \in Legs!Ages /\ q.age < MaxLoad
      BY <2>2, <3>1 DEF Lookups, Legs!Elapse
    <3>3. next \in Lookups /\ next.at = q.at /\ next.stage = q.stage
          /\ next.age = Legs!Older(q.age)
      BY <1>1, <3>2 DEF Lookups
    <3>4. opening'[x] = next
      BY <1>2, <2>2, <3>1
    <3> HIDE DEF next
    <3>5. AgeOK(next)
      BY <1>1, <2>2, <3>1, <3>2, <3>3 DEF AgeOK
    <3> QED
      BY <2>2, <3>1, <3>3, <3>4, <3>5, OpeningMembers, NoAge
  <2>3. CASE opening[x].at # "load"
    BY <1>2, <2>1, <2>3
  <2> QED
    BY <2>2, <2>3
<1>4. \A x \in Openings : Sets(opening[x])' <=> Sets(opening[x])
  BY <1>3 DEF Sets
<1>5. marketAge' \in Legs!Ages \cup {None}
  BY <1>1 DEF Legs!Elapse, LegsInv, Legs!LighterTypeOK
<1>6. opening' \in [Openings -> Legs!OpeningStates]
  <2>1. \A x \in Openings : Elapsed(opening[x]) \in Legs!OpeningStates
    BY <1>2, <1>3
  <2> HIDE DEF Elapsed
  <2> QED
    BY <1>2, <2>1
<1>7. Legs!LighterTypeOK'
  BY <1>2, <1>5, <1>6 DEF LegsInv, Legs!LighterTypeOK
<1>8. \A x \in Openings : Sets(opening[x])' => (opened[x] = None)'
  BY <1>2, <1>4 DEF LegsInv
<1>9. ASSUME NEW x \in Openings, Sets(opening[x])', x \notin overlapped'
      PROVE  Alone(x)' /\ Prepared(x, opening[x])'
  <2>1. Alone(x) /\ Prepared(x, opening[x])
    BY <1>2, <1>4, <1>9 DEF LegsInv
  <2>2. Alone(x)'
    BY <1>4, <2>1 DEF Alone
  <2>3. Prepared(x, opening[x])'
    BY <1>2, <1>3, <2>1 DEF Prepared
  <2> QED
    BY <2>2, <2>3
<1>10. Legs!OpensWithOwnSetting' /\ Legs!EntryIsRecent'
  BY <1>2 DEF LegsInv, Legs!OpensWithOwnSetting, Legs!EntryIsRecent
<1>11. \A x \in Openings : AgeOK(opening[x])'
  BY <1>3 DEF AgeOK
<1> QED
  BY <1>7, <1>8, <1>9, <1>10, <1>11 DEF LegsInv

\* Legs by itself.
LEMMA LegsAlone ==
  ASSUME CacheLife \in Nat, MaxLoad \in Nat, MarketOf \in [Openings -> Markets]
  PROVE  Legs!LighterSpec => []LegsInv
<1>1. Legs!LighterInit => LegsInv
  <2> SUFFICES ASSUME Legs!LighterInit PROVE LegsInv
    OBVIOUS
  <2>1. /\ \A o \in Openings : opening[o] = Legs!IdleOpening /\ opened[o] = None
                               /\ entry[o] = None
        /\ preferred \in Legs!Settings
        /\ setting \in [Markets -> Legs!Settings]
    BY DEF Legs!LighterInit, Legs!Defaults, Legs!Settings
  <2>2. Legs!LighterTypeOK
    BY <2>1, OpeningMembers DEF Legs!LighterInit, Legs!LighterTypeOK
  <2> QED
    BY <2>1, <2>2, NoAge DEF LegsInv, Legs!OpensWithOwnSetting, Legs!EntryIsRecent
<1>2. LegsInv /\ [Legs!LighterNext]_(Legs!lighterVars) => LegsInv'
  <2> SUFFICES ASSUME LegsInv, [Legs!LighterNext]_(Legs!lighterVars)
               PROVE  LegsInv'
    OBVIOUS
  <2>1. CASE UNCHANGED Legs!lighterVars
    BY <2>1 DEF Legs!lighterVars, LegsInv, Legs!LighterTypeOK, Legs!OpensWithOwnSetting,
       Legs!EntryIsRecent, Alone, Prepared, Sets, AgeOK
  <2>2. CASE Legs!LighterNext
    BY <2>2, LookupStep, LeaveStep, ModeStep, AnswerStep, AgesStep DEF Legs!LighterNext
  <2> QED
    BY <2>1, <2>2
<1> QED
  BY <1>1, <1>2, PTL DEF Legs!LighterSpec

\* For any legs, markets and settings, a leg that is set up alone and whose
\* update is taken opens with its own mode and leverage, and no leg is recorded
\* at a price older than the list may be and the time it took.
THEOREM LegsStayAsSet == ServicesSpec => []LegsAreAsSet
<1>1. Legs!LighterSpec => []LegsInv
  BY LegsAssumption, LegsAlone
<1>2. LegsInv => Legs!LegsAreAsSet
  BY DEF LegsInv, Legs!LegsAreAsSet
<1> QED
  BY <1>1, <1>2, LegsRun, PTL DEF LegsAreAsSet

----------------------------------------------------------------------------
(* PositionService: lists read once, and worked on while positions go on    *)

Walks == [at : {"closing", "closed", "repairing", "repaired"}, rest : Batches!Rest]
Works == [at : {"close", "save", "cancel", "tp", "sl", "mend"}, rest : Batches!Rest,
          p : Positions]
Compares == [at : {"compare"}, strategy : Strategies, rows : [Directions -> Nat],
             verdict : [Directions -> {"", "MATCHED", "DB_HEAVY", "EXCHANGE_HEAVY"}]]

\* Positions with both guards, or without one they had.
Covered == Batches!Guarded \cup shaken

\* Positions of the list that a request is through with, and did not fail at.
Through(q) == q.rest.open \ (q.rest.failed \cup q.rest.left)

\* What a request has done, given the rows and the positions that are covered.
BatchIs(q, rows, covered) ==
    /\ q.at \in {"closing", "closed", "close", "save"} =>
         \A x \in Through(q) : rows[x] = "CLOSED"
    /\ q.at \in {"repairing", "repaired", "cancel", "tp", "sl", "mend"} =>
         /\ \A x \in q.rest.open : rows[x] # "none"
         /\ \A x \in Through(q) : rows[x] = "OPEN" => x \in covered
    /\ q.at \in {"save", "tp", "sl", "mend"} => rows[q.p] # "none"
    /\ q.at \in {"tp", "sl"} /\ rows[q.p] = "OPEN" => q.p \in covered
    /\ q.at \in {"closed", "repaired"} => q.rest.left = {}

\* What a request has done stays done while it works on the others.
BatchOK(q) == BatchIs(q, positionRow, Covered)

\* The contracts a strategy's OPEN rows stand for.
RowsOn(s, side) ==
    Cardinality({p \in Positions : SideOf[p] = side /\ positionRow[p] = "OPEN"
                                   /\ StrategyOf[p] = s})

\* As long as a side agreed, what was read of it is what it was then and is now.
AuditOK(r) ==
    req[r].at = "compare" =>
        \A side \in Directions \ watch[r] :
            /\ req[r].rows[side] = pool[side]
            /\ pool[side] = RowsOn(req[r].strategy, side)
            /\ req[r].verdict[side] \in {"", "MATCHED"}

RowsOK ==
    /\ positionRow \in [Positions -> {"none", "OPEN", "CLOSED"}]
    /\ \A p \in creating : p \in Positions /\ positionRow[p] = "none"
    /\ pool \in [Directions -> Nat]

PositionInv ==
    /\ RowsOK
    /\ req \in [Batches!Requests -> Batches!RequestStates]
    /\ \A r \in Batches!Requests : BatchOK(req[r])
    /\ \A r \in Batches!Requests : AuditOK(r)

\* What any step may do to the rows, the guards and the contracts.
RowMoves ==
    /\ RowsOK'
    /\ \A p \in Positions :
         /\ positionRow[p] = "CLOSED" => positionRow'[p] = "CLOSED"
         /\ positionRow[p] = "OPEN" => positionRow'[p] \in {"OPEN", "CLOSED"}
         /\ positionRow[p] = "OPEN" /\ positionRow'[p] = "OPEN" /\ p \in Covered => p \in Covered'
    /\ positionRow' = positionRow \/ pool' = pool

\* What a request waits for is told by where it is.
LEMMA RequestKinds ==
  ASSUME NEW q \in Batches!RequestStates
  PROVE  /\ q.at \in {"closing", "closed", "repairing", "repaired"} => q \in Walks
         /\ q.at \in {"close", "save", "cancel", "tp", "sl", "mend"} => q \in Works
         /\ q.at = "compare" => q \in Compares
<1>1. q = Batches!IdleRequest \/ q \in Walks \/ q \in Works \/ q \in Compares
  BY Zenon DEF Batches!RequestStates, Walks, Works, Compares
<1>2. Batches!IdleRequest.at = "idle"
  BY DEF Batches!IdleRequest
<1>3. q \in Walks => q.at \in {"closing", "closed", "repairing", "repaired"}
  BY DEF Walks
<1>4. q \in Works => q.at \in {"close", "save", "cancel", "tp", "sl", "mend"}
  BY DEF Works
<1>5. q \in Compares => q.at = "compare"
  BY DEF Compares
<1> QED
  BY <1>1, <1>2, <1>3, <1>4, <1>5

\* The states a request is given are states it can be in.
LEMMA RequestMembers ==
  /\ Walks \subseteq Batches!RequestStates
  /\ Works \subseteq Batches!RequestStates
  /\ Compares \subseteq Batches!RequestStates
  /\ Batches!IdleRequest \in Batches!RequestStates
BY DEF Batches!RequestStates, Walks, Works, Compares

\* One request moves and the others stay.
LEMMA RequestMoves ==
  ASSUME PositionInv, NEW r \in Batches!Requests, NEW q \in Batches!RequestStates,
         Batches!Goto(r, q)
  PROVE  /\ req' \in [Batches!Requests -> Batches!RequestStates]
         /\ req'[r] = q
         /\ \A x \in Batches!Requests : x # r => req'[x] = req[x]
BY DEF PositionInv, Batches!Goto

\* No step, whosever it is, takes back what a request is through with.
LEMMA BatchKept ==
  ASSUME RowsOK, RowMoves, NEW q \in Batches!RequestStates, BatchOK(q)
  PROVE  BatchOK(q)'
<1>1. \A x \in Positions :
        /\ positionRow[x] # "none" => positionRow'[x] # "none"
        /\ positionRow[x] # "none" /\ positionRow'[x] = "OPEN" => positionRow[x] = "OPEN"
        /\ positionRow[x] = "CLOSED" => positionRow'[x] = "CLOSED"
        /\ positionRow[x] = "OPEN" /\ positionRow'[x] = "OPEN" /\ x \in Covered => x \in Covered'
  BY DEF RowsOK, RowMoves
<1>2. CASE q.at \in {"closing", "closed", "repairing", "repaired"}
  <2>1. q.rest.open \subseteq Positions
    BY <1>2, RequestKinds DEF Walks, Batches!Rest
  <2> QED
    BY <1>1, <1>2, <2>1 DEF BatchOK, BatchIs, Through
<1>3. CASE q.at \in {"close", "save", "cancel", "tp", "sl", "mend"}
  <2>1. q.rest.open \subseteq Positions /\ q.p \in Positions
    BY <1>3, RequestKinds DEF Works, Batches!Rest
  <2> QED
    BY <1>1, <1>3, <2>1 DEF BatchOK, BatchIs, Through
<1> QED
  BY <1>2, <1>3 DEF BatchOK, BatchIs

\* A request that moved has done what it is through with, and so have the others.
LEMMA BatchMoves ==
  ASSUME PositionInv, RowMoves, NEW r \in Batches!Requests,
         NEW q \in Batches!RequestStates, Batches!Goto(r, q), BatchOK(q)'
  PROVE  /\ req' \in [Batches!Requests -> Batches!RequestStates]
         /\ \A x \in Batches!Requests : BatchOK(req[x])'
<1>1. /\ req' \in [Batches!Requests -> Batches!RequestStates]
      /\ req'[r] = q
      /\ \A x \in Batches!Requests : x # r => req'[x] = req[x]
  BY RequestMoves
<1>2. ASSUME NEW x \in Batches!Requests PROVE BatchOK(req[x])'
  <2>1. CASE x = r
    BY <1>1, <2>1 DEF BatchOK, BatchIs, Through
  <2>2. CASE x # r
    <3>1. \A q2 \in Batches!RequestStates : BatchOK(q2) => BatchOK(q2)'
      BY BatchKept DEF PositionInv
    <3>2. req[x] \in Batches!RequestStates /\ BatchOK(req[x]) /\ req'[x] = req[x]
      BY <1>1, <2>2 DEF PositionInv
    <3>3. PICK q2 \in Batches!RequestStates : q2 = req[x]
      BY <3>2
    <3>4. BatchOK(q2)' /\ req'[x] = q2
      BY <3>1, <3>2, <3>3
    <3> QED
      BY <3>4 DEF BatchOK, BatchIs, Through
  <2> QED
    BY <2>1, <2>2
<1> QED
  BY <1>1, <1>2

\* The same for the steps that are no request's.
LEMMA BatchRests ==
  ASSUME PositionInv, RowMoves, req' = req
  PROVE  /\ req' \in [Batches!Requests -> Batches!RequestStates]
         /\ \A x \in Batches!Requests : BatchOK(req[x])'
<1>1. ASSUME NEW x \in Batches!Requests PROVE BatchOK(req[x])'
  <2>1. PICK q \in Batches!RequestStates : q = req[x] /\ BatchOK(q)
    BY DEF PositionInv
  <2>2. BatchOK(q)' /\ req'[x] = q
    BY <2>1, BatchKept DEF PositionInv
  <2> QED
    BY <2>2 DEF BatchOK, BatchIs, Through
<1> QED
  BY <1>1 DEF PositionInv

\* A contract less, if there is one.
LEMMA TakeOne ==
  ASSUME pool \in [Directions -> Nat], NEW p, Batches!Take(p)
  PROVE  pool' \in [Directions -> Nat]
<1>1. pool' = [pool EXCEPT ![SideOf[p]] = IF pool[SideOf[p]] = 0 THEN 0
                                          ELSE pool[SideOf[p]] - 1]
  BY DEF Batches!Take
<1>2. CASE SideOf[p] \in Directions
  <2>1. (IF pool[SideOf[p]] = 0 THEN 0 ELSE pool[SideOf[p]] - 1) \in Nat
    BY <1>2, SMT
  <2> QED
    BY <1>1, <2>1, Zenon
<1>3. CASE SideOf[p] \notin Directions
  BY <1>1, <1>3
<1> QED
  BY <1>2, <1>3

\* The engine, the exchange, the monitor and the clean-up.
LEMMA WorldMoves ==
  ASSUME RowsOK, NEW p \in Positions,
         \/ Batches!OpenMarket(p) \/ Batches!OpenSave(p) \/ Batches!PlaceFirst(p)
         \/ Batches!MonitorCloses(p) \/ Batches!Leaves(p) \/ Batches!GuardLost(p)
  PROVE  RowMoves /\ req' = req
<1>1. CASE Batches!OpenMarket(p)
  <2>1. pool' \in [Directions -> Nat]
    <3>1. pool' = [pool EXCEPT ![SideOf[p]] = pool[SideOf[p]] + 1] /\ pool \in [Directions -> Nat]
      BY <1>1 DEF Batches!OpenMarket, RowsOK
    <3>2. CASE SideOf[p] \in Directions
      <4>1. pool[SideOf[p]] + 1 \in Nat
        BY <3>1, <3>2, SMT
      <4> QED
        BY <3>1, <4>1, Zenon
    <3>3. CASE SideOf[p] \notin Directions
      BY <3>1, <3>3
    <3> QED
      BY <3>2, <3>3
  <2> QED
    BY <1>1, <2>1 DEF Batches!OpenMarket, RowsOK, RowMoves, Covered, Batches!Guarded
<1>2. CASE Batches!OpenSave(p)
  BY <1>2 DEF Batches!OpenSave, RowsOK, RowMoves, Covered, Batches!Guarded
<1>3. CASE Batches!PlaceFirst(p)
  BY <1>3 DEF Batches!PlaceFirst, RowsOK, RowMoves, Covered, Batches!Guarded
<1>4. CASE Batches!MonitorCloses(p)
  BY <1>4 DEF Batches!MonitorCloses, RowsOK, RowMoves, Covered, Batches!Guarded
<1>5. CASE Batches!Leaves(p)
  <2>1. pool' \in [Directions -> Nat]
    BY <1>5, TakeOne DEF Batches!Leaves, RowsOK
  <2> QED
    BY <1>5, <2>1 DEF Batches!Leaves, RowsOK, RowMoves, Covered, Batches!Guarded
<1>6. CASE Batches!GuardLost(p)
  BY <1>6 DEF Batches!GuardLost, RowsOK, RowMoves, Covered, Batches!Guarded
<1> QED
  BY <1>1, <1>2, <1>3, <1>4, <1>5, <1>6

\* A row is CLOSED, and its guards are gone.
LEMMA SaveMoves ==
  ASSUME RowsOK, NEW p \in Positions, positionRow[p] # "none",
         positionRow' = [positionRow EXCEPT ![p] = "CLOSED"],
         tp' = tp \ {p}, sl' = sl \ {p}, UNCHANGED <<creating, pool, shaken>>
  PROVE  RowMoves
BY DEF RowsOK, RowMoves, Covered, Batches!Guarded

\* Nothing but what the requests are at.
LEMMA NoMoves ==
  ASSUME RowsOK, UNCHANGED <<positionRow, creating, pool, tp, sl, shaken>>
  PROVE  RowMoves
BY DEF RowsOK, RowMoves, Covered, Batches!Guarded

\* A request goes on to the next position, or from one step to the next.
LEMMA IntoOK ==
  ASSUME NEW q \in Walks \cup Works, NEW p \in Positions, NEW at,
         NEW rows, NEW covered, BatchIs(q, rows, covered),
         \/ q.at \in {"closing", "close"} /\ at = "close"
         \/ q.at \in {"closing", "close"} /\ at = "save" /\ rows[p] # "none"
         \/ q.at = "repairing" /\ at = "cancel"
         \/ /\ q.at \in {"cancel", "tp", "sl"} /\ at \in {"tp", "sl", "mend"}
            /\ rows[p] # "none"
            /\ at # "mend" /\ rows[p] = "OPEN" => p \in covered
  PROVE  LET next == [at |-> at, p |-> p, rest |-> q.rest] IN
         next \in Works /\ BatchIs(next, rows, covered)
<1> DEFINE next == [at |-> at, p |-> p, rest |-> q.rest]
<1>1. q.rest \in Batches!Rest
  BY DEF Walks, Works
<1>2. next \in Works
  BY <1>1 DEF Works
<1>3. next.at = at /\ next.p = p /\ next.rest = q.rest
  OBVIOUS
<1> HIDE DEF next
<1>4. BatchIs(next, rows, covered)
  BY <1>3 DEF BatchIs, Through
<1> QED
  BY <1>2, <1>4 DEF next

\* A request is through with a position, or failed at it.
LEMMA BackOK ==
  ASSUME NEW q \in Works, NEW failed \in SUBSET {q.p}, NEW at,
         NEW rows, NEW covered, BatchIs(q, rows, covered),
         \/ q.at \in {"close", "save"} /\ at = "closing"
         \/ q.at \in {"cancel", "tp", "sl", "mend"} /\ at = "repairing",
         \/ failed = {q.p}
         \/ rows[q.p] = "CLOSED"
         \/ at = "repairing" /\ q.p \in covered
  PROVE  LET next == [at |-> at, rest |-> [q.rest EXCEPT !.left = @ \ {q.p},
                                             !.failed = @ \cup failed]]
         IN  next \in Walks /\ BatchIs(next, rows, covered)
<1>1. q.rest \in Batches!Rest /\ q.p \in Positions
  BY DEF Works
<1> PICK t \in Batches!Rest : t = q.rest
  BY <1>1
<1> DEFINE u == [t EXCEPT !.left = t.left \ {q.p}, !.failed = t.failed \cup failed]
<1>2. u \in Batches!Rest /\ u.open = t.open /\ u.left = t.left \ {q.p}
      /\ u.failed = t.failed \cup failed
  BY <1>1 DEF Batches!Rest
<1> HIDE DEF u
<1> DEFINE next == [at |-> at, rest |-> u]
<1>3. next \in Walks /\ next.at = at /\ next.rest = u
  BY <1>2 DEF Walks
<1> HIDE DEF next
<1>4. \A x \in Through(next) : x \in Through(q) \/ (x = q.p /\ q.p \notin failed)
  BY <1>2, <1>3 DEF Through
<1>5. next.rest.open = q.rest.open
  BY <1>2, <1>3
<1>6. BatchIs(next, rows, covered)
  <2>1. CASE at = "closing"
    BY <1>3, <1>4, <2>1 DEF BatchIs
  <2>2. CASE at = "repairing"
    BY <1>3, <1>4, <1>5, <2>2 DEF BatchIs
  <2> QED
    BY <2>1, <2>2
<1> QED
  BY <1>3, <1>6 DEF next, u

\* What every step leaves: rows that move as they may, and requests that have
\* done what they are through with.
Sound ==
    /\ RowMoves
    /\ req' \in [Batches!Requests -> Batches!RequestStates]
    /\ \A x \in Batches!Requests : BatchOK(req[x])'

\* And a step of a batch, which reconciles nothing.
Good(r) == Sound /\ \E q \in Walks \cup Works : Batches!Goto(r, q)

\* A step of a request that gives it such a state is a good one.
LEMMA GoodMove ==
  ASSUME PositionInv, RowMoves, NEW r \in Batches!Requests, NEW q \in Walks \cup Works,
         Batches!Goto(r, q), BatchOK(q) \/ BatchOK(q)'
  PROVE  Good(r)
<1>1. q \in Batches!RequestStates
  BY RequestMembers
<1>2. BatchOK(q)'
  BY <1>1, BatchKept DEF PositionInv
<1> QED
  BY <1>1, <1>2, BatchMoves DEF Good, Sound

\* closeAll and placeTpSlMissing read their list.
LEMMA ListRead ==
  ASSUME PositionInv, NEW r \in Batches!Requests, NEW s \in Scopes,
         Batches!CloseAllStart(r, s) \/ Batches!RepairStart(r, s)
  PROVE  Good(r)
<1> DEFINE open == Batches!OpenRows(s)
<1>1. open \subseteq Positions /\ \A x \in open : positionRow[x] = "OPEN"
  BY DEF Batches!OpenRows
<1>2. ASSUME NEW left \in SUBSET open, NEW at \in {"closing", "repairing"},
             Batches!Batch(r, s, left, at), at = "closing" => left = open,
             \A x \in open \ left : x \in Covered
      PROVE  Good(r)
  <2> DEFINE t == [scope |-> s, open |-> open, left |-> left, failed |-> {}]
  <2>1. t \in Batches!Rest /\ t.open = open /\ t.left = left /\ t.failed = {}
    BY <1>1, <1>2 DEF Batches!Rest
  <2>2. Batches!Goto(r, [at |-> at, rest |-> t])
    BY <1>2 DEF Batches!Batch
  <2> HIDE DEF t, open
  <2> DEFINE q == [at |-> at, rest |-> t]
  <2>3. q \in Walks /\ q.at = at /\ q.rest = t
    BY <1>2, <2>1 DEF Walks
  <2> HIDE DEF q
  <2>4. BatchOK(q)
    BY <1>1, <1>2, <2>1, <2>3 DEF BatchOK, BatchIs, Through
  <2>5. RowMoves
    BY <1>2, NoMoves DEF Batches!Batch, PositionInv
  <2> QED
    BY <2>2, <2>3, <2>4, <2>5, GoodMove DEF q
<1>3. CASE Batches!CloseAllStart(r, s)
  BY <1>2, <1>3 DEF Batches!CloseAllStart
<1>4. CASE Batches!RepairStart(r, s)
  <2> DEFINE left == {p \in open : Batches!NeedsTpSl(p)}
  <2>1. Batches!Batch(r, s, left, "repairing") /\ left \in SUBSET open
    BY <1>4 DEF Batches!RepairStart
  <2>2. \A x \in open \ left : x \in Covered
    BY DEF Batches!NeedsTpSl, Covered, Batches!Guarded
  <2> HIDE DEF left, open
  <2> QED
    BY <1>2, <2>1, <2>2
<1> QED
  BY <1>3, <1>4

\* The loops take the next position, or end.
LEMMA LoopStep ==
  ASSUME PositionInv, NEW r \in Batches!Requests,
         \/ \E p \in Positions : Batches!CloseNext(r, p) \/ Batches!RepairNext(r, p)
         \/ Batches!CloseAllEnds(r) \/ Batches!RepairEnds(r)
  PROVE  Good(r)
<1>1. req[r] \in Batches!RequestStates /\ BatchOK(req[r])
  BY DEF PositionInv
<1>2. RowMoves
  BY NoMoves DEF PositionInv, Batches!CloseNext, Batches!RepairNext, Batches!CloseAllEnds,
     Batches!RepairEnds
<1>3. req[r].at \in {"closing", "repairing"}
  BY DEF Batches!CloseNext, Batches!RepairNext, Batches!CloseAllEnds, Batches!RepairEnds
<1> PICK q \in Walks : q = req[r]
  BY <1>1, <1>3, RequestKinds
<1>4. ASSUME NEW p \in Positions, Batches!CloseNext(r, p) PROVE Good(r)
  <2>1. q.at = "closing" /\ Batches!Goto(r, [at |-> "close", p |-> p, rest |-> q.rest])
    BY <1>4 DEF Batches!CloseNext, Batches!Into
  <2>2. LET next == [at |-> "close", p |-> p, rest |-> q.rest] IN
         next \in Works /\ BatchOK(next)
    BY <1>1, <2>1, IntoOK DEF BatchOK
  <2> QED
    BY <1>2, <2>1, <2>2, GoodMove
<1>5. ASSUME NEW p \in Positions, Batches!RepairNext(r, p) PROVE Good(r)
  <2>1. q.at = "repairing" /\ Batches!Goto(r, [at |-> "cancel", p |-> p, rest |-> q.rest])
    BY <1>5 DEF Batches!RepairNext, Batches!Into
  <2>2. LET next == [at |-> "cancel", p |-> p, rest |-> q.rest] IN
         next \in Works /\ BatchOK(next)
    BY <1>1, <2>1, IntoOK DEF BatchOK
  <2> QED
    BY <1>2, <2>1, <2>2, GoodMove
<1>6. CASE Batches!CloseAllEnds(r) \/ Batches!RepairEnds(r)
  <2>1. PICK at \in {"closed", "repaired"} :
          /\ Batches!Goto(r, [q EXCEPT !.at = at]) /\ q.rest.left = {}
          /\ q.at = IF at = "closed" THEN "closing" ELSE "repairing"
    BY <1>6 DEF Batches!CloseAllEnds, Batches!RepairEnds
  <2> DEFINE next == [q EXCEPT !.at = at]
  <2>2. next \in Walks /\ next.at = at /\ next.rest = q.rest
    BY DEF Walks
  <2>3. Batches!Goto(r, next)
    BY <2>1
  <2> HIDE DEF next
  <2>4. BatchOK(next)
    BY <1>1, <2>1, <2>2 DEF BatchOK, BatchIs, Through
  <2> QED
    BY <1>2, <2>2, <2>3, <2>4, GoodMove
<1> QED
  BY <1>4, <1>5, <1>6

\* closePosition, one of closeAll.
LEMMA CloseStep ==
  ASSUME PositionInv, NEW r \in Batches!Requests, Batches!CloseAtMarket(r)
  PROVE  Good(r)
<1>1. req[r] \in Batches!RequestStates /\ BatchOK(req[r]) /\ req[r].at = "close" /\ RowsOK
  BY DEF PositionInv, Batches!CloseAtMarket
<1> PICK q \in Works : q = req[r]
  BY <1>1, RequestKinds
<1>2. q.p \in Positions
  BY DEF Works
<1>3. CASE positionRow[q.p] = "OPEN" /\ Batches!Take(q.p) /\ Batches!Into(r, q.p, "save")
  <2>1. pool' \in [Directions -> Nat]
    BY <1>1, <1>3, TakeOne DEF RowsOK
  <2>2. RowMoves
    BY <1>1, <2>1 DEF Batches!CloseAtMarket, RowsOK, RowMoves, Covered, Batches!Guarded
  <2>3. Batches!Goto(r, [at |-> "save", p |-> q.p, rest |-> q.rest])
    BY <1>3 DEF Batches!Into
  <2>4. LET next == [at |-> "save", p |-> q.p, rest |-> q.rest] IN
         next \in Works /\ BatchOK(next)
    BY <1>1, <1>2, <1>3, IntoOK DEF BatchOK
  <2> QED
    BY <2>2, <2>3, <2>4, GoodMove
<1>4. CASE Batches!Fails(r, "closing") /\ pool' = pool
  <2>1. RowMoves
    BY <1>1, <1>4, NoMoves DEF Batches!CloseAtMarket
  <2> DEFINE failed == {q.p}
  <2> DEFINE next == [at |-> "closing", rest |-> [q.rest EXCEPT !.left = @ \ {q.p},
                                             !.failed = @ \cup failed]]
  <2>2. Batches!Goto(r, next)
    BY <1>4 DEF Batches!Fails, Batches!Back
  <2>3. next \in Walks /\ BatchOK(next)
    BY <1>1, BackOK DEF BatchOK
  <2> HIDE DEF next
  <2> QED
    BY <2>1, <2>2, <2>3, GoodMove
<1> QED
  BY <1>3, <1>4 DEF Batches!CloseAtMarket

\* closePosition or a replacement saves that it closed one.
LEMMA SaveStep ==
  ASSUME PositionInv, NEW r \in Batches!Requests, Batches!CloseSave(r)
  PROVE  Good(r)
<1>1. req[r] \in Batches!RequestStates /\ BatchOK(req[r]) /\ RowsOK
      /\ req[r].at \in {"save", "mend"}
  BY DEF PositionInv, Batches!CloseSave
<1> PICK q \in Works : q = req[r]
  BY <1>1, RequestKinds
<1>2. q.p \in Positions /\ positionRow[q.p] # "none" /\ q.at \in {"save", "mend"}
  BY <1>1 DEF Works, BatchOK, BatchIs
<1>3. /\ positionRow' = [positionRow EXCEPT ![q.p] = "CLOSED"]
      /\ tp' = tp \ {q.p} /\ sl' = sl \ {q.p}
      /\ UNCHANGED <<creating, pool, placing, shaken>>
  BY DEF Batches!CloseSave
<1>4. RowMoves
  BY <1>1, <1>2, <1>3, SaveMoves
<1>5. positionRow'[q.p] = "CLOSED"
  BY <1>1, <1>2, <1>3 DEF RowsOK
<1> DEFINE at == IF q.at = "save" THEN "closing" ELSE "repairing"
<1> DEFINE failed == {}
<1> DEFINE next == [at |-> at, rest |-> [q.rest EXCEPT !.left = @ \ {q.p},
                                           !.failed = @ \cup failed]]
<1>6. Batches!Goto(r, next)
  BY DEF Batches!CloseSave, Batches!Back
<1>7. BatchOK(q)'
  BY <1>1, <1>4, BatchKept
<1>8. next \in Walks /\ BatchIs(next, positionRow', Covered')
  BY <1>2, <1>5, <1>7, BackOK DEF BatchOK
<1> HIDE DEF next
<1>9. BatchOK(next)'
  BY <1>8 DEF BatchOK
<1> QED
  BY <1>4, <1>6, <1>8, <1>9, GoodMove

\* replenishTpSl begins with a cancel, if the row is still OPEN.
LEMMA RepairCancelStep ==
  ASSUME PositionInv, NEW r \in Batches!Requests, Batches!RepairCancel(r)
  PROVE  Good(r)
<1>1. req[r] \in Batches!RequestStates /\ BatchOK(req[r]) /\ RowsOK
      /\ req[r].at = "cancel"
  BY DEF PositionInv, Batches!RepairCancel
<1> PICK q \in Works : q = req[r]
  BY <1>1, RequestKinds
<1>2. q.p \in Positions
  BY DEF Works
<1>3. CASE /\ positionRow[q.p] = "OPEN"
           /\ tp' = tp \ {q.p} /\ sl' = sl \ {q.p} /\ shaken' = shaken \cup {q.p}
           /\ Batches!Into(r, q.p, "tp")
  <2>1. RowMoves /\ positionRow' = positionRow /\ q.p \in Covered'
    BY <1>1, <1>3 DEF Batches!RepairCancel, RowsOK, RowMoves, Covered, Batches!Guarded
  <2> DEFINE next == [at |-> "tp", p |-> q.p, rest |-> q.rest]
  <2>2. Batches!Goto(r, next)
    BY <1>3 DEF Batches!Into
  <2>3. BatchOK(q)'
    BY <1>1, <2>1, BatchKept
  <2>4. next \in Works /\ BatchIs(next, positionRow', Covered')
    BY <1>1, <1>2, <1>3, <2>1, <2>3, IntoOK DEF BatchOK
  <2> HIDE DEF next
  <2>5. BatchOK(next)'
    BY <2>4 DEF BatchOK
  <2> QED
    BY <2>1, <2>2, <2>4, <2>5, GoodMove
<1>4. CASE Batches!Fails(r, "repairing") /\ UNCHANGED <<tp, sl, shaken>>
  <2>1. RowMoves
    BY <1>1, <1>4, NoMoves DEF Batches!RepairCancel
  <2> DEFINE failed == {q.p}
  <2> DEFINE next == [at |-> "repairing", rest |-> [q.rest EXCEPT !.left = @ \ {q.p},
                                                    !.failed = @ \cup failed]]
  <2>2. Batches!Goto(r, next)
    BY <1>4 DEF Batches!Fails, Batches!Back
  <2>3. next \in Walks /\ BatchOK(next)
    BY <1>1, BackOK DEF BatchOK
  <2> HIDE DEF next
  <2> QED
    BY <2>1, <2>2, <2>3, GoodMove
<1> QED
  BY <1>3, <1>4 DEF Batches!RepairCancel

\* Then it places one guard after the other, closes instead, or fails.
LEMMA RepairPlaceStep ==
  ASSUME PositionInv, NEW r \in Batches!Requests, Batches!RepairPlace(r)
  PROVE  Good(r)
<1>1. req[r] \in Batches!RequestStates /\ BatchOK(req[r]) /\ RowsOK
      /\ req[r].at \in {"tp", "sl"} /\ UNCHANGED <<positionRow, creating, placing>>
  BY DEF PositionInv, Batches!RepairPlace
<1> PICK q \in Works : q = req[r]
  BY <1>1, RequestKinds
<1>2. q.p \in Positions /\ positionRow[q.p] # "none"
      /\ (positionRow[q.p] = "OPEN" => q.p \in Covered)
  BY <1>1 DEF Works, BatchOK, BatchIs
<1>3. ASSUME RowMoves, NEW at \in {"sl", "mend"}, Batches!Into(r, q.p, at)
      PROVE  Good(r)
  <2> DEFINE next == [at |-> at, p |-> q.p, rest |-> q.rest]
  <2>1. Batches!Goto(r, next)
    BY <1>3 DEF Batches!Into
  <2>2. next \in Works /\ BatchOK(next)
    BY <1>1, <1>2, IntoOK DEF BatchOK
  <2> HIDE DEF next
  <2> QED
    BY <1>3, <2>1, <2>2, GoodMove
<1>4. ASSUME RowMoves, NEW failed \in SUBSET {q.p}, Batches!Back(r, "repairing", failed),
             failed = {q.p} \/ q.p \in Covered' \/ positionRow[q.p] = "CLOSED"
      PROVE  Good(r)
  <2> DEFINE next == [at |-> "repairing", rest |-> [q.rest EXCEPT !.left = @ \ {q.p},
                                                    !.failed = @ \cup failed]]
  <2>1. Batches!Goto(r, next)
    BY <1>4 DEF Batches!Back
  <2>2. BatchOK(q)'
    BY <1>1, <1>4, BatchKept
  <2>3. next \in Walks /\ BatchIs(next, positionRow', Covered')
    BY <1>1, <1>4, <2>2, BackOK DEF BatchOK
  <2> HIDE DEF next
  <2>4. BatchOK(next)'
    BY <2>3 DEF BatchOK
  <2> QED
    BY <1>4, <2>1, <2>3, <2>4, GoodMove
<1>5. CASE /\ req[r].at = "tp" /\ tp' = tp \cup {q.p} /\ Batches!Into(r, q.p, "sl")
           /\ UNCHANGED <<pool, sl, shaken>>
  <2>1. RowMoves
    BY <1>1, <1>5 DEF RowsOK, RowMoves, Covered, Batches!Guarded
  <2> QED
    BY <1>3, <1>5, <2>1
<1>6. CASE /\ req[r].at = "sl" /\ sl' = sl \cup {q.p} /\ Batches!Back(r, "repairing", {})
           /\ shaken' = IF q.p \in tp THEN shaken \ {q.p} ELSE shaken
           /\ UNCHANGED <<pool, tp>>
  <2>1. RowMoves
    BY <1>1, <1>6 DEF RowsOK, RowMoves, Covered, Batches!Guarded
  <2>2. q.p \in Covered => q.p \in Covered'
    BY <1>6 DEF Covered, Batches!Guarded
  <2>3. q.p \in Covered' \/ positionRow[q.p] = "CLOSED"
    BY <1>1, <1>2, <2>2 DEF RowsOK
  <2> QED
    BY <1>4, <1>6, <2>1, <2>3
<1>7. CASE Batches!Take(q.p) /\ Batches!Into(r, q.p, "mend") /\ UNCHANGED <<tp, sl, shaken>>
  <2>1. pool' \in [Directions -> Nat]
    BY <1>1, <1>7, TakeOne DEF RowsOK
  <2>2. RowMoves
    BY <1>1, <1>7, <2>1 DEF RowsOK, RowMoves, Covered, Batches!Guarded
  <2> QED
    BY <1>3, <1>7, <2>2
<1>8. CASE Batches!Fails(r, "repairing") /\ UNCHANGED <<pool, tp, sl, shaken>>
  <2>1. RowMoves
    BY <1>1, <1>8, NoMoves
  <2>2. Batches!Back(r, "repairing", {q.p})
    BY <1>8 DEF Batches!Fails
  <2> QED
    BY <1>4, <2>1, <2>2
<1> QED
  BY <1>5, <1>6, <1>7, <1>8 DEF Batches!RepairPlace

\* Rows are counted in whole numbers, the same by both texts of the model.
LEMMA CountedIsNat ==
  ASSUME IsFiniteSet(Positions), NEW s \in Strategies, NEW side \in Directions
  PROVE  /\ Batches!Counted(s, side) \in Nat
         /\ All \notin Strategies => Batches!Counted(s, side) = RowsOn(s, side)
<1>1. \A S : Batches!Cardinality(S) = Cardinality(S)
  BY DEF Cardinality, Batches!Cardinality
<1> DEFINE T == {p \in Batches!OpenRows(s) : SideOf[p] = side}
<1>2. T \subseteq Positions
  BY DEF Batches!OpenRows
<1>3. Cardinality(T) \in Nat
  BY <1>2, FS_Subset, FS_CardinalityType
<1>4. Batches!Counted(s, side) = Cardinality(T)
  BY <1>1 DEF Batches!Counted
<1>5. ASSUME All \notin Strategies
      PROVE  T = {p \in Positions : SideOf[p] = side /\ positionRow[p] = "OPEN"
                                     /\ StrategyOf[p] = s}
  <2>1. s # All
    BY <1>5
  <2> QED
    BY <2>1 DEF Batches!OpenRows
<1> HIDE DEF T
<1> QED
  BY <1>3, <1>4, <1>5 DEF RowsOn

\* The comparison of a side, with what was read of it before.
LEMMA CompareGives ==
  ASSUME NEW r \in Batches!Requests, NEW q \in Compares, q = req[r],
         NEW side \in Directions, pool \in [Directions -> Nat], Batches!Compare(r, side)
  PROVE  \E word \in {"MATCHED", "DB_HEAVY", "EXCHANGE_HEAVY"} :
            /\ Batches!Goto(r, [q EXCEPT !.verdict[side] = word])
            /\ q.rows[side] = pool[side] => word = "MATCHED"
<1> DEFINE diff == q.rows[side] - pool[side]
<1>1. q.rows[side] \in Nat /\ pool[side] \in Nat
  BY DEF Compares
<1>2. diff \in Int /\ (q.rows[side] = pool[side] => diff = 0)
  BY <1>1
<1>3. Batches!Goto(r, [q EXCEPT !.verdict[side] =
                  CASE diff = 0 -> "MATCHED"
                    [] diff > 0 -> "DB_HEAVY"
                    [] diff < 0 -> "EXCHANGE_HEAVY"])
  BY DEF Batches!Compare
<1> HIDE DEF diff
<1>4. CASE diff = 0
  BY <1>2, <1>3, <1>4
<1>5. CASE diff > 0
  <2>1. ~(diff = 0) /\ ~(diff < 0)
    BY <1>2, <1>5
  <2> QED
    BY <1>2, <1>3, <1>5, <2>1
<1>6. CASE diff < 0
  <2>1. ~(diff = 0) /\ ~(diff > 0)
    BY <1>2, <1>6
  <2> QED
    BY <1>2, <1>3, <1>6, <2>1
<1> QED
  BY <1>2, <1>4, <1>5, <1>6

\* reconcile moves nothing and is no batch.
LEMMA CompareStep ==
  ASSUME PositionInv, IsFiniteSet(Positions), NEW r \in Batches!Requests,
         \/ \E s \in Strategies : Batches!CompareStart(r, s)
         \/ \E side \in Directions : Batches!Compare(r, side)
         \/ Batches!CompareEnds(r)
  PROVE  Sound
<1>1. RowMoves
  BY NoMoves DEF PositionInv, Batches!CompareStart, Batches!Compare, Batches!CompareEnds
<1>2. ASSUME NEW q \in Batches!RequestStates, q.at \in {"idle", "compare"},
             Batches!Goto(r, q)
      PROVE  Sound
  <2>1. BatchOK(q)'
    BY <1>2 DEF BatchOK, BatchIs
  <2> QED
    BY <1>1, <1>2, <2>1, BatchMoves DEF Good, Sound
<1>3. ASSUME NEW s \in Strategies, Batches!CompareStart(r, s) PROVE Sound
  <2> DEFINE q == [at |-> "compare", strategy |-> s,
                   rows |-> [side \in Directions |-> Batches!Counted(s, side)],
                   verdict |-> [side \in Directions |-> ""]]
  <2>1. \A side \in Directions : Batches!Counted(s, side) \in Nat
    BY CountedIsNat
  <2>2. q \in Compares
    BY <2>1 DEF Compares
  <2>3. Batches!Goto(r, q) /\ q.at = "compare"
    BY <1>3 DEF Batches!CompareStart
  <2> HIDE DEF q
  <2> QED
    BY <1>2, <2>2, <2>3, RequestMembers
<1>4. ASSUME NEW side \in Directions, Batches!Compare(r, side) PROVE Sound
  <2>1. req[r].at = "compare" /\ req[r] \in Batches!RequestStates
    BY <1>4 DEF Batches!Compare, PositionInv
  <2> PICK q \in Compares : q = req[r]
    BY <2>1, RequestKinds
  <2>2. PICK word \in {"MATCHED", "DB_HEAVY", "EXCHANGE_HEAVY"} :
          Batches!Goto(r, [q EXCEPT !.verdict[side] = word])
    BY <1>4, CompareGives DEF PositionInv, RowsOK
  <2> DEFINE next == [q EXCEPT !.verdict[side] = word]
  <2>3. next \in Compares /\ next.at = "compare"
    BY DEF Compares
  <2>4. Batches!Goto(r, next)
    BY <2>2
  <2> HIDE DEF next
  <2> QED
    BY <1>2, <2>3, <2>4, RequestMembers
<1>5. CASE Batches!CompareEnds(r)
  <2>1. Batches!IdleRequest.at = "idle" /\ Batches!Goto(r, Batches!IdleRequest)
    BY <1>5 DEF Batches!CompareEnds, Batches!IdleRequest
  <2> QED
    BY <1>2, <2>1, RequestMembers
<1> QED
  BY <1>3, <1>4, <1>5

\* The history of a reconciliation counts the rows as they are counted here.
LEMMA SameCount ==
  ASSUME NEW s, NEW side \in Directions,
         side \notin Batches!Disagree(positionRow', pool', s)
  PROVE  pool'[side] = RowsOn(s, side)'
<1> DEFINE Those == {p \in Positions : SideOf[p] = side /\ positionRow'[p] = "OPEN"
                                       /\ StrategyOf[p] = s}
<1>1. {p \in Batches!OnSide(side) : positionRow'[p] = "OPEN" /\ StrategyOf[p] = s} = Those
  BY DEF Batches!OnSide
<1>2. \A S : Batches!Cardinality(S) = Cardinality(S)
  BY DEF Cardinality, Batches!Cardinality
<1>3. pool'[side] = Batches!Cardinality(
          {p \in Batches!OnSide(side) : positionRow'[p] = "OPEN" /\ StrategyOf[p] = s})
  BY DEF Batches!Disagree
<1>4. RowsOn(s, side)' = Cardinality(Those)
  BY DEF RowsOn
<1> HIDE DEF Those
<1> QED
  BY <1>1, <1>2, <1>3, <1>4

\* A side that agrees now, since it was read: what was read of it still holds,
\* because no step moves rows and contracts at once.
LEMMA AuditKept ==
  ASSUME PositionInv, Sound, Batches!Watched, NEW r \in Batches!Requests,
         req'[r].at = "compare", req[r].at = "compare",
         req'[r].strategy = req[r].strategy, req'[r].rows = req[r].rows,
         \A side \in Directions :
            \/ req'[r].verdict[side] = req[r].verdict[side]
            \/ req[r].rows[side] = pool[side] => req'[r].verdict[side] = "MATCHED"
  PROVE  AuditOK(r)'
<1> SUFFICES ASSUME NEW side \in Directions \ watch'[r]
             PROVE  /\ req'[r].rows[side] = pool'[side]
                    /\ pool'[side] = RowsOn(req[r].strategy, side)'
                    /\ req'[r].verdict[side] \in {"", "MATCHED"}
  BY DEF AuditOK, RowsOn
<1>1. watch'[r] = watch[r] \cup Batches!Disagree(positionRow', pool', req[r].strategy)
  BY DEF Batches!Watched
<1>2. pool'[side] = RowsOn(req[r].strategy, side)'
  BY <1>1, SameCount
<1>3. /\ req[r].rows[side] = pool[side]
      /\ pool[side] = RowsOn(req[r].strategy, side)
      /\ req[r].verdict[side] \in {"", "MATCHED"}
  BY <1>1 DEF PositionInv, AuditOK
<1>4. req[r].rows[side] = pool'[side]
  <2>1. CASE pool' = pool
    BY <1>3, <2>1
  <2>2. CASE positionRow' = positionRow
    BY <1>2, <1>3, <2>2 DEF RowsOn
  <2> QED
    BY <2>1, <2>2 DEF Sound, RowMoves
<1> QED
  BY <1>2, <1>3, <1>4

\* A reconciliation that begins: what it read agrees, or the side is watched.
LEMMA AuditBegins ==
  ASSUME PositionInv, IsFiniteSet(Positions), All \notin Strategies, Batches!Watched,
         NEW r \in Batches!Requests, NEW s \in Strategies, Batches!CompareStart(r, s)
  PROVE  AuditOK(r)'
<1> DEFINE q == [at |-> "compare", strategy |-> s,
                 rows |-> [side \in Directions |-> Batches!Counted(s, side)],
                 verdict |-> [side \in Directions |-> ""]]
<1>1. req'[r] = q
  BY DEF Batches!CompareStart, Batches!Goto, PositionInv
<1>2. /\ q.at = "compare" /\ q.strategy = s
      /\ \A side \in Directions : q.rows[side] = RowsOn(s, side) /\ q.verdict[side] = ""
  BY CountedIsNat
<1> HIDE DEF q
<1>3. watch'[r] = Batches!Disagree(positionRow', pool', s)
  BY <1>1, <1>2 DEF Batches!Watched, Batches!CompareStart
<1>4. \A side \in Directions \ watch'[r] : pool'[side] = RowsOn(s, side)'
  BY <1>3, SameCount
<1>5. \A side \in Directions : RowsOn(s, side)' = RowsOn(s, side)
  BY DEF Batches!CompareStart, RowsOn
<1> SUFFICES ASSUME NEW side \in Directions \ watch'[r]
             PROVE  /\ q.rows[side] = pool'[side]
                    /\ pool'[side] = RowsOn(s, side)'
                    /\ q.verdict[side] \in {"", "MATCHED"}
  <2>1. req'[r].strategy = s
    BY <1>1, <1>2
  <2> QED
    BY <1>1, <2>1 DEF AuditOK, RowsOn
<1> QED
  BY <1>2, <1>4, <1>5

\* Every reconciliation, whatever step is taken.
LEMMA AuditStep ==
  ASSUME PositionInv, IsFiniteSet(Positions), All \notin Strategies, Sound,
         Batches!Watched,
         \/ req' = req
         \/ \E r \in Batches!Requests :
               \/ \E q \in Walks \cup Works : Batches!Goto(r, q)
               \/ \E s \in Strategies : Batches!CompareStart(r, s)
               \/ \E side \in Directions : Batches!Compare(r, side)
               \/ Batches!CompareEnds(r)
  PROVE  \A x \in Batches!Requests : AuditOK(x)'
<1>1. ASSUME NEW x \in Batches!Requests, req'[x] = req[x] PROVE AuditOK(x)'
  BY <1>1, AuditKept DEF AuditOK
<1>2. ASSUME NEW x \in Batches!Requests, req'[x].at # "compare" PROVE AuditOK(x)'
  BY <1>2 DEF AuditOK
<1>3. CASE req' = req
  BY <1>1, <1>3
<1>4. ASSUME NEW r \in Batches!Requests, NEW q \in Batches!RequestStates,
             Batches!Goto(r, q), q.at = "compare" => AuditOK(r)'
      PROVE  \A x \in Batches!Requests : AuditOK(x)'
  BY <1>1, <1>2, <1>4, RequestMoves
<1>5. ASSUME NEW r \in Batches!Requests, NEW q \in Walks \cup Works, Batches!Goto(r, q)
      PROVE  \A x \in Batches!Requests : AuditOK(x)'
  <2>1. q \in Batches!RequestStates /\ q.at # "compare"
    BY RequestMembers DEF Walks, Works
  <2> QED
    BY <1>4, <1>5, <2>1
<1>6. ASSUME NEW r \in Batches!Requests, NEW s \in Strategies, Batches!CompareStart(r, s)
      PROVE  \A x \in Batches!Requests : AuditOK(x)'
  <2>1. AuditOK(r)'
    BY <1>6, AuditBegins
  <2>2. \A x \in Batches!Requests : x # r => req'[x] = req[x]
    BY <1>6 DEF Batches!CompareStart, Batches!Goto, PositionInv
  <2> QED
    BY <1>1, <2>1, <2>2
<1>7. ASSUME NEW r \in Batches!Requests, NEW side \in Directions, Batches!Compare(r, side)
      PROVE  \A x \in Batches!Requests : AuditOK(x)'
  <2>1. req[r].at = "compare" /\ req[r] \in Batches!RequestStates
    BY <1>7 DEF Batches!Compare, PositionInv
  <2> PICK q \in Compares : q = req[r]
    BY <2>1, RequestKinds
  <2>2. PICK word \in {"MATCHED", "DB_HEAVY", "EXCHANGE_HEAVY"} :
          /\ Batches!Goto(r, [q EXCEPT !.verdict[side] = word])
          /\ q.rows[side] = pool[side] => word = "MATCHED"
    BY <1>7, CompareGives DEF PositionInv, RowsOK
  <2> DEFINE next == [q EXCEPT !.verdict[side] = word]
  <2>3. /\ next \in Compares /\ next.at = "compare" /\ next.strategy = q.strategy
        /\ next.rows = q.rows /\ next.verdict[side] = word
        /\ \A other \in Directions : other # side => next.verdict[other] = q.verdict[other]
    BY DEF Compares
  <2>4. Batches!Goto(r, next)
    BY <2>2
  <2> HIDE DEF next
  <2>5. req'[r] = next /\ \A x \in Batches!Requests : x # r => req'[x] = req[x]
    BY <2>3, <2>4, RequestMembers, RequestMoves
  <2>6. AuditOK(r)'
    BY <2>1, <2>2, <2>3, <2>5, AuditKept
  <2> QED
    BY <1>1, <2>5, <2>6
<1>8. ASSUME NEW r \in Batches!Requests, Batches!CompareEnds(r)
      PROVE  \A x \in Batches!Requests : AuditOK(x)'
  <2>1. Batches!Goto(r, Batches!IdleRequest) /\ Batches!IdleRequest.at # "compare"
    BY <1>8 DEF Batches!CompareEnds, Batches!IdleRequest
  <2> QED
    BY <1>4, <2>1, RequestMembers
<1> QED
  BY <1>3, <1>5, <1>6, <1>7, <1>8

\* Batches by itself.
LEMMA BatchesAlone ==
  ASSUME IsFiniteSet(Positions), Existing \subseteq Positions, All \notin Strategies
  PROVE  Batches!PositionSpec => []PositionInv
<1>1. Batches!PositionInit => PositionInv
  <2> SUFFICES ASSUME Batches!PositionInit PROVE PositionInv
    OBVIOUS
  <2>1. \A S \in SUBSET Positions : Batches!Cardinality(S) \in Nat
    BY FS_Subset, FS_CardinalityType DEF Cardinality, Batches!Cardinality
  <2>2. RowsOK
    <3>1. \A side \in Directions : Batches!Cardinality({p \in Existing : SideOf[p] = side}) \in Nat
      BY <2>1
    <3>2. pool \in [Directions -> Nat]
      BY <3>1 DEF Batches!PositionInit
    <3> QED
      BY <3>2 DEF RowsOK, Batches!PositionInit
  <2>3. \A r \in Batches!Requests : req[r] = Batches!IdleRequest /\ req[r].at = "idle"
    BY DEF Batches!PositionInit, Batches!IdleRequest
  <2>4. \A r \in Batches!Requests : BatchOK(req[r]) /\ AuditOK(r)
    BY <2>3 DEF BatchOK, BatchIs, AuditOK
  <2>5. req \in [Batches!Requests -> Batches!RequestStates]
    BY RequestMembers DEF Batches!PositionInit
  <2> QED
    BY <2>2, <2>4, <2>5 DEF PositionInv
<1>2. PositionInv /\ [Batches!PositionNext]_(Batches!positionVars) => PositionInv'
  <2> SUFFICES ASSUME PositionInv, [Batches!PositionNext]_(Batches!positionVars)
               PROVE  PositionInv'
    OBVIOUS
  <2>1. CASE UNCHANGED Batches!positionVars
    <3>1. RowMoves /\ req' = req
      BY <2>1, NoMoves DEF Batches!positionVars, PositionInv
    <3>2. ASSUME NEW r \in Batches!Requests PROVE AuditOK(r)'
      <4>1. AuditOK(r)
        BY DEF PositionInv
      <4> QED
        BY <2>1, <4>1 DEF Batches!positionVars, AuditOK, RowsOn
    <3> QED
      BY <3>1, <3>2, BatchRests DEF PositionInv, RowMoves
  <2>2. CASE Batches!PositionNext
    <3>1. Batches!Watched /\ Batches!PositionStep
      BY <2>2 DEF Batches!PositionNext
    <3>2. ASSUME Sound,
                 \/ req' = req
                 \/ \E r \in Batches!Requests :
                       \/ \E q \in Walks \cup Works : Batches!Goto(r, q)
                       \/ \E s \in Strategies : Batches!CompareStart(r, s)
                       \/ \E side \in Directions : Batches!Compare(r, side)
                       \/ Batches!CompareEnds(r)
          PROVE  PositionInv'
      BY <3>1, <3>2, AuditStep DEF PositionInv, Sound, RowMoves
    <3>3. ASSUME NEW p \in Positions,
                 \/ Batches!OpenMarket(p) \/ Batches!OpenSave(p) \/ Batches!PlaceFirst(p)
                 \/ Batches!MonitorCloses(p) \/ Batches!Leaves(p) \/ Batches!GuardLost(p)
          PROVE  PositionInv'
      <4>1. RowMoves /\ req' = req
        BY <3>3, WorldMoves DEF PositionInv
      <4> QED
        BY <3>2, <4>1, BatchRests DEF Sound
    <3>4. ASSUME NEW r \in Batches!Requests, Good(r) PROVE PositionInv'
      BY <3>2, <3>4 DEF Good
    <3>5. ASSUME NEW r \in Batches!Requests,
                 \/ \E s \in Strategies : Batches!CompareStart(r, s)
                 \/ \E side \in Directions : Batches!Compare(r, side)
                 \/ Batches!CompareEnds(r)
          PROVE  PositionInv'
      BY <3>2, <3>5, CompareStep
    <3>6. ASSUME NEW r \in Batches!Requests,
                 \/ \E s \in Scopes : Batches!CloseAllStart(r, s) \/ Batches!RepairStart(r, s)
                 \/ \E p \in Positions : Batches!CloseNext(r, p) \/ Batches!RepairNext(r, p)
                 \/ Batches!CloseAtMarket(r) \/ Batches!CloseAllEnds(r)
                 \/ Batches!RepairCancel(r) \/ Batches!RepairPlace(r) \/ Batches!RepairEnds(r)
                 \/ Batches!CloseSave(r)
          PROVE  PositionInv'
      BY <3>4, <3>6, ListRead, LoopStep, CloseStep, SaveStep, RepairCancelStep,
         RepairPlaceStep
    <3> QED
      BY <3>1, <3>3, <3>5, <3>6 DEF Batches!PositionStep, Batches!Requests
  <2> QED
    BY <2>1, <2>2
<1> QED
  BY <1>1, <1>2, PTL DEF Batches!PositionSpec

\* For any positions, and any requests in any order, what closeAll, the repair
\* and the reconciliation report at their end is so.
THEOREM BatchesStayTrue == ServicesSpec => []BatchesAreTrue
<1>1. Batches!PositionSpec => []PositionInv
  BY BatchAssumption, BatchesAlone
<1>2. PositionInv => Batches!BatchesAreTrue
  <2> SUFFICES ASSUME PositionInv PROVE Batches!BatchesAreTrue
    OBVIOUS
  <2>1. Batches!CloseAllCloses /\ Batches!RepairedIsGuarded
    BY DEF PositionInv, BatchOK, BatchIs, Through, Covered, Batches!CloseAllCloses,
       Batches!RepairedIsGuarded
  <2>2. Batches!AlarmsAreReal
    BY DEF PositionInv, AuditOK, Batches!AlarmsAreReal
  <2> QED
    BY <2>1, <2>2 DEF Batches!BatchesAreTrue
<1> QED
  BY <1>1, <1>2, BatchesRun, PTL DEF BatchesAreTrue

----------------------------------------------------------------------------
(* OrphanOrders: whose orders a pass finds, claims and cancels              *)

\* No two positions of a side have triggers within the tolerance.
TriggersApart ==
    \A p, q \in OrphanPositions : OrphanSideOf[p] = OrphanSideOf[q]
        /\ BandOf[p] = BandOf[q] => p = q

\* No account is the LONG one of a strategy and the SHORT one of another.
Uncrossed ==
    \A s, u \in OrphanStrategies : ShortOf[u] # NoAccount => LongOf[s] # ShortOf[u]

\* What a guard may have come to while its position is open.
Accounted == live \cup gone \cup late

RecordsOK ==
    /\ status \in [OrphanPositions -> {"none", "open", "closed"}]
    /\ row \in [OrphanPositions -> {"none", "PENDING", "CANCELED"}]
    /\ exId \in [OrphanPositions -> Orphan!Ids \cup {Orphan!NoId}]
    /\ live \subseteq OrphanPositions /\ gone \subseteq OrphanPositions
    /\ late \subseteq OrphanPositions /\ spared \subseteq OrphanPositions
    /\ closing \subseteq OrphanPositions
    /\ \A p \in closing : status[p] = "closed"
    /\ \A p \in OrphanPositions :
         /\ status[p] = "none" => row[p] = "none"
         /\ exId[p] \in {Orphan!Index(p), Orphan!Client(p), Orphan!NoId}
         /\ row[p] # "none" => exId[p] # Orphan!NoId
    /\ Orphan!CanceledIsDead /\ Orphan!GuardsAreSpared

\* What a placement relies on, given the positions and the orders there are.
PlaceIs(q, st, rw, lv, known) ==
    q.at # "idle" =>
      /\ st[q.pos] = "open" /\ rw[q.pos] = "none"
      /\ q.at = "row" => q.pos \in known
      /\ \A o \in q.closed : st[o] = "closed"
      /\ q.at \in {"book", "rows", "match", "free"} =>
           /\ Orphan!AccountOf(q.pos) \in LighterAccounts
           /\ \A o \in q.book : Orphan!AccountOf(o) = Orphan!AccountOf(q.pos)
      /\ q.at = "match" =>
           /\ q.rows \cap q.closed = {}
           /\ \A o \in q.book \cap q.known : o \in q.rows \/ st[o] = "closed"
      /\ q.at = "free" => \A o \in q.book \cap q.known : st[o] = "closed"
      /\ q.at \in {"rows", "match", "free", "send"}
             /\ Orphan!AccountOf(q.pos) \in LighterAccounts =>
           \A o \in q.closed : Orphan!AccountOf(o) = Orphan!AccountOf(q.pos) =>
               o \notin lv \/ o \in q.kept \/ (q.at # "send" /\ o \in q.book)

\* Where a scan still has an order that is to be cleaned up.
Awaits(q, p) ==
    \/ q.at \in {"rows", "book", "match"} /\ \E g \in q.groups :
           Orphan!AccountOf(p) \in Orphan!Accounts(g)
    \/ q.at = "book" /\ Orphan!AccountOf(p) \in Orphan!Accounts(q.group)
    \/ q.at = "match" /\ p \in q.book
    \/ q.at # "done" /\ \E x \in q.orphans : x.kind = "exchange" /\ x.order = p

\* What an orphan in a report is.
OrphanIs(q, x, st) ==
    \/ /\ x.kind = "exchange" /\ x.row \in {0, x.order}
       /\ x.order \in q.known => st[x.order] = "closed"
    \/ x.kind = "db" /\ x.row = x.order /\ st[x.order] = "closed"

\* What a scan relies on.
ScanIs(q, st, lv) ==
    q.at # "idle" =>
      /\ \A p \in q.closed : st[p] = "closed"
      /\ \A x \in q.orphans : OrphanIs(q, x, st)
      /\ \A h \in q.heal : h[1] = h[2]
      /\ q.at \in {"book", "match"} =>
           /\ q.group \in OrphanStrategies
           /\ \A p \in q.rows : st[p] = "closed"
           /\ q.pool \cap q.closed = {}
      /\ q.at = "book" => \A o \in q.known :
           Orphan!AccountOf(o) \in Orphan!Accounts(q.group) =>
               st[o] = "closed" \/ o \in q.pool
      /\ q.at = "match" => \A o \in q.book \cap q.known : st[o] = "closed" \/ o \in q.pool
      /\ \A p \in q.closed : p \notin lv \/ p \in q.kept \/ Awaits(q, p)

PlacesOK ==
    /\ place \in [Placers -> Orphan!PlaceStates]
    /\ \A t \in Placers : PlaceIs(place[t], status, row, live, Accounted)
    /\ \A t, u \in Placers :
         place[t].at # "idle" /\ place[u].at # "idle" /\ place[t].pos = place[u].pos =>
             t = u

ScanOK == scan \in Orphan!ScanStates /\ ScanIs(scan, status, live)

OrphanInv == RecordsOK /\ PlacesOK /\ ScanOK

\* What any step may do to the positions and their guards.
OrphanMoves ==
    /\ RecordsOK'
    /\ \A p \in OrphanPositions :
         /\ status[p] = "closed" => status'[p] = "closed"
         /\ status[p] = "closed" /\ p \notin live => p \notin live'
         /\ status[p] = "open" => status'[p] \in {"open", "closed"}
         /\ status[p] = "open" /\ p \in Accounted => p \in Accounted'

\* ... while a placement is not touched.
PlaceRests(t) ==
    /\ place'[t] = place[t]
    /\ place[t].at # "idle" =>
         status'[place[t].pos] = "open" /\ row'[place[t].pos] = "none"

Placings == [at : {"book", "rows", "match", "free", "send", "row"}, pos : OrphanPositions,
     book : SUBSET OrphanPositions, rows : SUBSET OrphanPositions,
     known : SUBSET OrphanPositions, closed : SUBSET OrphanPositions,
     kept : SUBSET OrphanPositions]

Scans == [at : {"rows", "book", "match", "clean", "done"},
     groups : SUBSET OrphanStrategies, group : OrphanStrategies \cup {0},
     rows : SUBSET OrphanPositions, pool : SUBSET OrphanPositions,
     book : SUBSET OrphanPositions, heal : SUBSET (OrphanPositions \X OrphanPositions),
     orphans : SUBSET Orphan!Orphans, known : SUBSET OrphanPositions,
     closed : SUBSET OrphanPositions, kept : SUBSET OrphanPositions]

\* A placement or a scan is idle or in the middle of its work.
LEMMA PlaceKinds ==
  ASSUME NEW q \in Orphan!PlaceStates
  PROVE  /\ q.at # "idle" => q \in Placings
         /\ q = Orphan!IdlePlace \/ q.at # "idle"
BY DEF Orphan!PlaceStates, Placings, Orphan!IdlePlace

\* A scan, likewise.
LEMMA ScanKinds ==
  ASSUME NEW q \in Orphan!ScanStates
  PROVE  /\ q.at # "idle" => q \in Scans
         /\ q = Orphan!IdleScan \/ q.at # "idle"
BY DEF Orphan!ScanStates, Scans, Orphan!IdleScan

\* The states a placement and a scan are given are states they can be in.
LEMMA OrphanMembers ==
  /\ Placings \subseteq Orphan!PlaceStates /\ Orphan!IdlePlace \in Orphan!PlaceStates
  /\ Scans \subseteq Orphan!ScanStates /\ Orphan!IdleScan \in Orphan!ScanStates
  /\ Orphan!IdlePlace.at = "idle" /\ Orphan!IdleScan.at = "idle"
BY DEF Orphan!PlaceStates, Placings, Orphan!ScanStates, Scans, Orphan!IdlePlace,
    Orphan!IdleScan

\* The ids of different orders are different.
LEMMA IdsDiffer ==
  ASSUME NEW p \in OrphanPositions, NEW o \in OrphanPositions,
             NEW id \in {Orphan!Index(p), Orphan!Client(p), Orphan!NoId}
  PROVE  /\ Orphan!SameId(id, o) => o = p
         /\ id # Orphan!NoId => Orphan!SameId(id, p) /\ id.of = p
         /\ Orphan!Index(p) \in Orphan!Ids /\ Orphan!Client(p) \in Orphan!Ids
                /\ Orphan!Index(p) # Orphan!NoId /\ Orphan!Client(p) # Orphan!NoId
         /\ Orphan!Index(p).of = p /\ Orphan!Client(p).of = p
                /\ Orphan!Index(p).kind = "index"
BY DEF Orphan!SameId, Orphan!Index, Orphan!Client, Orphan!NoId, Orphan!Ids

\* A row only ever finds the order of its own position.
LEMMA OrderForOwn ==
  ASSUME TriggersApart, RecordsOK, NEW r \in OrphanPositions,
             NEW A \in SUBSET OrphanPositions
  PROVE  Orphan!OrderFor(r, A) = A \cap {r}
<1>1. \A o \in A : Orphan!Alike(r, o) <=> o = r
  BY DEF Orphan!Alike, TriggersApart
<1>2. \A o \in A : Orphan!SameId(exId[r], o) => o = r
  BY IdsDiffer DEF RecordsOK
<1> QED
  BY <1>1, <1>2 DEF Orphan!OrderFor

\* Healing keeps the ids of the positions apart.
LEMMA HealedOwn ==
  ASSUME RecordsOK, NEW r \in OrphanPositions
  PROVE  /\ Orphan!Healed(r, r) \in [OrphanPositions -> Orphan!Ids \cup {Orphan!NoId}]
         /\ \A p \in OrphanPositions :
              /\ Orphan!Healed(r, r)[p] \in {Orphan!Index(p), Orphan!Client(p), Orphan!NoId}
              /\ exId[p] # Orphan!NoId => Orphan!Healed(r, r)[p] # Orphan!NoId
<1>1. Orphan!Index(r) \in Orphan!Ids /\ Orphan!Index(r) # Orphan!NoId
  BY IdsDiffer
<1> QED
  BY <1>1 DEF Orphan!Healed, RecordsOK

\* One account of Lighter carries one side.
LEMMA OneSide ==
  ASSUME Uncrossed, NEW p \in OrphanPositions, NEW q \in OrphanPositions,
         Orphan!AccountOf(p) = Orphan!AccountOf(q), Orphan!AccountOf(p) \in LighterAccounts
  PROVE  OrphanSideOf[p] = OrphanSideOf[q]
BY OrphanAssumption DEF Uncrossed, Orphan!AccountOf

\* The rows of a group are those of all positions on its accounts.
LEMMA GroupIsWhole ==
  ASSUME Uncrossed, NEW s \in OrphanStrategies, NEW p \in OrphanPositions,
         Orphan!AccountOf(p) \in Orphan!Accounts(s)
  PROVE  Orphan!SharesAccounts(s, OrphanStrategyOf[p])
BY OrphanAssumption DEF Uncrossed, Orphan!AccountOf, Orphan!Accounts, Orphan!SharesAccounts

\* Every account of the strategies in scope is an account of some group.
LEMMA GroupsCover ==
  ASSUME NEW scope \in SUBSET OrphanStrategies, NEW s \in scope
  PROVE  \E g \in Orphan!ScanGroups(scope) : Orphan!Accounts(g) = Orphan!Accounts(s)
<1> DEFINE alike == {u \in scope : LongOf[u] = LongOf[s] /\ ShortOf[u] = ShortOf[s]}
<1>1. alike \in SUBSET OrphanStrategies /\ s \in alike
  OBVIOUS
<1>2. PICK g \in alike : \A u \in alike : g <= u
  BY <1>1, OrphanAssumption
<1>3. g \in Orphan!ScanGroups(scope)
  BY <1>2 DEF Orphan!ScanGroups
<1> QED
  BY <1>2, <1>3 DEF Orphan!Accounts

----------------------------------------------------------------------------
(* What the steps of others leave                                           *)

\* What a placement relies on stays while others move.
LEMMA PlaceStays ==
  ASSUME OrphanMoves, NEW q \in Orphan!PlaceStates,
         PlaceIs(q, status, row, live, Accounted),
         q.at # "idle" => status'[q.pos] = "open" /\ row'[q.pos] = "none"
  PROVE  PlaceIs(q, status', row', live', Accounted')
<1> SUFFICES ASSUME q.at # "idle"
             PROVE  PlaceIs(q, status', row', live', Accounted')
  BY DEF PlaceIs
<1>1. /\ q.pos \in OrphanPositions /\ q.closed \subseteq OrphanPositions
             /\ q.book \subseteq OrphanPositions
      /\ q.known \subseteq OrphanPositions
  BY PlaceKinds DEF Placings
<1>2. /\ status'[q.pos] = "open" /\ row'[q.pos] = "none" /\ status[q.pos] = "open"
      /\ q.at = "row" => q.pos \in Accounted'
  BY <1>1 DEF PlaceIs, OrphanMoves
<1>3. \A o \in q.closed : status'[o] = "closed" /\ (o \notin live => o \notin live')
  BY <1>1 DEF PlaceIs, OrphanMoves
<1>4. \A o \in q.book : status[o] = "closed" => status'[o] = "closed"
  BY <1>1 DEF OrphanMoves
<1> QED
  BY <1>2, <1>3, <1>4 DEF PlaceIs

\* So does what a scan relies on.
LEMMA ScanStays ==
  ASSUME OrphanMoves, NEW q \in Orphan!ScanStates, ScanIs(q, status, live)
  PROVE  ScanIs(q, status', live')
<1> SUFFICES ASSUME q.at # "idle"
             PROVE  ScanIs(q, status', live')
  BY DEF ScanIs
<1>1. /\ q.closed \subseteq OrphanPositions /\ q.rows \subseteq OrphanPositions
      /\ q.known \subseteq OrphanPositions /\ q.orphans \subseteq Orphan!Orphans
  BY ScanKinds DEF Scans
<1>2. /\ \A p \in q.closed : status'[p] = "closed" /\ (p \notin live => p \notin live')
      /\ \A p \in q.known : status[p] = "closed" => status'[p] = "closed"
      /\ q.at \in {"book", "match"} => \A p \in q.rows : status'[p] = "closed"
  BY <1>1 DEF ScanIs, OrphanMoves
<1>3. \A x \in q.orphans : OrphanIs(q, x, status')
  <2> SUFFICES ASSUME NEW x \in q.orphans PROVE OrphanIs(q, x, status')
    OBVIOUS
  <2>1. x.order \in OrphanPositions /\ OrphanIs(q, x, status)
    BY <1>1 DEF ScanIs, Orphan!Orphans
  <2> QED
    BY <2>1 DEF OrphanIs, OrphanMoves
<1> QED
  BY <1>2, <1>3 DEF ScanIs

\* A step that does not touch the scan keeps what it relies on.
LEMMA RestingScan ==
  ASSUME OrphanInv, OrphanMoves, scan' = scan
  PROVE  ScanOK'
BY ScanStays DEF OrphanInv, ScanOK

\* A step that touches no placement keeps what each of them relies on.
LEMMA RestingPlaces ==
  ASSUME OrphanInv, OrphanMoves, place' = place, \A t \in Placers : PlaceRests(t)
  PROVE  PlacesOK'
<1>1. \A t \in Placers : PlaceIs(place[t], status', row', live', Accounted')
  <2> SUFFICES ASSUME NEW t \in Placers
               PROVE  PlaceIs(place[t], status', row', live', Accounted')
    OBVIOUS
  <2>1. place[t] \in Orphan!PlaceStates /\ PlaceIs(place[t], status, row, live, Accounted)
    BY DEF OrphanInv, PlacesOK
  <2>2. place[t].at # "idle" => status'[place[t].pos] = "open"
            /\ row'[place[t].pos] = "none"
    BY DEF PlaceRests
  <2> QED
    BY <2>1, <2>2, PlaceStays
<1> QED
  BY <1>1 DEF OrphanInv, PlacesOK, Accounted

\* One placement moves, and the others rest.
LEMMA PlaceMoves ==
  ASSUME OrphanInv, OrphanMoves, NEW t \in Placers, NEW q \in Orphan!PlaceStates,
         Orphan!PlaceGoto(t, q), PlaceIs(q, status', row', live', Accounted'),
         \A u \in Placers \ {t} : PlaceRests(u),
         q.at # "idle" => \A u \in Placers \ {t} :
             place[u].at # "idle" => place[u].pos # q.pos
  PROVE  PlacesOK'
<1>1. /\ place \in [Placers -> Orphan!PlaceStates] /\ place'[t] = q
      /\ \A u \in Placers \ {t} : place'[u] = place[u]
      /\ place' \in [Placers -> Orphan!PlaceStates]
  BY DEF OrphanInv, PlacesOK, Orphan!PlaceGoto
<1>2. \A u \in Placers : PlaceIs(place'[u], status', row', live', Accounted')
  <2> SUFFICES ASSUME NEW u \in Placers \ {t}
               PROVE  PlaceIs(place[u], status', row', live', Accounted')
    BY <1>1
  <2>1. place[u] \in Orphan!PlaceStates /\ PlaceIs(place[u], status, row, live, Accounted)
    BY DEF OrphanInv, PlacesOK
  <2>2. place[u].at # "idle" => status'[place[u].pos] = "open"
            /\ row'[place[u].pos] = "none"
    BY DEF PlaceRests
  <2> QED
    BY <2>1, <2>2, PlaceStays
<1>3. \A u, v \in Placers :
        place'[u].at # "idle" /\ place'[v].at # "idle"
            /\ place'[u].pos = place'[v].pos => u = v
  BY <1>1 DEF OrphanInv, PlacesOK
<1> QED
  BY <1>1, <1>2, <1>3 DEF PlacesOK, Accounted

----------------------------------------------------------------------------
(* Closes and triggers                                                      *)

\* Nothing but status, rows and orders matters to the placements and the scan.
LEMMA RecordsMove ==
  ASSUME OrphanInv, RecordsOK', status' = status,
         \A p \in OrphanPositions : row[p] = "none" => row'[p] = "none",
         \A p \in OrphanPositions : status[p] = "closed" /\ p \notin live => p \notin live',
         \A p \in OrphanPositions : status[p] = "open" /\ p \in Accounted =>
             p \in Accounted'
  PROVE  /\ OrphanMoves
         /\ \A t \in Placers : place'[t] = place[t] => PlaceRests(t)
<1>1. OrphanMoves
  BY DEF OrphanMoves
<1>2. ASSUME NEW t \in Placers, place'[t] = place[t] PROVE PlaceRests(t)
  <2>1. /\ place[t].at # "idle" => place[t].pos \in OrphanPositions
        /\ place[t].at # "idle" => status[place[t].pos] = "open"
               /\ row[place[t].pos] = "none"
    BY PlaceKinds DEF OrphanInv, PlacesOK, PlaceIs, Placings
  <2> QED
    BY <1>2, <2>1 DEF PlaceRests
<1> QED
  BY <1>1, <1>2

\* A trigger takes a guard to those that triggered.
LEMMA GuardTriggersKeeps ==
  ASSUME OrphanInv, NEW p \in OrphanPositions, Orphan!GuardTriggers(p)
  PROVE  OrphanInv'
<1>1. RecordsOK'
  BY DEF OrphanInv, RecordsOK, Orphan!GuardTriggers, Orphan!CanceledIsDead,
      Orphan!GuardsAreSpared
<1>2. /\ status' = status /\ row' = row /\ place' = place /\ scan' = scan
      /\ Accounted' = Accounted /\ live' \subseteq live
  BY DEF Orphan!GuardTriggers, Accounted
<1> QED
  BY <1>1, <1>2, RecordsMove, RestingPlaces, RestingScan DEF OrphanInv

\* A position is closed while nothing places its guard.
LEMMA ClosePositionKeeps ==
  ASSUME OrphanInv, NEW p \in OrphanPositions, Orphan!ClosePosition(p)
  PROVE  OrphanInv'
<1> USE DEF Orphan!ClosePosition
<1>1. RecordsOK'
  BY DEF OrphanInv, RecordsOK, Orphan!CanceledIsDead, Orphan!GuardsAreSpared
<1>2. OrphanMoves
  BY <1>1 DEF OrphanMoves, OrphanInv, RecordsOK, Accounted
<1>3. ASSUME NEW t \in Placers PROVE PlaceRests(t)
  <2>1. /\ place[t].at # "idle" => place[t].pos \in OrphanPositions
        /\ place[t].at # "idle" => status[place[t].pos] = "open"
               /\ row[place[t].pos] = "none"
    BY PlaceKinds DEF OrphanInv, PlacesOK, PlaceIs, Placings
  <2>2. place[t].at # "idle" => place[t].pos # p
    BY DEF Orphan!Placing
  <2> QED
    BY <2>1, <2>2 DEF PlaceRests, OrphanInv, RecordsOK
<1> QED
  BY <1>1, <1>2, <1>3, RestingPlaces, RestingScan DEF OrphanInv

\* The cancel of a closed position's guard takes no other.
LEMMA CancelPendingOwn ==
  ASSUME TriggersApart, OrphanInv, NEW p \in OrphanPositions, status[p] = "closed",
         Orphan!CancelPending(p), status' = status, gone' = gone, late' = late,
         closing' \subseteq closing
  PROVE  /\ RecordsOK'
         /\ \A q \in OrphanPositions : row[q] = "none" => row'[q] = "none"
         /\ live' \subseteq live /\ live \ live' \subseteq {p}
<1>0. RecordsOK
  BY DEF OrphanInv
<1>1. CASE row[p] # "PENDING"
  BY <1>0, <1>1 DEF Orphan!CancelPending, RecordsOK, Orphan!CanceledIsDead,
      Orphan!GuardsAreSpared
<1>2. CASE row[p] = "PENDING"
  <2>1. PICK listed \in {Orphan!Book({Orphan!AccountOf(p)}), {}} :
        LET found == Orphan!OrderFor(p, listed) IN
         \E o \in IF found = {} THEN {0} ELSE found :
            LET ids == IF o = 0 THEN exId ELSE Orphan!Healed(p, o)
                id == IF o = 0 THEN exId[p] ELSE Orphan!Index(o)
            IN \E answer \in Orphan!Answers(id, Orphan!AccountOf(p)) :
                 /\ exId' = ids
                 /\ live' = live \ answer.kills
                 /\ spared' = IF Orphan!Survives(id.of, answer)
                              THEN spared \cup {id.of} ELSE spared
                 /\ row' = [row EXCEPT ![p] = "CANCELED"]
    BY <1>2 DEF Orphan!CancelPending
  <2>2. listed \in SUBSET OrphanPositions
    BY <1>0 DEF Orphan!Book, RecordsOK
  <2>3. Orphan!OrderFor(p, listed) = listed \cap {p}
    BY <1>0, <2>2, OrderForOwn
  <2>4. PICK o \in {0, p} :
            LET ids == IF o = 0 THEN exId ELSE Orphan!Healed(p, o)
                id == IF o = 0 THEN exId[p] ELSE Orphan!Index(o)
            IN \E answer \in Orphan!Answers(id, Orphan!AccountOf(p)) :
                 /\ exId' = ids
                 /\ live' = live \ answer.kills
                 /\ spared' = IF Orphan!Survives(id.of, answer)
                              THEN spared \cup {id.of} ELSE spared
                 /\ row' = [row EXCEPT ![p] = "CANCELED"]
    BY <2>1, <2>3
  <2> DEFINE ids == IF o = 0 THEN exId ELSE Orphan!Healed(p, o)
             id == IF o = 0 THEN exId[p] ELSE Orphan!Index(o)
  <2>5. PICK answer \in Orphan!Answers(id, Orphan!AccountOf(p)) :
                 /\ exId' = ids
                 /\ live' = live \ answer.kills
                 /\ spared' = IF Orphan!Survives(id.of, answer)
                              THEN spared \cup {id.of} ELSE spared
                 /\ row' = [row EXCEPT ![p] = "CANCELED"]
    BY <2>4
  <2>6. id \in {Orphan!Index(p), Orphan!Client(p)} /\ id.of = p
    BY <1>0, <1>2, <2>4, IdsDiffer DEF RecordsOK
  <2>7. /\ ids \in [OrphanPositions -> Orphan!Ids \cup {Orphan!NoId}]
        /\ \A q \in OrphanPositions :
             /\ ids[q] \in {Orphan!Index(q), Orphan!Client(q), Orphan!NoId}
             /\ exId[q] # Orphan!NoId => ids[q] # Orphan!NoId
    BY <1>0, <2>4, HealedOwn, OrphanAssumption DEF RecordsOK
  <2> HIDE DEF ids, id
  <2>8. answer.kills \in {{}, {p}}
    BY <2>6 DEF Orphan!Answers
  <2>9. /\ live' \subseteq live /\ live \ live' \subseteq {p}
        /\ spared \subseteq spared' /\ spared' \subseteq spared \cup {p}
        /\ p \notin live' \/ p \in spared'
    BY <2>5, <2>6, <2>8 DEF Orphan!Survives
  <2>10. /\ row' \in [OrphanPositions -> {"none", "PENDING", "CANCELED"}]
         /\ row'[p] = "CANCELED" /\ \A q \in OrphanPositions \ {p} : row'[q] = row[q]
    BY <1>0, <2>5 DEF RecordsOK
  <2>11. Orphan!CanceledIsDead'
    BY <1>0, <2>9, <2>10 DEF RecordsOK, Orphan!CanceledIsDead
  <2>12. Orphan!GuardsAreSpared'
    BY <1>0, <2>9, <2>10 DEF RecordsOK, Orphan!GuardsAreSpared
  <2>13. \A q \in OrphanPositions : row[q] = "none" <=> row'[q] = "none"
    BY <1>2, <2>10
  <2> QED
    BY <1>0, <2>5, <2>7, <2>9, <2>10, <2>11, <2>12, <2>13 DEF RecordsOK
<1> QED
  BY <1>1, <1>2

\* A close cancels what it may.
LEMMA CloseCancelsKeeps ==
  ASSUME TriggersApart, OrphanInv, NEW p \in OrphanPositions, Orphan!CloseCancels(p)
  PROVE  OrphanInv'
<1>1. /\ status[p] = "closed" /\ Orphan!CancelPending(p) /\ closing' \subseteq closing
      /\ status' = status /\ gone' = gone /\ late' = late /\ place' = place /\ scan' = scan
  BY DEF Orphan!CloseCancels, OrphanInv, RecordsOK
<1>2. /\ RecordsOK' /\ \A q \in OrphanPositions : row[q] = "none" => row'[q] = "none"
      /\ live' \subseteq live /\ live \ live' \subseteq {p}
  BY <1>1, CancelPendingOwn
<1> QED
  BY <1>1, <1>2, RecordsMove, RestingPlaces, RestingScan DEF OrphanInv, Accounted

----------------------------------------------------------------------------
(* A placement                                                              *)

\* A placement in progress, and the others, which are at other positions.
LEMMA PlaceHere ==
  ASSUME OrphanInv, NEW t \in Placers, place[t].at # "idle"
  PROVE  /\ RecordsOK /\ place[t] \in Placings
         /\ PlaceIs(place[t], status, row, live, Accounted)
         /\ \A u \in Placers \ {t} :
              place[u].at # "idle" => place[u].pos # place[t].pos
BY PlaceKinds DEF OrphanInv, PlacesOK

\* A step of a placement that leaves the records as they are.
LEMMA PlaceThinks ==
  ASSUME OrphanInv, NEW t \in Placers, place[t].at # "idle", NEW q \in Placings,
         q.pos = place[t].pos, Orphan!PlaceGoto(t, q), PlaceIs(q, status, row, live,
             Accounted),
         UNCHANGED <<status, live, gone, row, closing, scan, late, spared>>,
         RecordsOK'
  PROVE  OrphanInv'
<1>1. /\ OrphanMoves /\ \A u \in Placers : place'[u] = place[u] => PlaceRests(u)
  BY RecordsMove DEF Accounted
<1>2. \A u \in Placers \ {t} : PlaceRests(u)
  BY <1>1 DEF Orphan!PlaceGoto, OrphanInv, PlacesOK
<1>3. PlaceIs(q, status', row', live', Accounted')
  BY Zenon DEF Accounted
<1>4. q \in Orphan!PlaceStates
  BY OrphanMembers
<1>5. PlacesOK'
  BY <1>1, <1>2, <1>3, <1>4, PlaceHere, PlaceMoves
<1> QED
  BY <1>1, <1>5, RestingScan DEF OrphanInv

\* The records stay.
LEMMA SameRecords ==
  ASSUME RecordsOK, UNCHANGED <<status, live, gone, row, exId, closing, late, spared>>
  PROVE  RecordsOK'
BY DEF RecordsOK, Orphan!CanceledIsDead, Orphan!GuardsAreSpared

\* A placement starts at a position that no other one works on.
LEMMA PlaceStartKeeps ==
  ASSUME OrphanInv, NEW t \in Placers, NEW p \in OrphanPositions, Orphan!PlaceStart(t, p)
  PROVE  OrphanInv'
<1> USE DEF Orphan!PlaceStart
<1> DEFINE q == [at |-> IF Orphan!AccountOf(p) \in LighterAccounts THEN "book" ELSE "send",
                 pos |-> p, book |-> {}, rows |-> {}, known |-> {},
                 closed |-> Orphan!Settled, kept |-> {}]
<1>1. RecordsOK'
  BY DEF OrphanInv, RecordsOK, Orphan!CanceledIsDead, Orphan!GuardsAreSpared
<1>2. OrphanMoves
  BY <1>1 DEF OrphanMoves, OrphanInv, RecordsOK, Accounted
<1>3. status[p] = "none" /\ status'[p] = "open" /\ row'[p] = "none"
  BY DEF OrphanInv, RecordsOK
<1>4. \A u \in Placers : place[u].at # "idle" =>
        /\ place[u].pos # p /\ place[u].pos \in OrphanPositions
        /\ status[place[u].pos] = "open" /\ row[place[u].pos] = "none"
  BY <1>3, PlaceHere DEF PlaceIs, Placings
<1>5. ASSUME NEW u \in Placers \ {t} PROVE PlaceRests(u)
  BY <1>4 DEF PlaceRests, Orphan!PlaceGoto, OrphanInv, PlacesOK, RecordsOK
<1>6. q \in Placings /\ q \in Orphan!PlaceStates
  BY OrphanMembers DEF Placings, Orphan!Settled
<1>7. \A o \in Orphan!Settled : status'[o] = "closed"
  BY <1>3 DEF Orphan!Settled, OrphanMoves, OrphanInv, RecordsOK
<1>8. PlaceIs(q, status', row', live', Accounted')
  BY <1>3, <1>7 DEF PlaceIs
<1>9. Orphan!PlaceGoto(t, q)
  OBVIOUS
<1>10. q.at # "idle" => \A u \in Placers \ {t} : place[u].at # "idle" =>
           place[u].pos # q.pos
  BY <1>4
<1> HIDE DEF q
<1>11. PlacesOK'
  BY <1>2, <1>5, <1>6, <1>8, <1>9, <1>10, PlaceMoves
<1> QED
  BY <1>1, <1>2, <1>11, RestingScan DEF OrphanInv

\* The book of the account is what the pass has to look through.
LEMMA FreeBookKeeps ==
  ASSUME OrphanInv, NEW t \in Placers, Orphan!FreeBook(t)
  PROVE  OrphanInv'
<1> DEFINE here == place[t]
           listed == Orphan!Book({Orphan!AccountOf(here.pos)})
           q == [here EXCEPT !.book = listed, !.at = IF listed = {} THEN "send" ELSE "rows"]
           z == [here EXCEPT !.at = "send", !.closed = {}]
<1>1. here.at = "book" /\ (Orphan!PlaceGoto(t, q) \/ Orphan!PlaceGoto(t, z))
  BY DEF Orphan!FreeBook
<1>2. UNCHANGED <<status, live, gone, row, exId, closing, scan, late, spared>>
  BY DEF Orphan!FreeBook, Orphan!keptByPlace
<1>3. /\ RecordsOK /\ RecordsOK' /\ here \in Placings
      /\ PlaceIs(here, status, row, live, Accounted)
  BY <1>1, <1>2, PlaceHere, SameRecords
<1>4. listed \subseteq OrphanPositions /\ \A o \in listed :
          Orphan!AccountOf(o) = Orphan!AccountOf(here.pos)
  BY <1>3 DEF Orphan!Book, RecordsOK
<1>5. \A o \in OrphanPositions : Orphan!AccountOf(o) = Orphan!AccountOf(here.pos)
          /\ o \in live => o \in listed
  BY DEF Orphan!Book
<1>6. CASE Orphan!PlaceGoto(t, q)
  <2> HIDE DEF listed
  <2>1. q \in Placings /\ q.pos = here.pos /\ q.closed = here.closed /\ q.book = listed
        /\ q.at = (IF listed = {} THEN "send" ELSE "rows")
               /\ q.closed \subseteq OrphanPositions
    BY <1>3, <1>4 DEF Placings
  <2> HIDE DEF q, here
  <2>2. PlaceIs(q, status, row, live, Accounted)
    BY <1>1, <1>3, <1>4, <1>5, <2>1 DEF PlaceIs, here
  <2> QED
    BY <1>1, <1>2, <1>3, <1>6, <2>1, <2>2, PlaceThinks DEF here
<1>7. CASE Orphan!PlaceGoto(t, z)
  <2>1. z \in Placings /\ z.pos = here.pos /\ z.closed = {} /\ z.at = "send"
    BY <1>3 DEF Placings
  <2> HIDE DEF z
  <2>2. PlaceIs(z, status, row, live, Accounted)
    BY <1>1, <1>3, <2>1 DEF PlaceIs
  <2> QED
    BY <1>1, <1>2, <1>3, <1>7, <2>1, <2>2, PlaceThinks
<1> QED
  BY <1>1, <1>6, <1>7

\* The rows of the side are the rows of all guards on the account (OneSide).
LEMMA FreeRowsKeeps ==
  ASSUME Uncrossed, OrphanInv, NEW t \in Placers, Orphan!FreeRows(t)
  PROVE  OrphanInv'
<1> DEFINE here == place[t]
           rows == {r \in OrphanPositions : /\ row[r] = "PENDING" /\ status[r] = "open"
                                      /\ OrphanSideOf[r] = OrphanSideOf[here.pos]
                                      /\ Orphan!AccountOf(r) = Orphan!AccountOf(here.pos)}
           known == {r \in OrphanPositions : row[r] = "PENDING"}
           q == [here EXCEPT !.at = "match", !.rows = rows, !.known = known]
<1>1. here.at = "rows" /\ Orphan!PlaceGoto(t, q)
  BY DEF Orphan!FreeRows
<1>2. UNCHANGED <<status, live, gone, row, exId, closing, scan, late, spared>>
  BY DEF Orphan!FreeRows, Orphan!keptByPlace
<1>3. /\ RecordsOK /\ RecordsOK' /\ here \in Placings
      /\ PlaceIs(here, status, row, live, Accounted)
  BY <1>1, <1>2, PlaceHere, SameRecords
<1>4. /\ q \in Placings /\ q.pos = here.pos /\ q.closed = here.closed /\ q.book = here.book
      /\ q.at = "match" /\ q.rows = rows /\ q.known = known /\ q.kept = here.kept
      /\ q.book \subseteq OrphanPositions /\ q.pos \in OrphanPositions
  BY <1>3 DEF Placings
<1>5. \A o \in q.book \cap known : o \in rows \/ status[o] = "closed"
  <2> SUFFICES ASSUME NEW o \in q.book \cap known PROVE o \in rows \/ status[o] = "closed"
    OBVIOUS
  <2>1. Orphan!AccountOf(o) = Orphan!AccountOf(here.pos)
            /\ Orphan!AccountOf(here.pos) \in LighterAccounts
    BY <1>1, <1>3, <1>4 DEF PlaceIs
  <2>2. OrphanSideOf[o] = OrphanSideOf[here.pos]
    BY <1>4, <2>1, OneSide
  <2> QED
    BY <1>3, <2>1, <2>2 DEF RecordsOK
<1>6. rows \cap q.closed = {}
  BY <1>1, <1>3, <1>4 DEF PlaceIs
<1> HIDE DEF q, rows, known
<1>7. PlaceIs(q, status, row, live, Accounted)
  BY <1>1, <1>3, <1>4, <1>5, <1>6 DEF PlaceIs
<1> QED
  BY <1>1, <1>2, <1>3, <1>4, <1>7, PlaceThinks

\* A row claims its own order and no other.
LEMMA FreeMatchKeeps ==
  ASSUME TriggersApart, OrphanInv, NEW t \in Placers, Orphan!FreeMatch(t)
  PROVE  OrphanInv'
<1> DEFINE here == place[t]
<1>1. here.at = "match"
  BY DEF Orphan!FreeMatch
<1>2. UNCHANGED <<status, live, gone, row, closing, scan, late, spared>>
  BY DEF Orphan!FreeMatch, Orphan!keptByPlace
<1>3. /\ RecordsOK /\ here \in Placings /\ PlaceIs(here, status, row, live, Accounted)
  BY <1>1, PlaceHere
<1>4. CASE here.rows = {}
  <2> DEFINE q == [here EXCEPT !.at = "free"]
  <2>1. Orphan!PlaceGoto(t, q) /\ exId' = exId
    BY <1>4 DEF Orphan!FreeMatch
  <2>2. /\ q \in Placings /\ q.pos = here.pos /\ q.closed = here.closed
               /\ q.book = here.book
        /\ q.at = "free" /\ q.known = here.known /\ q.kept = here.kept
    BY <1>3 DEF Placings
  <2> HIDE DEF q
  <2>3. PlaceIs(q, status, row, live, Accounted)
    BY <1>1, <1>3, <1>4, <2>2 DEF PlaceIs
  <2> QED
    BY <1>1, <1>2, <1>3, <2>1, <2>2, <2>3, SameRecords, PlaceThinks
<1>5. CASE here.rows # {}
  <2>1. PICK r \in here.rows :
            LET found == Orphan!OrderFor(r, here.book)
                rest == [here EXCEPT !.rows = @ \ {r}]
            IN IF found = {} THEN Orphan!PlaceGoto(t, rest) /\ UNCHANGED exId
               ELSE \E o \in found :
                      /\ Orphan!PlaceGoto(t, [rest EXCEPT !.book = @ \ {o}])
                      /\ exId' = Orphan!Healed(r, o)
    BY <1>5 DEF Orphan!FreeMatch
  <2>2. r \in OrphanPositions /\ here.book \in SUBSET OrphanPositions
    BY <1>3 DEF Placings
  <2>3. Orphan!OrderFor(r, here.book) = here.book \cap {r}
    BY <1>3, <2>2, OrderForOwn
  <2> DEFINE q == [here EXCEPT !.rows = @ \ {r}, !.book = @ \ {r}]
  <2>4. Orphan!PlaceGoto(t, q) /\ exId' \in {exId, Orphan!Healed(r, r)}
    <3>1. CASE r \notin here.book
      <4>1. [here EXCEPT !.rows = @ \ {r}] = q
        BY <1>3, <3>1 DEF Placings
      <4> QED
        BY <2>1, <2>3, <3>1, <4>1
    <3>2. CASE r \in here.book
      <4>1. [[here EXCEPT !.rows = @ \ {r}] EXCEPT !.book = @ \ {r}] = q
        BY <1>3 DEF Placings
      <4> QED
        BY <2>1, <2>3, <3>2, <4>1
    <3> QED
      BY <3>1, <3>2
  <2>5. /\ q \in Placings /\ q.pos = here.pos /\ q.closed = here.closed
        /\ q.book = here.book \ {r} /\ q.rows = here.rows \ {r}
        /\ q.at = "match" /\ q.known = here.known /\ q.kept = here.kept
    BY <1>1, <1>3 DEF Placings
  <2> HIDE DEF q
  <2>6. PlaceIs(q, status, row, live, Accounted)
    BY <1>1, <1>3, <2>1, <2>5 DEF PlaceIs
  <2>7. RecordsOK'
    BY <1>2, <1>3, <2>2, <2>4, HealedOwn DEF RecordsOK, Orphan!CanceledIsDead,
        Orphan!GuardsAreSpared
  <2> QED
    BY <1>1, <1>2, <2>4, <2>5, <2>6, <2>7, PlaceThinks
<1> QED
  BY <1>4, <1>5

\* What an answer to a cancel by the order's own index kills.
LEMMA AnswerOwn ==
  ASSUME NEW o \in OrphanPositions, NEW account,
             NEW answer \in Orphan!Answers(Orphan!Index(o), account)
  PROVE  answer.kills \in {{}, {o}} /\ (answer.ok => answer.kills = {o})
BY DEF Orphan!Answers, Orphan!Index

\* The pass that makes room takes no guard of an open position, unless its row
\* was not yet there.
LEMMA FreeCancelKeeps ==
  ASSUME OrphanInv, NEW t \in Placers, Orphan!FreeCancel(t)
  PROVE  OrphanInv'
<1> DEFINE here == place[t]
<1>1. here.at = "free"
  BY DEF Orphan!FreeCancel
<1>2. UNCHANGED <<status, gone, row, exId, closing, scan, spared>>
  BY DEF Orphan!FreeCancel, Orphan!keptByPlace
<1>3. /\ RecordsOK /\ here \in Placings /\ PlaceIs(here, status, row, live, Accounted)
  BY <1>1, PlaceHere
<1>4. CASE here.book = {}
  <2> DEFINE q == [here EXCEPT !.at = "send", !.known = {}]
  <2>1. Orphan!PlaceGoto(t, q) /\ live' = live /\ late' = late
    BY <1>4 DEF Orphan!FreeCancel
  <2>2. /\ q \in Placings /\ q.pos = here.pos /\ q.closed = here.closed
        /\ q.at = "send" /\ q.kept = here.kept
    BY <1>3 DEF Placings
  <2> HIDE DEF q
  <2>3. PlaceIs(q, status, row, live, Accounted)
    BY <1>1, <1>3, <1>4, <2>2 DEF PlaceIs
  <2> QED
    BY <1>1, <1>2, <1>3, <2>1, <2>2, <2>3, SameRecords, PlaceThinks
<1>5. CASE here.book # {}
  <2>1. PICK o \in here.book : \E answer \in Orphan!Answers(Orphan!Index(o),
            Orphan!AccountOf(o)) :
              /\ live' = live \ answer.kills
              /\ Orphan!PlaceGoto(t, [here EXCEPT !.book = @ \ {o},
                     !.kept = @ \cup (live' \cap {o})])
              /\ late' = IF o \notin here.known THEN late \cup {o} ELSE late
    BY <1>5 DEF Orphan!FreeCancel
  <2>2. PICK answer \in Orphan!Answers(Orphan!Index(o), Orphan!AccountOf(o)) :
              /\ live' = live \ answer.kills
              /\ Orphan!PlaceGoto(t, [here EXCEPT !.book = @ \ {o},
                     !.kept = @ \cup (live' \cap {o})])
              /\ late' = IF o \notin here.known THEN late \cup {o} ELSE late
    BY <2>1
  <2>3. o \in OrphanPositions /\ here.kept \subseteq OrphanPositions
            /\ here.closed \subseteq OrphanPositions
    BY <1>3 DEF Placings
  <2>4. /\ live' \subseteq live /\ live \ live' \subseteq {o}
        /\ late' \subseteq OrphanPositions /\ late \subseteq late'
        /\ status[o] # "closed" => o \in late'
    BY <1>1, <1>3, <2>2, <2>3, AnswerOwn DEF PlaceIs, RecordsOK
  <2>5. RecordsOK'
    BY <1>2, <1>3, <2>4 DEF RecordsOK, Orphan!CanceledIsDead, Orphan!GuardsAreSpared
  <2>6. /\ OrphanMoves /\ \A u \in Placers : place'[u] = place[u] => PlaceRests(u)
    BY <1>2, <2>4, <2>5, RecordsMove DEF Accounted
  <2> DEFINE q == [here EXCEPT !.book = @ \ {o}, !.kept = @ \cup (live' \cap {o})]
  <2>7. /\ q \in Placings /\ q.pos = here.pos /\ q.closed = here.closed
        /\ q.book = here.book \ {o} /\ q.kept = here.kept \cup (live' \cap {o})
        /\ q.at = "free" /\ q.known = here.known
    BY <1>1, <1>3, <2>3, <2>4 DEF Placings
  <2>8. Orphan!PlaceGoto(t, q)
    BY <2>2
  <2> HIDE DEF q
  <2>9. status'[here.pos] = "open" /\ row'[here.pos] = "none"
    BY <1>1, <1>2, <1>3 DEF PlaceIs
  <2>10. PlaceIs(q, status', row', live', Accounted')
    BY <1>1, <1>2, <1>3, <2>4, <2>7, <2>9 DEF PlaceIs
  <2>11. \A u \in Placers \ {t} : PlaceRests(u)
    BY <2>6, <2>8 DEF Orphan!PlaceGoto, OrphanInv, PlacesOK
  <2>12. q \in Orphan!PlaceStates
    BY <2>7, OrphanMembers
  <2>13. PlacesOK'
    BY <1>1, <2>6, <2>7, <2>8, <2>10, <2>11, <2>12, PlaceHere, PlaceMoves
  <2> QED
    BY <1>2, <2>5, <2>6, <2>13, RestingScan DEF OrphanInv
<1> QED
  BY <1>4, <1>5

\* The order sent is one of an open position, which has no row yet.
LEMMA PlaceSendKeeps ==
  ASSUME OrphanInv, NEW t \in Placers, Orphan!PlaceSend(t)
  PROVE  OrphanInv'
<1> DEFINE here == place[t]
<1>1. here.at = "send"
  BY DEF Orphan!PlaceSend
<1>2. UNCHANGED <<status, gone, row, exId, closing, scan, late, spared>>
  BY DEF Orphan!PlaceSend, Orphan!keptByPlace
<1>3. /\ RecordsOK /\ here \in Placings /\ PlaceIs(here, status, row, live, Accounted)
      /\ here.pos \in OrphanPositions
  BY <1>1, PlaceHere DEF Placings
<1>4. PICK q \in Orphan!PlaceStates :
        /\ Orphan!PlaceGoto(t, q) /\ live' \in {live, live \cup {here.pos}}
        /\ q = Orphan!IdlePlace \/ (q.at = "row" /\ q.pos = here.pos /\ q.closed = {}
                             /\ here.pos \in live')
  <2>1. CASE Orphan!Full(Orphan!AccountOf(here.pos))
    BY <2>1, OrphanMembers DEF Orphan!PlaceSend
  <2>2. CASE ~Orphan!Full(Orphan!AccountOf(here.pos))
    <3> DEFINE q == [here EXCEPT !.at = "row", !.closed = {}, !.kept = {}]
    <3>1. q \in Placings /\ q.at = "row" /\ q.pos = here.pos /\ q.closed = {}
      BY <1>3 DEF Placings
    <3>2. Orphan!PlaceGoto(t, q) /\ live' = live \cup {here.pos}
      BY <2>2 DEF Orphan!PlaceSend
    <3> QED
      BY <3>1, <3>2, OrphanMembers
  <2> QED
    BY <2>1, <2>2
<1>5. status[here.pos] = "open" /\ row[here.pos] = "none"
  BY <1>1, <1>3 DEF PlaceIs
<1>6. RecordsOK'
  BY <1>2, <1>3, <1>4, <1>5 DEF RecordsOK, Orphan!CanceledIsDead, Orphan!GuardsAreSpared
<1>7. /\ OrphanMoves /\ \A u \in Placers : place'[u] = place[u] => PlaceRests(u)
  BY <1>2, <1>4, <1>5, <1>6, RecordsMove DEF Accounted
<1>8. \A u \in Placers \ {t} : PlaceRests(u)
  BY <1>4, <1>7 DEF Orphan!PlaceGoto, OrphanInv, PlacesOK
<1>9. PlaceIs(q, status', row', live', Accounted')
  BY <1>2, <1>4, <1>5, OrphanMembers DEF PlaceIs, Accounted
<1>10. q.at # "idle" => q.pos = here.pos
  BY <1>4, OrphanMembers
<1>11. PlacesOK'
  BY <1>1, <1>4, <1>7, <1>8, <1>9, <1>10, PlaceHere, PlaceMoves
<1> QED
  BY <1>2, <1>6, <1>7, <1>11, RestingScan DEF OrphanInv

\* The row is written of an order that is there, triggered, or was taken.
LEMMA PlaceRowKeeps ==
  ASSUME OrphanInv, NEW t \in Placers, Orphan!PlaceRow(t)
  PROVE  OrphanInv'
<1> DEFINE p == place[t].pos
<1>1. place[t].at = "row"
  BY DEF Orphan!PlaceRow
<1>2. UNCHANGED <<status, live, gone, closing, scan, late, spared>>
  BY DEF Orphan!PlaceRow, Orphan!keptByPlace
<1>3. /\ RecordsOK /\ p \in OrphanPositions /\ status[p] = "open" /\ row[p] = "none"
      /\ p \in Accounted
      /\ \A u \in Placers \ {t} : place[u].at # "idle" =>
           /\ place[u].pos # p /\ place[u].pos \in OrphanPositions
           /\ status[place[u].pos] = "open" /\ row[place[u].pos] = "none"
  BY <1>1, PlaceHere DEF PlaceIs, Placings
<1>4. /\ row' = [row EXCEPT ![p] = "PENDING"] /\ Orphan!PlaceGoto(t, Orphan!IdlePlace)
      /\ \E id \in {Orphan!Index(p), Orphan!Client(p)} : exId' = [exId EXCEPT ![p] = id]
  BY DEF Orphan!PlaceRow
<1>5. Orphan!Index(p) \in Orphan!Ids /\ Orphan!Client(p) \in Orphan!Ids
          /\ Orphan!Index(p) # Orphan!NoId /\ Orphan!Client(p) # Orphan!NoId
  BY <1>3, IdsDiffer
<1> HIDE DEF p
<1>6. RecordsOK'
  BY <1>2, <1>3, <1>4, <1>5 DEF RecordsOK, Orphan!CanceledIsDead,
      Orphan!GuardsAreSpared, Accounted
<1>7. OrphanMoves
  BY <1>2, <1>6 DEF OrphanMoves, Accounted
<1>8. \A u \in Placers \ {t} : PlaceRests(u)
  BY <1>2, <1>3, <1>4 DEF PlaceRests, Orphan!PlaceGoto, OrphanInv, PlacesOK, RecordsOK
<1>9. PlaceIs(Orphan!IdlePlace, status', row', live', Accounted')
          /\ Orphan!IdlePlace \in Orphan!PlaceStates
      /\ Orphan!IdlePlace.at = "idle"
  BY OrphanMembers DEF PlaceIs
<1>10. PlacesOK'
  BY <1>4, <1>7, <1>8, <1>9, PlaceMoves
<1> QED
  BY <1>2, <1>6, <1>7, <1>10, RestingScan DEF OrphanInv

----------------------------------------------------------------------------
(* The scan and the clean-up                                                *)

\* A step of the scan that takes no order.
LEMMA ScanThinks ==
  ASSUME OrphanInv, RecordsOK', NEW q \in Scans, scan' = q, ScanIs(q, status, live),
         UNCHANGED <<status, live, gone, row, place, closing, late, spared>>
  PROVE  OrphanInv'
<1>1. /\ OrphanMoves /\ \A u \in Placers : place'[u] = place[u] => PlaceRests(u)
  BY RecordsMove DEF Accounted
<1>2. PlacesOK'
  BY <1>1, RestingPlaces
<1>3. ScanOK'
  BY OrphanMembers DEF ScanOK
<1> QED
  BY <1>2, <1>3 DEF OrphanInv

\* A scan in progress.
LEMMA ScanHere ==
  ASSUME OrphanInv, scan.at # "idle"
  PROVE  RecordsOK /\ scan \in Scans /\ ScanIs(scan, status, live)
BY ScanKinds DEF OrphanInv, ScanOK

\* A scan begins with a group for every account it was asked for.
LEMMA ScanStartKeeps ==
  ASSUME OrphanInv, Orphan!ScanStart
  PROVE  OrphanInv'
<1>1. PICK scope \in {Orphan!ScanPool} \cup {{s} : s \in OrphanStrategies} :
          scan' = [at |-> "rows", groups |-> Orphan!ScanGroups(scope), group |-> 0,
                   rows |-> {}, pool |-> {}, book |-> {}, heal |-> {},
                   orphans |-> {}, known |-> OrphanPositions, kept |-> {},
                   closed |-> {p \in Orphan!Settled : \E s \in scope :
                                              Orphan!AccountOf(p) \in Orphan!Accounts(s)}]
  BY DEF Orphan!ScanStart
<1> DEFINE closed == {p \in Orphan!Settled : \E s \in scope :
               Orphan!AccountOf(p) \in Orphan!Accounts(s)}
           q == [at |-> "rows", groups |-> Orphan!ScanGroups(scope), group |-> 0,
                 rows |-> {}, pool |-> {}, book |-> {}, heal |-> {},
                 orphans |-> {}, known |-> OrphanPositions, kept |-> {}, closed |-> closed]
<1>2. scope \in SUBSET OrphanStrategies
  BY OrphanAssumption DEF Orphan!ScanPool
<1>3. Orphan!ScanGroups(scope) \subseteq OrphanStrategies
  BY <1>2 DEF Orphan!ScanGroups
<1>4. closed \subseteq OrphanPositions /\ \A p \in closed : status[p] = "closed"
  BY DEF Orphan!Settled
<1>5. \A p \in closed : \E g \in Orphan!ScanGroups(scope) :
          Orphan!AccountOf(p) \in Orphan!Accounts(g)
  BY <1>2, GroupsCover
<1> HIDE DEF closed
<1>6. q \in Scans
  BY <1>3, <1>4 DEF Scans
<1>7. /\ q.at = "rows" /\ q.closed = closed /\ q.orphans = {} /\ q.heal = {}
      /\ q.groups = Orphan!ScanGroups(scope)
  OBVIOUS
<1> HIDE DEF q
<1>8. ScanIs(q, status, live)
  BY <1>4, <1>5, <1>7 DEF ScanIs, Awaits
<1>9. UNCHANGED <<status, live, gone, row, exId, place, closing, late, spared>>
  BY DEF Orphan!ScanStart, Orphan!keptByScan
<1>10. scan' = q /\ RecordsOK'
  BY <1>1, <1>9, SameRecords DEF q, closed, OrphanInv
<1> QED
  BY <1>6, <1>8, <1>9, <1>10, ScanThinks

\* What is known of a group are all rows of positions on its accounts.
LEMMA ScanRowsKeeps ==
  ASSUME Uncrossed, OrphanInv, Orphan!ScanRows
  PROVE  OrphanInv'
<1>1. /\ scan.at = "rows"
      /\ UNCHANGED <<status, live, gone, row, exId, place, closing, late, spared>>
  BY DEF Orphan!ScanRows, Orphan!keptByScan
<1>2. PICK s \in scan.groups :
       LET rows == {p \in OrphanPositions :
                      row[p] = "PENDING" /\ Orphan!SharesAccounts(s, OrphanStrategyOf[p])}
       IN scan' = [scan EXCEPT !.at = "book", !.groups = @ \ {s}, !.group = s,
                     !.rows = {p \in rows : status[p] # "open"},
                     !.pool = {p \in rows : status[p] = "open"},
                     !.known = @ \cap {p \in OrphanPositions : row[p] = "PENDING"}]
  BY DEF Orphan!ScanRows
<1> DEFINE rows == {p \in OrphanPositions : row[p] = "PENDING"
               /\ Orphan!SharesAccounts(s, OrphanStrategyOf[p])}
           shut == {p \in rows : status[p] # "open"}
           opens == {p \in rows : status[p] = "open"}
           known == scan.known \cap {p \in OrphanPositions : row[p] = "PENDING"}
           q == [scan EXCEPT !.at = "book", !.groups = @ \ {s}, !.group = s,
                   !.rows = shut, !.pool = opens,
                   !.known = @ \cap {p \in OrphanPositions : row[p] = "PENDING"}]
<1>3. RecordsOK /\ RecordsOK' /\ scan \in Scans /\ ScanIs(scan, status, live)
  BY <1>1, ScanHere, SameRecords
<1>4. /\ q \in Scans /\ q.at = "book" /\ q.groups = scan.groups \ {s} /\ q.group = s
      /\ q.rows = shut /\ q.pool = opens /\ q.known = known /\ q.heal = scan.heal
      /\ q.orphans = scan.orphans /\ q.closed = scan.closed /\ q.kept = scan.kept
      /\ s \in OrphanStrategies /\ known \subseteq scan.known
  BY <1>3 DEF Scans
<1>5. \A p \in shut : status[p] = "closed"
  BY <1>3 DEF RecordsOK
<1>6. \A o \in known : Orphan!AccountOf(o) \in Orphan!Accounts(s) =>
          status[o] = "closed" \/ o \in opens
  <2> SUFFICES ASSUME NEW o \in known, Orphan!AccountOf(o) \in Orphan!Accounts(s),
                   status[o] # "closed"
               PROVE  o \in opens
    OBVIOUS
  <2>1. o \in OrphanPositions /\ row[o] = "PENDING" /\ s \in OrphanStrategies
    BY <1>4
  <2>2. Orphan!SharesAccounts(s, OrphanStrategyOf[o])
    BY <2>1, GroupIsWhole
  <2>3. status[o] = "open"
    BY <1>3, <2>1 DEF RecordsOK
  <2> QED
    BY <2>1, <2>2, <2>3
<1>7. opens \cap scan.closed = {}
  BY <1>1, <1>3 DEF ScanIs
<1> HIDE DEF shut, opens, known, rows
<1>8. \A x \in q.orphans : OrphanIs(q, x, status)
  BY <1>1, <1>3, <1>4 DEF ScanIs, OrphanIs
<1>9. ASSUME NEW p \in q.closed PROVE p \notin live \/ p \in q.kept \/ Awaits(q, p)
  BY <1>1, <1>3, <1>4 DEF ScanIs, Awaits
<1>10. scan' = q
  BY <1>2 DEF rows, shut, opens
<1> HIDE DEF q
<1>11. ScanIs(q, status, live)
  BY <1>1, <1>3, <1>4, <1>5, <1>6, <1>7, <1>8, <1>9 DEF ScanIs
<1> QED
  BY <1>1, <1>3, <1>4, <1>10, <1>11, ScanThinks

\* The book of the group has every order of it that is live.
LEMMA ScanBookKeeps ==
  ASSUME OrphanInv, Orphan!ScanBook
  PROVE  OrphanInv'
<1> DEFINE listed == Orphan!Book(Orphan!Accounts(scan.group))
           q == [scan EXCEPT !.at = "match", !.book = listed]
<1>1. /\ scan.at = "book" /\ (scan' = q \/ scan' = Orphan!IdleScan)
      /\ UNCHANGED <<status, live, gone, row, exId, place, closing, late, spared>>
  BY DEF Orphan!ScanBook, Orphan!keptByScan
<1>2. RecordsOK /\ RecordsOK' /\ scan \in Scans /\ ScanIs(scan, status, live)
  BY <1>1, ScanHere, SameRecords
<1>3. CASE scan' = Orphan!IdleScan
  <2>1. /\ OrphanMoves /\ \A u \in Placers : place'[u] = place[u] => PlaceRests(u)
    BY <1>1, <1>2, RecordsMove DEF Accounted
  <2>2. ScanOK'
    BY <1>3, OrphanMembers DEF ScanOK, ScanIs
  <2> QED
    BY <1>1, <1>2, <2>1, <2>2, RestingPlaces DEF OrphanInv
<1>4. CASE scan' = q
  <2>1. listed \subseteq OrphanPositions /\ \A o \in listed :
            Orphan!AccountOf(o) \in Orphan!Accounts(scan.group)
    BY <1>2 DEF Orphan!Book, RecordsOK
  <2>2. \A o \in OrphanPositions :
          Orphan!AccountOf(o) \in Orphan!Accounts(scan.group) /\ o \in live => o \in listed
    BY DEF Orphan!Book
  <2> HIDE DEF listed
  <2>3. /\ q \in Scans /\ q.at = "match" /\ q.groups = scan.groups /\ q.group = scan.group
        /\ q.rows = scan.rows /\ q.pool = scan.pool /\ q.known = scan.known
        /\ q.heal = scan.heal /\ q.book = listed
        /\ q.orphans = scan.orphans /\ q.closed = scan.closed /\ q.kept = scan.kept
        /\ q.closed \subseteq OrphanPositions /\ q.known \subseteq OrphanPositions
    BY <1>2, <2>1 DEF Scans
  <2> HIDE DEF q
  <2>4. \A x \in q.orphans : OrphanIs(q, x, status)
    BY <1>1, <1>2, <2>3 DEF ScanIs, OrphanIs
  <2>5. ASSUME NEW p \in q.closed PROVE p \notin live \/ p \in q.kept \/ Awaits(q, p)
    BY <1>1, <1>2, <2>2, <2>3 DEF ScanIs, Awaits
  <2>6. ScanIs(q, status, live)
    BY <1>1, <1>2, <2>1, <2>3, <2>4, <2>5 DEF ScanIs
  <2> QED
    BY <1>1, <1>2, <1>4, <2>3, <2>6, ScanThinks
<1> QED
  BY <1>1, <1>3, <1>4

\* An order is matched by the row of its own position, or reported.
LEMMA ScanMatchKeeps ==
  ASSUME TriggersApart, OrphanInv, Orphan!ScanMatch
  PROVE  OrphanInv'
<1>1. /\ scan.at = "match"
      /\ UNCHANGED <<status, live, gone, row, exId, place, closing, late, spared>>
  BY DEF Orphan!ScanMatch, Orphan!keptByScan
<1>2. RecordsOK /\ RecordsOK' /\ scan \in Scans /\ ScanIs(scan, status, live)
  BY <1>1, ScanHere, SameRecords
<1>3. PICK o \in scan.book :
       LET byId == {r \in scan.pool : Orphan!SameId(exId[r], o)}
           alike == {r \in scan.pool : Orphan!Alike(r, o)}
           rest == [scan EXCEPT !.book = @ \ {o}]
           history == {r \in OrphanPositions : row[r] # "none" /\ Orphan!SameId(exId[r], o)}
       IN CASE byId # {} ->
                 \E r \in byId : scan' = [rest EXCEPT !.pool = @ \ {r}]
            [] byId = {} /\ alike # {} ->
                 \E r \in alike : scan' = [rest EXCEPT !.pool = @ \ {r},
                                             !.heal = @ \cup {<<r, o>>}]
            [] OTHER ->
                 \E r \in IF history = {} THEN {0} ELSE history :
                    scan' = [rest EXCEPT !.orphans = @ \cup
                               {[kind |-> "exchange", order |-> o, row |-> r]}]
  BY DEF Orphan!ScanMatch
<1> DEFINE byId == {r \in scan.pool : Orphan!SameId(exId[r], o)}
           alike == {r \in scan.pool : Orphan!Alike(r, o)}
           rest == [scan EXCEPT !.book = @ \ {o}]
           history == {r \in OrphanPositions : row[r] # "none" /\ Orphan!SameId(exId[r], o)}
           q1 == [rest EXCEPT !.pool = @ \ {o}]
           q2 == [rest EXCEPT !.pool = @ \ {o}, !.heal = @ \cup {<<o, o>>}]
           orphan(r) == [kind |-> "exchange", order |-> o, row |-> r]
           q3(r) == [rest EXCEPT !.orphans = @ \cup {orphan(r)}]
<1>4. /\ o \in OrphanPositions /\ scan.pool \subseteq OrphanPositions
             /\ scan.book \subseteq OrphanPositions
      /\ scan.known \subseteq OrphanPositions
  BY <1>2 DEF Scans
<1>5. /\ \A r \in OrphanPositions : Orphan!SameId(exId[r], o) => r = o
      /\ \A r \in scan.pool : Orphan!Alike(r, o) => r = o
  BY <1>2, <1>4, IdsDiffer DEF RecordsOK, Orphan!Alike, TriggersApart
<1>6. o \in scan.pool => o \in alike
  BY DEF Orphan!Alike
<1>7. \/ o \in scan.pool /\ scan' \in {q1, q2}
      \/ o \notin scan.pool /\ \E r \in {0, o} : scan' = q3(r)
  <2>1. CASE byId # {}
    BY <1>3, <1>4, <1>5, <2>1
  <2>2. CASE byId = {} /\ alike # {}
    BY <1>3, <1>4, <1>5, <2>2
  <2>3. CASE byId = {} /\ alike = {}
    <3>1. \E r \in IF history = {} THEN {0} ELSE history : scan' = q3(r)
      BY <1>3, <2>3
    <3>2. history \subseteq {o}
      BY <1>5
    <3> QED
      BY <1>6, <2>3, <3>1, <3>2
  <2> QED
    BY <2>1, <2>2, <2>3
<1>8. CASE o \in scan.pool
  <2>1. PICK q \in {q1, q2} : scan' = q
    BY <1>7, <1>8
  <2>2. /\ q \in Scans /\ q.at = "match" /\ q.groups = scan.groups /\ q.group = scan.group
        /\ q.rows = scan.rows /\ q.pool = scan.pool \ {o} /\ q.known = scan.known
        /\ q.heal \in {scan.heal, scan.heal \cup {<<o, o>>}} /\ q.book = scan.book \ {o}
        /\ q.orphans = scan.orphans /\ q.closed = scan.closed /\ q.kept = scan.kept
    <3>1. <<o, o>> \in OrphanPositions \X OrphanPositions
      BY <1>4
    <3>2. CASE q = q1
      BY <1>1, <1>2, <1>4, <3>2 DEF Scans
    <3>3. CASE q = q2
      BY <1>1, <1>2, <1>4, <3>1, <3>3 DEF Scans
    <3> QED
      BY <2>1, <3>2, <3>3
  <2> HIDE DEF q1, q2
  <2>3. \A x \in q.orphans : OrphanIs(q, x, status)
    BY <1>1, <1>2, <2>2 DEF ScanIs, OrphanIs
  <2>4. \A h \in q.heal : h[1] = h[2]
    BY <1>1, <1>2, <2>2 DEF ScanIs
  <2>5. ASSUME NEW p \in q.closed PROVE p \notin live \/ p \in q.kept \/ Awaits(q, p)
    BY <1>1, <1>2, <1>8, <2>2 DEF ScanIs, Awaits
  <2>6. ScanIs(q, status, live)
    BY <1>1, <1>2, <2>2, <2>3, <2>4, <2>5 DEF ScanIs
  <2> QED
    BY <1>1, <1>2, <2>1, <2>2, <2>6, ScanThinks
<1>9. CASE o \notin scan.pool
  <2>1. PICK r \in {0, o} : scan' = q3(r)
    BY <1>7, <1>9
  <2> DEFINE q == q3(r)
  <2>2. orphan(r) \in Orphan!Orphans
    BY <1>4 DEF Orphan!Orphans
  <2>3. /\ q \in Scans /\ q.at = "match" /\ q.groups = scan.groups /\ q.group = scan.group
        /\ q.rows = scan.rows /\ q.pool = scan.pool /\ q.known = scan.known
        /\ q.heal = scan.heal /\ q.book = scan.book \ {o}
        /\ q.orphans = scan.orphans \cup {orphan(r)}
        /\ q.closed = scan.closed /\ q.kept = scan.kept
    BY <1>1, <1>2, <1>4, <2>2 DEF Scans
  <2>4. orphan(r).kind = "exchange" /\ orphan(r).order = o /\ orphan(r).row = r
    OBVIOUS
  <2> HIDE DEF q, q3, orphan
  <2>5. OrphanIs(q, orphan(r), status)
    BY <1>1, <1>2, <1>9, <2>1, <2>3, <2>4 DEF ScanIs, OrphanIs
  <2>6. \A x \in q.orphans : OrphanIs(q, x, status)
    BY <1>1, <1>2, <2>3, <2>5 DEF ScanIs, OrphanIs
  <2>7. ASSUME NEW p \in q.closed PROVE p \notin live \/ p \in q.kept \/ Awaits(q, p)
    BY <1>1, <1>2, <2>3, <2>4 DEF ScanIs, Awaits
  <2>8. ScanIs(q, status, live)
    BY <1>1, <1>2, <2>3, <2>6, <2>7 DEF ScanIs
  <2>9. scan' = q
    BY <2>1 DEF q
  <2> QED
    BY <1>1, <1>2, <2>3, <2>8, <2>9, ScanThinks
<1> QED
  BY <1>8, <1>9

\* The ids are healed, and what is left of the rows is of closed positions.
LEMMA ScanGroupEndsKeeps ==
  ASSUME OrphanInv, Orphan!ScanGroupEnds
  PROVE  OrphanInv'
<1>1. /\ scan.at = "match" /\ scan.book = {}
      /\ UNCHANGED <<status, live, gone, row, place, closing, late, spared>>
  BY DEF Orphan!ScanGroupEnds, Orphan!keptByScan
<1>2. RecordsOK /\ scan \in Scans /\ ScanIs(scan, status, live)
  BY <1>1, ScanHere
<1> DEFINE found == {[kind |-> "db", order |-> p, row |-> p] : p \in scan.rows}
           q == [scan EXCEPT !.at = "rows", !.group = 0, !.rows = {}, !.pool = {},
                  !.heal = {}, !.orphans = @ \cup found]
           healed == [r \in OrphanPositions |->
                  IF \E o \in OrphanPositions : <<r, o>> \in scan.heal
                  THEN Orphan!Index(CHOOSE o \in OrphanPositions : <<r, o>> \in scan.heal)
                  ELSE exId[r]]
<1>3. scan' = q /\ exId' = healed
  BY DEF Orphan!ScanGroupEnds
<1>4. \A r \in OrphanPositions : healed[r] \in {Orphan!Index(r), exId[r]}
  <2> SUFFICES ASSUME NEW r \in OrphanPositions, \E o \in OrphanPositions : <<r,
                   o>> \in scan.heal
               PROVE  healed[r] = Orphan!Index(r)
    OBVIOUS
  <2>1. \A o \in OrphanPositions : <<r, o>> \in scan.heal => o = r
    BY <1>1, <1>2 DEF ScanIs
  <2>2. (CHOOSE o \in OrphanPositions : <<r, o>> \in scan.heal) = r
    BY <2>1
  <2> QED
    BY <2>2
<1>5. exId' \in [OrphanPositions -> Orphan!Ids \cup {Orphan!NoId}]
          /\ \A r \in OrphanPositions :
        /\ exId'[r] \in {Orphan!Index(r), Orphan!Client(r), Orphan!NoId}
        /\ exId[r] # Orphan!NoId => exId'[r] # Orphan!NoId
  <2> HIDE DEF healed
  <2>1. \A r \in OrphanPositions : Orphan!Index(r) \in Orphan!Ids
            /\ Orphan!Index(r) # Orphan!NoId
    BY IdsDiffer
  <2>2. \A r \in OrphanPositions : exId'[r] \in {Orphan!Index(r), exId[r]}
    BY <1>3, <1>4
  <2>3. exId' = [r \in OrphanPositions |-> exId'[r]]
    BY <1>3 DEF healed
  <2>4. \A r \in OrphanPositions : exId'[r] \in Orphan!Ids \cup {Orphan!NoId}
    BY <1>2, <2>1, <2>2 DEF RecordsOK
  <2>5. exId' \in [OrphanPositions -> Orphan!Ids \cup {Orphan!NoId}]
    BY <2>3, <2>4
  <2> QED
    BY <1>2, <2>1, <2>2, <2>5 DEF RecordsOK
<1>6. RecordsOK'
  BY <1>1, <1>2, <1>5 DEF RecordsOK, Orphan!CanceledIsDead, Orphan!GuardsAreSpared
<1>7. scan.rows \subseteq OrphanPositions
  BY <1>2 DEF Scans
<1>8. found \subseteq Orphan!Orphans
  BY <1>7 DEF Orphan!Orphans
<1>9. \A x \in found : x.kind = "db" /\ x.order = x.row /\ status[x.row] = "closed"
  BY <1>1, <1>2 DEF ScanIs
<1> HIDE DEF found
<1>10. /\ q \in Scans /\ q.at = "rows" /\ q.groups = scan.groups
       /\ q.known = scan.known /\ q.heal = {} /\ q.orphans = scan.orphans \cup found
       /\ q.closed = scan.closed /\ q.kept = scan.kept
  BY <1>2, <1>8 DEF Scans
<1> HIDE DEF q
<1>11. \A x \in q.orphans : OrphanIs(q, x, status)
  BY <1>1, <1>2, <1>9, <1>10 DEF ScanIs, OrphanIs
<1>12. ASSUME NEW p \in q.closed PROVE p \notin live \/ p \in q.kept \/ Awaits(q, p)
  BY <1>1, <1>2, <1>10 DEF ScanIs, Awaits
<1>13. ScanIs(q, status, live)
  BY <1>1, <1>2, <1>10, <1>11, <1>12 DEF ScanIs
<1> QED
  BY <1>1, <1>3, <1>6, <1>10, <1>13, ScanThinks

\* With no group left, what is still there has been reported.
LEMMA ScanEndsKeeps ==
  ASSUME OrphanInv, Orphan!ScanEnds
  PROVE  OrphanInv'
<1> DEFINE q == [scan EXCEPT !.at = "clean"]
<1>1. /\ scan.at = "rows" /\ scan.groups = {} /\ scan' = q
      /\ UNCHANGED <<status, live, gone, row, exId, place, closing, late, spared>>
  BY DEF Orphan!ScanEnds, Orphan!keptByScan
<1>2. RecordsOK /\ RecordsOK' /\ scan \in Scans /\ ScanIs(scan, status, live)
  BY <1>1, ScanHere, SameRecords
<1>3. /\ q \in Scans /\ q.at = "clean" /\ q.groups = {}
      /\ q.known = scan.known /\ q.heal = scan.heal /\ q.orphans = scan.orphans
      /\ q.closed = scan.closed /\ q.kept = scan.kept
  BY <1>1, <1>2 DEF Scans
<1> HIDE DEF q
<1>4. \A x \in q.orphans : OrphanIs(q, x, status)
  BY <1>1, <1>2, <1>3 DEF ScanIs, OrphanIs
<1>5. ASSUME NEW p \in q.closed PROVE p \notin live \/ p \in q.kept \/ Awaits(q, p)
  BY <1>1, <1>2, <1>3 DEF ScanIs, Awaits
<1>6. ScanIs(q, status, live)
  BY <1>1, <1>2, <1>3, <1>4, <1>5 DEF ScanIs
<1> QED
  BY <1>1, <1>2, <1>3, <1>6, ScanThinks

\* With nothing left to clean up, what was reported is gone or was kept.
LEMMA CleanEndsKeeps ==
  ASSUME OrphanInv, Orphan!CleanEnds
  PROVE  OrphanInv'
<1> DEFINE q == [scan EXCEPT !.at = "done", !.known = {}]
<1>1. /\ scan.at = "clean" /\ scan.orphans = {} /\ scan' = q
      /\ UNCHANGED <<status, live, gone, row, exId, place, closing, late, spared>>
  BY DEF Orphan!CleanEnds, Orphan!keptByScan
<1>2. RecordsOK /\ RecordsOK' /\ scan \in Scans /\ ScanIs(scan, status, live)
  BY <1>1, ScanHere, SameRecords
<1>3. /\ q \in Scans /\ q.at = "done" /\ q.orphans = {} /\ q.heal = scan.heal
      /\ q.closed = scan.closed /\ q.kept = scan.kept
  BY <1>1, <1>2 DEF Scans
<1> HIDE DEF q
<1>4. ASSUME NEW p \in q.closed PROVE p \notin live \/ p \in q.kept
  BY <1>1, <1>2, <1>3 DEF ScanIs, Awaits
<1>5. ScanIs(q, status, live)
  BY <1>1, <1>2, <1>3, <1>4 DEF ScanIs
<1> QED
  BY <1>1, <1>2, <1>3, <1>5, ScanThinks

\* A reported order is cancelled, and remembered if it survives.
LEMMA CleanExchangeKeeps ==
  ASSUME OrphanInv, NEW x \in scan.orphans, Orphan!CleanExchange(x)
  PROVE  OrphanInv'
<1>1. /\ scan.at = "clean" /\ x.kind = "exchange"
      /\ UNCHANGED <<status, gone, exId, place, closing, spared>>
  BY DEF Orphan!CleanExchange, Orphan!keptByScan
<1>2. RecordsOK /\ scan \in Scans /\ ScanIs(scan, status, live)
  BY <1>1, ScanHere
<1>3. /\ x \in Orphan!Orphans /\ x.order \in OrphanPositions /\ OrphanIs(scan, x, status)
      /\ scan.closed \subseteq OrphanPositions /\ scan.kept \subseteq OrphanPositions
  BY <1>1, <1>2 DEF Scans, Orphan!Orphans, ScanIs
<1>4. /\ x.row \in {0, x.order}
      /\ x.order \in scan.known => status[x.order] = "closed"
  BY <1>1, <1>3 DEF OrphanIs
<1>5. PICK answer \in Orphan!Answers(Orphan!Index(x.order), Orphan!AccountOf(x.order)) :
          /\ live' = live \ answer.kills
          /\ late' = IF x.order \notin scan.known THEN late \cup {x.order} ELSE late
          /\ row' = IF answer.ok /\ x.row # 0
                    THEN [row EXCEPT ![x.row] = IF @ = "PENDING" THEN "CANCELED" ELSE @]
                    ELSE row
  BY DEF Orphan!CleanExchange
<1>6. /\ live' \subseteq live /\ live \ live' \subseteq {x.order}
      /\ late \subseteq late' /\ late' \subseteq OrphanPositions
      /\ status[x.order] # "closed" => x.order \in late'
  BY <1>2, <1>3, <1>4, <1>5, AnswerOwn DEF RecordsOK
<1>7. /\ row' \in [OrphanPositions -> {"none", "PENDING", "CANCELED"}]
      /\ \A p \in OrphanPositions : row[p] = "none" <=> row'[p] = "none"
      /\ \A p \in OrphanPositions : row'[p] # row[p] =>
             row'[p] = "CANCELED" /\ p \notin live'
  <2>1. answer.ok => x.order \notin live'
    BY <1>3, <1>5, AnswerOwn
  <2>2. CASE answer.ok /\ x.row # 0
    BY <1>2, <1>3, <1>4, <1>5, <2>1, <2>2 DEF RecordsOK
  <2>3. CASE ~(answer.ok /\ x.row # 0)
    BY <1>2, <1>5, <2>3 DEF RecordsOK
  <2> QED
    BY <2>2, <2>3
<1>8. Orphan!CanceledIsDead' /\ Orphan!GuardsAreSpared'
  BY <1>1, <1>2, <1>6, <1>7 DEF RecordsOK, Orphan!CanceledIsDead, Orphan!GuardsAreSpared
<1>9. RecordsOK'
  BY <1>1, <1>2, <1>6, <1>7, <1>8 DEF RecordsOK
<1>10. /\ OrphanMoves /\ \A u \in Placers : place'[u] = place[u] => PlaceRests(u)
  BY <1>1, <1>6, <1>7, <1>9, RecordsMove DEF Accounted
<1> DEFINE q == [scan EXCEPT !.orphans = @ \ {x}, !.kept = @ \cup (live' \cap {x.order})]
<1>11. scan' = q
  BY DEF Orphan!CleanExchange
<1>12. /\ q \in Scans /\ q.at = "clean" /\ q.known = scan.known /\ q.heal = scan.heal
       /\ q.orphans = scan.orphans \ {x} /\ q.closed = scan.closed
       /\ q.kept = scan.kept \cup (live' \cap {x.order})
  BY <1>1, <1>2, <1>3 DEF Scans
<1> HIDE DEF q
<1>13. \A y \in q.orphans : OrphanIs(q, y, status)
  BY <1>1, <1>2, <1>12 DEF ScanIs, OrphanIs
<1>14. ASSUME NEW p \in q.closed PROVE p \notin live' \/ p \in q.kept \/ Awaits(q, p)
  BY <1>1, <1>2, <1>6, <1>12 DEF ScanIs, Awaits
<1>15. ScanIs(q, status', live')
  BY <1>1, <1>2, <1>12, <1>13, <1>14 DEF ScanIs
<1>16. ScanOK'
  BY <1>11, <1>12, <1>15, OrphanMembers DEF ScanOK
<1> QED
  BY <1>1, <1>9, <1>10, <1>16, RestingPlaces DEF OrphanInv

\* A row of a closed position is canceled the way a close does.
LEMMA CleanDbKeeps ==
  ASSUME TriggersApart, OrphanInv, NEW x \in scan.orphans, Orphan!CleanDb(x)
  PROVE  OrphanInv'
<1>1. /\ scan.at = "clean" /\ x.kind = "db" /\ Orphan!CancelPending(x.row)
      /\ UNCHANGED <<status, gone, place, closing, late>>
  BY DEF Orphan!CleanDb, Orphan!keptByScan
<1>2. RecordsOK /\ scan \in Scans /\ ScanIs(scan, status, live)
  BY <1>1, ScanHere
<1>3. /\ x \in Orphan!Orphans /\ x.order \in OrphanPositions /\ OrphanIs(scan, x, status)
      /\ scan.closed \subseteq OrphanPositions /\ scan.kept \subseteq OrphanPositions
  BY <1>1, <1>2 DEF Scans, Orphan!Orphans, ScanIs
<1>4. x.row \in OrphanPositions /\ status[x.row] = "closed"
  BY <1>1, <1>3 DEF OrphanIs
<1>5. /\ RecordsOK' /\ \A q \in OrphanPositions : row[q] = "none" => row'[q] = "none"
      /\ live' \subseteq live /\ live \ live' \subseteq {x.row}
  BY <1>1, <1>4, CancelPendingOwn
<1>6. /\ OrphanMoves /\ \A u \in Placers : place'[u] = place[u] => PlaceRests(u)
  BY <1>1, <1>4, <1>5, RecordsMove DEF Accounted
<1> DEFINE q == [scan EXCEPT !.orphans = @ \ {x}, !.kept = @ \cup (live' \cap {x.row})]
<1>7. scan' = q
  BY DEF Orphan!CleanDb
<1>8. /\ q \in Scans /\ q.at = "clean" /\ q.known = scan.known /\ q.heal = scan.heal
      /\ q.orphans = scan.orphans \ {x} /\ q.closed = scan.closed
      /\ q.kept = scan.kept \cup (live' \cap {x.row})
  BY <1>1, <1>2, <1>3, <1>4 DEF Scans
<1> HIDE DEF q
<1>9. \A y \in q.orphans : OrphanIs(q, y, status)
  BY <1>1, <1>2, <1>8 DEF ScanIs, OrphanIs
<1>10. ASSUME NEW p \in q.closed PROVE p \notin live' \/ p \in q.kept \/ Awaits(q, p)
  BY <1>1, <1>2, <1>5, <1>8 DEF ScanIs, Awaits
<1>11. ScanIs(q, status', live')
  BY <1>1, <1>2, <1>8, <1>9, <1>10 DEF ScanIs
<1>12. ScanOK'
  BY <1>7, <1>8, <1>11, OrphanMembers DEF ScanOK
<1> QED
  BY <1>1, <1>5, <1>6, <1>12, RestingPlaces DEF OrphanInv

----------------------------------------------------------------------------
\* The invariant holds at first.
LEMMA OrphanStarts == Orphan!OrphanInit => OrphanInv
<1> SUFFICES ASSUME Orphan!OrphanInit PROVE OrphanInv
  OBVIOUS
<1> USE DEF Orphan!OrphanInit
<1>1. DOMAIN Left \subseteq OrphanPositions /\ OrphanGuarded \subseteq OrphanPositions
      /\ \A p \in DOMAIN Left : p \notin OrphanGuarded /\ Left[p] \in {"PENDING",
             "CANCELED"}
  BY OrphanAssumption
<1>2. /\ status \in [OrphanPositions -> {"none", "open", "closed"}]
      /\ row \in [OrphanPositions -> {"none", "PENDING", "CANCELED"}]
  BY <1>1
<1>3. exId \in [OrphanPositions -> Orphan!Ids \cup {Orphan!NoId}]
          /\ \A p \in OrphanPositions :
        exId[p] \in {Orphan!Index(p), Orphan!Client(p), Orphan!NoId}
            /\ (row[p] # "none" => exId[p] # Orphan!NoId)
  BY IdsDiffer
<1>4. /\ \A p \in OrphanPositions : status[p] = "none" => row[p] = "none"
      /\ Orphan!CanceledIsDead /\ Orphan!GuardsAreSpared
  BY <1>1, <1>2 DEF Orphan!CanceledIsDead, Orphan!GuardsAreSpared
<1>5. RecordsOK
  BY <1>1, <1>2, <1>3, <1>4 DEF RecordsOK
<1>6. PlacesOK
  BY OrphanMembers DEF PlacesOK, PlaceIs
<1>7. ScanOK
  BY OrphanMembers DEF ScanOK, ScanIs
<1> QED
  BY <1>5, <1>6, <1>7 DEF OrphanInv

\* Every step keeps it.
LEMMA OrphanStep ==
  ASSUME TriggersApart, Uncrossed, OrphanInv, [Orphan!OrphanNext]_(Orphan!orphanVars)
  PROVE  OrphanInv'
<1>1. ASSUME NEW p \in OrphanPositions, Orphan!GuardTriggers(p)
                 \/ Orphan!ClosePosition(p) \/ Orphan!CloseCancels(p)
      PROVE  OrphanInv'
  BY <1>1, GuardTriggersKeeps, ClosePositionKeeps, CloseCancelsKeeps
<1>2. ASSUME NEW t \in Placers,
             \/ \E p \in OrphanPositions : Orphan!PlaceStart(t, p)
             \/ Orphan!FreeBook(t) \/ Orphan!FreeRows(t) \/ Orphan!FreeMatch(t)
                    \/ Orphan!FreeCancel(t)
             \/ Orphan!PlaceSend(t) \/ Orphan!PlaceRow(t)
      PROVE  OrphanInv'
  BY <1>2, PlaceStartKeeps, FreeBookKeeps, FreeRowsKeeps, FreeMatchKeeps, FreeCancelKeeps,
     PlaceSendKeeps, PlaceRowKeeps
<1>3. ASSUME Orphan!ScanStart \/ Orphan!ScanRows \/ Orphan!ScanBook
                 \/ Orphan!ScanMatch \/ Orphan!ScanGroupEnds \/ Orphan!ScanEnds
             \/ Orphan!CleanEnds
      PROVE  OrphanInv'
  BY <1>3, ScanStartKeeps, ScanRowsKeeps, ScanBookKeeps, ScanMatchKeeps,
     ScanGroupEndsKeeps, ScanEndsKeeps, CleanEndsKeeps
<1>4. ASSUME NEW x \in scan.orphans, Orphan!CleanExchange(x) \/ Orphan!CleanDb(x)
      PROVE  OrphanInv'
  BY <1>4, CleanExchangeKeeps, CleanDbKeeps
<1>5. CASE UNCHANGED Orphan!orphanVars
  BY <1>5 DEF OrphanInv, RecordsOK, PlacesOK, ScanOK, Accounted, Orphan!CanceledIsDead,
     Orphan!GuardsAreSpared, Orphan!orphanVars
<1> QED
  BY <1>1, <1>2, <1>3, <1>4, <1>5 DEF Orphan!OrphanNext

\* The invariant implies the property.
LEMMA OrphanInvKeepsHouse == OrphanInv => Orphan!HousekeepingIsTrue
<1> SUFFICES ASSUME OrphanInv PROVE Orphan!HousekeepingIsTrue
  OBVIOUS
<1>1. Orphan!GuardsAreSpared /\ Orphan!CanceledIsDead
  BY DEF OrphanInv, RecordsOK
<1>2. Orphan!CleanUpIsComplete
  BY ScanHere DEF Orphan!CleanUpIsComplete, ScanIs, Awaits
<1>3. Orphan!RoomIsMade
  <2> SUFFICES ASSUME NEW t \in Placers, place[t].at = "send",
                      Orphan!AccountOf(place[t].pos) \in LighterAccounts
               PROVE  \A o \in place[t].closed :
                        Orphan!AccountOf(o) = Orphan!AccountOf(place[t].pos) =>
                        o \notin live \/ o \in place[t].kept
    BY DEF Orphan!RoomIsMade
  <2> QED
    BY PlaceHere DEF PlaceIs
<1> QED
  BY <1>1, <1>2, <1>3 DEF Orphan!HousekeepingIsTrue

\* Orphan by itself.
LEMMA HousekeepingAlone ==
  ASSUME TriggersApart, Uncrossed
  PROVE  Orphan!OrphanSpec => []Orphan!HousekeepingIsTrue
BY OrphanStarts, OrphanStep, OrphanInvKeepsHouse, PTL DEF Orphan!OrphanSpec

\* Orphan moves or stays.
LEMMA OrphansRun == ServicesSpec => Orphan!OrphanSpec
<1>1. ServicesInit => Orphan!OrphanInit
  BY DEF ServicesInit
<1>2. [ServicesNext]_servicesVars => [Orphan!OrphanNext]_(Orphan!orphanVars)
  BY DEF ServicesNext, servicesVars, orphanState, Orphan!orphanVars
<1> QED
  BY <1>1, <1>2, PTL DEF ServicesSpec, Orphan!OrphanSpec

\* For any positions, strategies, accounts and placements, the scan, the clean-up,
\* the cancels of closes and the pass that makes room on Lighter take no guard of
\* an open position and leave nothing of those that were closed before, if the
\* triggers of a side are apart and no account is LONG here and SHORT there.
THEOREM HouseIsKept ==
  ASSUME TriggersApart, Uncrossed
  PROVE  ServicesSpec => []HousekeepingIsTrue
<1>1. Orphan!OrphanSpec => []Orphan!HousekeepingIsTrue
  BY HousekeepingAlone
<1> QED
  BY <1>1, OrphansRun, PTL DEF HousekeepingIsTrue

----------------------------------------------------------------------------
(* Types.                                                                  *)

----------------------------------------------------------------------------
(* The types of all of them                                                 *)

\* The exchange service moves or stays.
LEMMA CachesRun == ServicesSpec => CacheSpec
<1>1. ServicesInit => CacheInit
  BY DEF ServicesInit
<1>2. [ServicesNext]_servicesVars => [CacheNext]_cacheVars
  BY DEF ServicesNext, servicesVars, cacheVars
<1> QED
  BY <1>1, <1>2, PTL DEF ServicesSpec, CacheSpec

\* A round counts each position once, when it leaves the list of those to be closed.
CountOK(here) ==
    /\ here.at \in {"apply", "refresh"} =>
         here.synced + Cardinality(here.rows) <= Cardinality(Reconciled)
    /\ here.at \notin {"idle", "apply", "refresh"} => here.synced = 0

CountsInv ==
    /\ notGone \subseteq Reconciled
    /\ \A r \in Rounds : CountOK(round[r])

\* One round that keeps its count is enough.
LEMMA CountsStep ==
  ASSUME RoundsTyped, CountsInv, NEW r \in Rounds, NEW next \in RoundKinds,
         Sync!RoundGoto(r, next), CountOK(next), notGone' \subseteq Reconciled
  PROVE  CountsInv'
<1>1. \A q \in Rounds : round'[q] = IF q = r THEN next ELSE round[q]
  BY DEF RoundsTyped, Sync!RoundGoto
<1>2. ASSUME NEW q \in Rounds PROVE CountOK(round'[q])
  BY <1>1 DEF CountsInv
<1> QED
  BY <1>2 DEF CountsInv, CountOK

\* The positions of a round, with one that leaves its list, are not more.
LEMMA OneIsCounted ==
  ASSUME IsFiniteSet(Reconciled), NEW S \in SUBSET Reconciled, NEW p \in S
  PROVE  /\ Cardinality(S) \in Nat /\ Cardinality(S \ {p}) \in Nat
         /\ Cardinality(S \ {p}) = Cardinality(S) - 1
         /\ Cardinality(S) <= Cardinality(Reconciled)
         /\ Cardinality(Reconciled) \in Nat
<1>1. IsFiniteSet(S)
  BY FS_Subset
<1> QED
  BY <1>1, FS_Subset, FS_RemoveElement, FS_CardinalityType

\* A list to be closed is one of positions there are.
LEMMA ListIsCounted ==
  ASSUME IsFiniteSet(Reconciled), NEW S \in SUBSET Reconciled
  PROVE  /\ Cardinality(S) \in Nat /\ Cardinality(Reconciled) \in Nat
         /\ Cardinality(S) <= Cardinality(Reconciled)
  BY FS_Subset, FS_CardinalityType

\* New rounds and those that are over have counted nothing.
LEMMA BlankCounts ==
  /\ \A cron \in BOOLEAN : Sync!Fresh(cron) \in RoundKinds /\ CountOK(Sync!Fresh(cron))
  /\ Sync!IdleRound \in RoundKinds /\ CountOK(Sync!IdleRound)
<1>1. \A cron \in BOOLEAN : CountOK(Sync!Fresh(cron))
  BY DEF CountOK, Sync!Fresh
<1>2. CountOK(Sync!IdleRound)
  BY DEF CountOK, Sync!IdleRound
<1> QED
  BY <1>1, <1>2, BlankRounds

\* Up to the plan nothing is counted; the plan lists positions.
LEMMA CountsBefore ==
  ASSUME IsFiniteSet(Reconciled), RoundsTyped, CountsInv, NEW r \in Rounds,
         \/ Sync!RoundHangs(r) \/ Sync!RoundReads(r) \/ Sync!RoundLists(r)
         \/ Sync!RoundPlans(r) \/ Sync!RoundRefreshes(r) \/ Sync!RoundEnds(r)
         \/ \E p \in Reconciled : Sync!RoundAsks(r, p)
  PROVE  CountsInv'
<1> DEFINE here == round[r]
<1>1. CountOK(here) /\ here \in RoundKinds
  BY DEF CountsInv, RoundsTyped
<1>2. here.at # "idle" => here \in Busy
  BY <1>1, BusyRounds
<1>3. CASE Sync!RoundGoto(r, Sync!IdleRound) /\ UNCHANGED notGone
  BY <1>3, CountsStep, BlankCounts DEF CountsInv
<1>4. CASE Sync!RoundReads(r) /\ ~Sync!Ends(r)
  <2> DEFINE next == [here EXCEPT !.at = "books", !.rows = openRow]
  <2>1. here.at = "read" /\ Sync!RoundGoto(r, next) /\ UNCHANGED notGone
    BY <1>4 DEF Sync!RoundReads, Sync!records
  <2>2. next \in RoundKinds /\ next.at = "books" /\ next.synced = here.synced
    BY <1>2, <2>1 DEF RoundKinds, Busy, RoundsTyped
  <2>3. CountOK(next)
    BY <1>1, <2>1, <2>2 DEF CountOK
  <2> HIDE DEF next
  <2> QED
    BY <2>1, <2>2, <2>3, CountsStep DEF CountsInv
<1>5. CASE Sync!RoundLists(r) /\ ~Sync!Ends(r)
  <2> DEFINE next == [here EXCEPT !.at = "contracts", !.booked = orders]
  <2>1. here.at = "books" /\ Sync!RoundGoto(r, next) /\ UNCHANGED notGone
    BY <1>5 DEF Sync!RoundLists, Sync!records
  <2>2. next \in RoundKinds /\ next.at = "contracts" /\ next.synced = here.synced
    BY <1>2, <2>1 DEF RoundKinds, Busy, RoundsTyped
  <2>3. CountOK(next)
    BY <1>1, <2>1, <2>2 DEF CountOK
  <2> HIDE DEF next
  <2> QED
    BY <2>1, <2>2, <2>3, CountsStep DEF CountsInv
<1>6. ASSUME NEW accounts \in SUBSET Reconciled, NEW found \in SUBSET Reconciled,
             NEW ok \in BOOLEAN, here.at = "contracts", Sync!Asked(r, accounts, found, ok),
             UNCHANGED notGone
      PROVE  CountsInv'
  <2> DEFINE rest == here.asked \ accounts
             next == [here EXCEPT !.asked = rest, !.seen = @ \cup found, !.answered = ok,
                                  !.at = IF rest = {} THEN "plan" ELSE "contracts"]
  <2>1. Sync!RoundGoto(r, next)
    BY <1>6 DEF Sync!Asked
  <2>2. next \in RoundKinds /\ next.at \in {"plan", "contracts"} /\ next.synced = here.synced
    BY <1>2, <1>6 DEF RoundKinds, Busy
  <2>3. CountOK(next)
    BY <1>1, <1>6, <2>2 DEF CountOK
  <2> HIDE DEF next
  <2> QED
    BY <1>6, <2>1, <2>2, <2>3, CountsStep DEF CountsInv
<1>7. ASSUME NEW p \in Reconciled, Sync!RoundAsks(r, p) PROVE CountsInv'
  <2>1. here.at = "contracts" /\ UNCHANGED notGone
    BY <1>7 DEF Sync!RoundAsks, Sync!records
  <2>2. here.answered \in BOOLEAN
    BY <1>2, <2>1 DEF Busy
  <2>3. \E accounts, found \in SUBSET Reconciled, ok \in BOOLEAN :
           Sync!Asked(r, accounts, found, ok)
    <3>1. {p} \in SUBSET Reconciled /\ held \cap {p} \in SUBSET Reconciled
          /\ {} \in SUBSET Reconciled /\ Reconciled \in SUBSET Reconciled
      OBVIOUS
    <3> QED
      BY <1>7, <2>2, <3>1, Zenon DEF Sync!RoundAsks
  <2> QED
    BY <1>6, <2>1, <2>3
<1>8. CASE Sync!RoundPlans(r)
  <2> DEFINE fresh == Sync!Fresh(here.cron)
             next == [fresh EXCEPT !.at = "apply", !.rows = Sync!ToClose(here)]
  <2>1. here.at = "plan" /\ Sync!RoundGoto(r, next) /\ UNCHANGED notGone
    BY <1>8 DEF Sync!RoundPlans, Sync!records
  <2>2. here \in Busy /\ here.cron \in BOOLEAN /\ here.rows \subseteq Reconciled
    BY <1>2, <2>1 DEF Busy
  <2>3. Sync!ToClose(here) \in SUBSET Reconciled
    BY <2>2 DEF Sync!ToClose
  <2>4. next \in Busy /\ next.rows = Sync!ToClose(here) /\ next.synced = 0
        /\ next.at = "apply"
    BY <2>2, <2>3 DEF Sync!Fresh, Busy
  <2> HIDE DEF next
  <2>5. CountOK(next)
    BY <2>3, <2>4, ListIsCounted DEF CountOK
  <2> QED
    BY <2>1, <2>4, <2>5, CountsStep DEF CountsInv, RoundKinds
<1>9. CASE Sync!RoundRefreshes(r) /\ ~Sync!Ends(r)
  <2> DEFINE next == [here EXCEPT !.at = "apply"]
  <2>1. here.at = "refresh" /\ Sync!RoundGoto(r, next) /\ UNCHANGED notGone
    BY <1>9 DEF Sync!RoundRefreshes, Sync!records
  <2>2. next \in RoundKinds /\ next.at = "apply" /\ next.synced = here.synced
        /\ next.rows = here.rows
    BY <1>2, <2>1 DEF RoundKinds, Busy, RoundsTyped
  <2>3. CountOK(next)
    BY <1>1, <2>1, <2>2 DEF CountOK
  <2> HIDE DEF next
  <2> QED
    BY <2>1, <2>2, <2>3, CountsStep DEF CountsInv
<1>10. Sync!Ends(r) => Sync!RoundGoto(r, Sync!IdleRound)
  BY DEF Sync!Ends
<1>11. UNCHANGED notGone
  BY DEF Sync!RoundHangs, Sync!RoundReads, Sync!RoundLists, Sync!RoundPlans,
     Sync!RoundRefreshes, Sync!RoundEnds, Sync!RoundAsks, Sync!records
<1>12. CASE Sync!RoundHangs(r) \/ Sync!RoundEnds(r)
  BY <1>3, <1>10, <1>11, <1>12 DEF Sync!RoundHangs, Sync!RoundEnds
<1> QED
  BY <1>3, <1>4, <1>5, <1>7, <1>8, <1>9, <1>10, <1>11, <1>12

\* What leaves the list is counted at most once.
LEMMA CountsApply ==
  ASSUME IsFiniteSet(Reconciled), RoundsTyped, CountsInv, NEW r \in Rounds,
         NEW p \in Reconciled, Sync!RoundApplies(r, p) \/ Sync!RoundApplyFails(r, p)
  PROVE  CountsInv'
<1> DEFINE here == round[r]
<1>1. CountOK(here) /\ here \in Busy /\ here.at = "apply" /\ p \in here.rows
  BY BusyRounds DEF CountsInv, RoundsTyped, Sync!RoundApplies, Sync!RoundApplyFails
<1>2. /\ here.rows \in SUBSET Reconciled /\ here.synced \in Nat
      /\ here.synced + Cardinality(here.rows) <= Cardinality(Reconciled)
  BY <1>1 DEF Busy, CountOK
<1>3. /\ Cardinality(here.rows) \in Nat /\ Cardinality(here.rows \ {p}) \in Nat
      /\ Cardinality(here.rows \ {p}) = Cardinality(here.rows) - 1
      /\ Cardinality(Reconciled) \in Nat
  BY <1>1, <1>2, OneIsCounted
<1>4. ASSUME NEW n \in {here.synced, here.synced + 1}, NEW at \in {"apply", "refresh"},
             Sync!RoundGoto(r, [here EXCEPT !.rows = @ \ {p}, !.synced = n, !.at = at]),
             notGone' \subseteq Reconciled
      PROVE  CountsInv'
  <2> DEFINE next == [here EXCEPT !.rows = @ \ {p}, !.synced = n, !.at = at]
  <2>2. n \in Nat /\ n <= here.synced + 1
    BY <1>2
  <2>5. /\ here \in Busy /\ here.rows \ {p} \in SUBSET Reconciled
        /\ n \in Nat /\ at \in {"apply", "refresh"}
    BY <1>1, <1>2, <2>2
  <2>1. next \in Busy /\ next.rows = here.rows \ {p} /\ next.synced = n /\ next.at = at
    <3> HIDE DEF here
    <3> QED
      BY <2>5 DEF Busy
  <2> HIDE DEF next
  <2>3. next.synced + Cardinality(next.rows) <= Cardinality(Reconciled)
    BY <1>2, <1>3, <2>1, <2>2
  <2>4. CountOK(next)
    BY <2>1, <2>3 DEF CountOK
  <2> QED
    BY <1>4, <2>1, <2>4, CountsStep DEF RoundKinds, next
<1>5. CASE Sync!RoundApplyFails(r, p)
  <2>1. Sync!RoundGoto(r, [here EXCEPT !.rows = @ \ {p}]) /\ UNCHANGED notGone
    BY <1>5 DEF Sync!RoundApplyFails, Sync!records
  <2>2. [here EXCEPT !.rows = @ \ {p}]
           = [here EXCEPT !.rows = @ \ {p}, !.synced = here.synced, !.at = "apply"]
    BY <1>1 DEF Busy
  <2> QED
    BY <1>4, <2>1, <2>2 DEF CountsInv
<1>6. CASE Sync!RoundApplies(r, p)
  <2> DEFINE n == here.synced + (IF p \in openRow THEN 1 ELSE 0)
             full == p \in openRow /\ n % RefreshEvery = 0
             at == IF full THEN "refresh" ELSE "apply"
  <2>1. /\ Sync!RoundGoto(r, [here EXCEPT !.rows = @ \ {p}, !.synced = n, !.at = at])
        /\ notGone' \in {notGone, notGone \cup {p}}
    BY <1>6 DEF Sync!RoundApplies
  <2>2. n \in {here.synced, here.synced + 1} /\ at \in {"apply", "refresh"}
    BY <1>2
  <2> HIDE DEF n, at
  <2> QED
    BY <1>4, <2>1, <2>2 DEF CountsInv
<1> QED
  BY <1>5, <1>6

\* No step but these counts, and no round begins with a count.
LEMMA CountsKept ==
  ASSUME IsFiniteSet(Reconciled), RoundsTyped, CountsInv, [Sync!SyncNext]_(Sync!syncVars)
  PROVE  CountsInv'
<1>1. CASE UNCHANGED <<round, notGone>>
  BY <1>1 DEF CountsInv
<1>2. ASSUME NEW cron \in BOOLEAN, Sync!Begin(cron), UNCHANGED notGone PROVE CountsInv'
  BY <1>2, CountsStep, BlankCounts DEF Sync!Begin, CountsInv
<1>3. CASE Sync!CronFires \/ Sync!ManualFires
  BY <1>1, <1>2, <1>3 DEF Sync!CronFires, Sync!ManualFires, Sync!records
<1>4. CASE UNCHANGED Sync!syncVars \/ Sync!Period
             \/ \E p \in Reconciled : Sync!Closes(p) \/ Sync!Unguarded(p)
  BY <1>1, <1>4 DEF Sync!Period, Sync!Closes, Sync!Unguarded, Sync!records, Sync!syncVars
<1> QED
  BY <1>3, <1>4, CountsBefore, CountsApply DEF Sync!SyncNext

\* The types of SyncRounds: the clock within its bounds, a round with its counts.
LEMMA RoundTypes == ServicesSpec => []Sync!SyncTypeOK
<1>1. Sync!SyncSpec => []RoundsInv
  BY ClockAssumption, RoundsAlone
<1>2. Sync!SyncInit => CountsInv
  BY BlankCounts DEF Sync!SyncInit, CountsInv
<1>3. RoundsInv /\ CountsInv /\ [Sync!SyncNext]_(Sync!syncVars) => CountsInv'
  BY ClockAssumption, CountsKept DEF RoundsInv, KnowsInv
<1>4. RoundsInv /\ CountsInv => Sync!SyncTypeOK
  <2> SUFFICES ASSUME RoundsInv, CountsInv PROVE Sync!SyncTypeOK
    OBVIOUS
  <2>1. ClockInv /\ RoundsTyped /\ resets \in 0..Cardinality(Rounds)
    BY DEF RoundsInv, KnowsInv, OverlapInv
  <2>2. unserved \in 0..(Watchdog + 3)
    <3>1. /\ running \in BOOLEAN /\ startedAt \in 0..(Watchdog + 1) /\ unserved \in Nat
          /\ (running => unserved <= startedAt) /\ (~running => unserved <= Watchdog + 1)
      BY <2>1 DEF ClockInv
    <3> QED
      BY <3>1, ClockAssumption
  <2>3. ASSUME NEW r \in Rounds PROVE round[r] \in Sync!RoundStates
    <3>1. round[r] \in RoundKinds /\ CountOK(round[r])
      BY <2>1 DEF RoundsTyped, CountsInv
    <3>2. CASE round[r] \in Busy
      <4>1. /\ round[r].rows \in SUBSET Reconciled /\ round[r].synced \in Nat
            /\ round[r].at \in {"read", "books", "contracts", "plan", "apply", "refresh"}
        BY <3>2 DEF Busy
      <4>2. round[r].synced \in 0..Cardinality(Reconciled)
        BY <3>1, <4>1, ClockAssumption, ListIsCounted DEF CountOK
      <4> QED
        BY <3>2, <4>2, SyncCardinality DEF Busy, Sync!RoundStates
    <3> QED
      BY <3>1, <3>2 DEF RoundKinds, Sync!RoundStates
  <2>4. round \in [Rounds -> Sync!RoundStates]
    BY <2>1, <2>3 DEF RoundsTyped
  <2> QED
    BY <2>1, <2>2, <2>4, SyncCardinality DEF ClockInv, RoundsTyped, CountsInv, Sync!SyncTypeOK
<1>5. Sync!SyncSpec => []Sync!SyncTypeOK
  BY <1>1, <1>2, <1>3, <1>4, PTL DEF Sync!SyncSpec
<1> QED
  BY <1>5, RoundsRun, PTL

\* The rest of what MarketData keeps: nothing but its own steps change it.
ListenersOK == connected \subseteq Browsers /\ monitored \subseteq Symbols /\ redisUp \in BOOLEAN

\* The types of MarketData.
LEMMA PriceTypes == ServicesSpec => []Market!MarketTypeOK
<1>1. Market!MarketSpec => [](AudienceInv /\ PricesInv)
  BY LivesAssumption, PricesAlone DEF LivesOK
<1>2. Market!MarketInit => ListenersOK
  BY DEF Market!MarketInit, ListenersOK
<1>3. ListenersOK /\ [Market!MarketNext]_(Market!marketVars) => ListenersOK'
  <2> SUFFICES ASSUME ListenersOK, [Market!MarketNext]_(Market!marketVars) PROVE ListenersOK'
    OBVIOUS
  <2>1. CASE UNCHANGED <<connected, monitored, redisUp>>
    BY <2>1 DEF ListenersOK
  <2>2. ASSUME NEW b \in Browsers, Market!Connect(b) \/ Market!Disconnect(b) PROVE ListenersOK'
    BY <2>2 DEF ListenersOK, Market!Connect, Market!Disconnect, Market!prices
  <2>3. CASE Market!SubscribeOpen \/ Market!RedisTurns
    BY <2>3, LivesAssumption DEF ListenersOK, Market!SubscribeOpen, Market!RedisTurns,
       Market!prices, Market!audience
  <2>4. ASSUME NEW b \in Browsers, NEW s \in Symbols,
               Market!Subscribe(b, s) \/ Market!Unsubscribe(b, s)
        PROVE  ListenersOK'
    BY <2>1, <2>4 DEF Market!Subscribe, Market!Unsubscribe, Market!prices
  <2>5. CASE Market!Tick \/ Market!Refresh \/ UNCHANGED Market!marketVars
    BY <2>1, <2>5 DEF Market!Tick, Market!Refresh, Market!audience, Market!marketVars
  <2>6. ASSUME NEW f \in flights, Market!RefreshArrives(f) \/ Market!RefreshFails(f)
        PROVE  ListenersOK'
    BY <2>1, <2>6 DEF Market!RefreshArrives, Market!RefreshFails, Market!audience
  <2>7. ASSUME NEW k \in Askers,
               \/ \E s \in Symbols, ticker \in BOOLEAN : Market!Ask(k, s, ticker)
               \/ Market!AskRedis(k) \/ Market!AskSend(k) \/ Market!AskArrives(k)
               \/ Market!AskFails(k)
        PROVE  ListenersOK'
    BY <2>1, <2>7 DEF Market!Ask, Market!AskRedis, Market!AskSend, Market!AskArrives,
       Market!AskFails, Market!audience
  <2> QED
    BY <2>2, <2>3, <2>4, <2>5, <2>6, <2>7 DEF Market!MarketNext
<1>4. AudienceInv /\ PricesInv /\ ListenersOK => Market!MarketTypeOK
  <2> SUFFICES ASSUME AudienceInv, PricesInv, ListenersOK PROVE Market!MarketTypeOK
    OBVIOUS
  <2>1. \A s \in Symbols : redis[s] \in [age : Market!Ages, left : 1..RedisTtl] \cup {None}
    BY DEF PricesInv, RedisOK, Kept
  <2>2. \A k \in Askers : ask[k] \in Market!Asks
    BY DEF PricesInv, AskOK, Reading, Fetching, Got, Market!Asks
  <2>3. /\ redis \in [Symbols -> [age : Market!Ages, left : 1..RedisTtl] \cup {None}]
        /\ ask \in [Askers -> Market!Asks]
    BY <2>1, <2>2 DEF PricesInv
  <2> QED
    BY <2>3 DEF AudienceInv, PricesInv, ListenersOK, Market!MarketTypeOK
<1>5. Market!MarketSpec => []Market!MarketTypeOK
  BY <1>1, <1>2, <1>3, <1>4, PTL DEF Market!MarketSpec
<1> QED
  BY <1>5, PricesRun, PTL

\* Positions of a side that were ever bought: no more contracts are in the account.
Bought(side) ==
    {p \in Positions : SideOf[p] = side /\ (p \in creating \/ positionRow[p] # "none")}

PoolInv ==
    /\ placing \subseteq Positions /\ tp \subseteq Positions /\ sl \subseteq Positions
    /\ shaken \subseteq Positions
    /\ watch \in [Batches!Requests -> SUBSET Directions]
    /\ \A side \in Directions : pool[side] <= Cardinality(Bought(side))

\* What is bought stays bought, and nothing is sold below nothing.
PoolKept ==
    /\ \A side \in Directions : Bought(side) \subseteq Bought(side)'
    /\ \A side \in Directions : pool'[side] <= pool[side]

\* The account holds no more than before, of no fewer positions.
LEMMA PoolStep ==
  ASSUME IsFiniteSet(Positions), PoolInv, RowsOK, RowsOK', PoolKept, NEW side \in Directions
  PROVE  pool'[side] <= Cardinality(Bought(side)')
<1>1. Bought(side)' \subseteq Positions
  BY DEF Bought
<1>2. IsFiniteSet(Bought(side)') /\ Bought(side) \subseteq Bought(side)'
  BY <1>1, FS_Subset DEF PoolKept
<1>3. /\ Cardinality(Bought(side)) <= Cardinality(Bought(side)')
      /\ Cardinality(Bought(side)) \in Nat /\ Cardinality(Bought(side)') \in Nat
  BY <1>2, FS_Subset, FS_CardinalityType
<1>4. pool[side] \in Nat /\ pool'[side] \in Nat /\ pool'[side] <= pool[side]
      /\ pool[side] <= Cardinality(Bought(side))
  BY DEF RowsOK, PoolKept, PoolInv
<1> QED
  BY <1>3, <1>4

\* A purchase is of a position that was not bought.
LEMMA PurchaseStep ==
  ASSUME IsFiniteSet(Positions), PoolInv, RowsOK, RowsOK', NEW p \in Positions,
         Batches!OpenMarket(p), NEW side \in Directions
  PROVE  pool'[side] <= Cardinality(Bought(side)')
<1> USE DEF Batches!OpenMarket
<1>1. pool[side] \in Nat /\ pool[side] <= Cardinality(Bought(side))
  BY DEF RowsOK, PoolInv
<1>2. IsFiniteSet(Bought(side)) /\ Cardinality(Bought(side)) \in Nat
  BY FS_Subset, FS_CardinalityType DEF Bought
<1>3. CASE SideOf[p] = side
  <2>1. Bought(side)' = Bought(side) \cup {p} /\ p \notin Bought(side)
    BY <1>3 DEF Bought
  <2>2. Cardinality(Bought(side)') = Cardinality(Bought(side)) + 1
    BY <1>2, <2>1, FS_AddElement
  <2>3. pool'[side] = pool[side] + 1
    BY <1>3 DEF RowsOK
  <2> QED
    BY <1>1, <1>2, <2>2, <2>3
<1>4. CASE SideOf[p] # side
  <2>1. Bought(side)' = Bought(side)
    BY <1>4 DEF Bought
  <2>2. pool'[side] = pool[side]
    BY <1>4 DEF RowsOK
  <2> QED
    BY <1>1, <2>1, <2>2
<1> QED
  BY <1>3, <1>4

\* A row that is written is not taken back, and what is bought without a row gets one.
RowsStay ==
    /\ \/ positionRow' = positionRow
       \/ \E p \in Positions, to \in {"OPEN", "CLOSED"} :
             positionRow' = [positionRow EXCEPT ![p] = to]
    /\ \A p \in creating : p \in creating' \/ positionRow'[p] # "none"

\* Then what was bought is bought.
LEMMA BoughtStays ==
  ASSUME RowsOK, RowsStay, NEW side \in Directions
  PROVE  Bought(side) \subseteq Bought(side)'
<1>1. \A p \in Positions : positionRow[p] # "none" => positionRow'[p] # "none"
  BY DEF RowsStay, RowsOK
<1> QED
  BY <1>1 DEF Bought, RowsStay

\* A sale leaves no more than before.
LEMMA TakeLess ==
  ASSUME RowsOK, NEW p \in Positions, Batches!Take(p), NEW side \in Directions
  PROVE  pool'[side] <= pool[side]
<1>1. pool \in [Directions -> Nat]
  BY DEF RowsOK
<1> QED
  BY <1>1 DEF Batches!Take

\* The history of a reconciliation is one of sides.
LEMMA WatchStep ==
  ASSUME PoolInv, Batches!Watched
  PROVE  watch' \in [Batches!Requests -> SUBSET Directions]
<1>1. \A s : Batches!Disagree(positionRow', pool', s) \in SUBSET Directions
  BY DEF Batches!Disagree
<1> QED
  BY <1>1 DEF PoolInv, Batches!Watched

\* The guards that are placed, and those that are lost, are of positions.
LEMMA GuardTypes ==
  ASSUME PositionInv, PoolInv, Batches!PositionStep
  PROVE  /\ placing' \subseteq Positions /\ tp' \subseteq Positions
         /\ sl' \subseteq Positions /\ shaken' \subseteq Positions
<1> DEFINE types == /\ placing' \subseteq Positions /\ tp' \subseteq Positions
                    /\ sl' \subseteq Positions /\ shaken' \subseteq Positions
<1>1. /\ placing \subseteq Positions /\ tp \subseteq Positions
      /\ sl \subseteq Positions /\ shaken \subseteq Positions
  BY DEF PoolInv
<1>2. \A r \in Batches!Requests :
        req[r].at \in {"close", "save", "cancel", "tp", "sl", "mend"} => req[r].p \in Positions
  BY RequestKinds DEF PositionInv, Works
<1>3. ASSUME NEW p \in Positions,
             \/ Batches!OpenMarket(p) \/ Batches!OpenSave(p) \/ Batches!PlaceFirst(p)
             \/ Batches!MonitorCloses(p) \/ Batches!Leaves(p) \/ Batches!GuardLost(p)
      PROVE  types
  BY <1>1, <1>3, Zenon DEF Batches!OpenMarket, Batches!OpenSave, Batches!PlaceFirst,
     Batches!MonitorCloses, Batches!Leaves, Batches!GuardLost
<1>4. ASSUME NEW r \in Batches!Requests,
             \/ \E s \in Scopes : Batches!CloseAllStart(r, s) \/ Batches!RepairStart(r, s)
             \/ \E p \in Positions : Batches!CloseNext(r, p) \/ Batches!RepairNext(r, p)
             \/ Batches!CloseAtMarket(r) \/ Batches!CloseAllEnds(r) \/ Batches!RepairEnds(r)
             \/ \E s \in Strategies : Batches!CompareStart(r, s)
             \/ \E side \in Directions : Batches!Compare(r, side)
             \/ Batches!CompareEnds(r)
      PROVE  types
  BY <1>1, <1>4 DEF Batches!CloseAllStart, Batches!RepairStart, Batches!Batch,
     Batches!CloseNext, Batches!RepairNext, Batches!CloseAtMarket, Batches!CloseAllEnds,
     Batches!RepairEnds, Batches!CompareStart, Batches!Compare, Batches!CompareEnds
<1>5. ASSUME NEW r \in Batches!Requests, Batches!CloseSave(r) PROVE types
  BY <1>1, <1>2, <1>5 DEF Batches!CloseSave
<1>6. ASSUME NEW r \in Batches!Requests, Batches!RepairCancel(r) PROVE types
  BY <1>1, <1>2, <1>6 DEF Batches!RepairCancel
<1>7. ASSUME NEW r \in Batches!Requests, Batches!RepairPlace(r) PROVE types
  <2>1. req[r].p \in Positions /\ UNCHANGED placing
    BY <1>2, <1>7 DEF Batches!RepairPlace
  <2>2. /\ tp' \in {tp, tp \cup {req[r].p}} /\ sl' \in {sl, sl \cup {req[r].p}}
        /\ shaken' \in {shaken, shaken \ {req[r].p}}
    BY <1>7 DEF Batches!RepairPlace
  <2> QED
    BY <1>1, <2>1, <2>2
<1> QED
  BY <1>3, <1>4, <1>5, <1>6, <1>7 DEF Batches!PositionStep, Batches!Requests

\* No step but a purchase makes the account hold more, and none unwrites a row.
LEMMA PoolFalls ==
  ASSUME PositionInv, Batches!PositionStep
  PROVE  (\E p \in Positions : Batches!OpenMarket(p)) \/ PoolKept
<1>0. RowsOK /\ pool \in [Directions -> Nat] /\ \A p \in creating : p \in Positions
  BY DEF PositionInv, RowsOK
<1>1. \A r \in Batches!Requests :
        req[r].at \in {"close", "save", "cancel", "tp", "sl", "mend"} => req[r].p \in Positions
  BY RequestKinds DEF PositionInv, Works
<1>2. ASSUME RowsStay, pool' = pool \/ \E p \in Positions : Batches!Take(p)
      PROVE  PoolKept
  <2>1. ASSUME NEW side \in Directions PROVE pool'[side] <= pool[side]
    BY <1>0, <1>2, TakeLess
  <2> QED
    BY <1>0, <1>2, <2>1, BoughtStays DEF PoolKept
<1>3. UNCHANGED <<positionRow, creating>> => RowsStay
  BY DEF RowsStay
<1>4. ASSUME NEW p \in Positions, NEW to \in {"OPEN", "CLOSED"},
             positionRow' = [positionRow EXCEPT ![p] = to],
             creating' = creating \/ creating' = creating \ {p}
      PROVE  RowsStay
  <2>1. positionRow'[p] # "none"
    BY <1>0, <1>4 DEF RowsOK
  <2>2. \E q \in Positions, end \in {"OPEN", "CLOSED"} :
           positionRow' = [positionRow EXCEPT ![q] = end]
    BY <1>4
  <2>3. \A q \in creating : q \in creating' \/ positionRow'[q] # "none"
    BY <1>4, <2>1
  <2> QED
    BY <2>2, <2>3 DEF RowsStay
<1>5. ASSUME NEW p \in Positions,
             \/ Batches!OpenSave(p) \/ Batches!PlaceFirst(p)
             \/ Batches!MonitorCloses(p) \/ Batches!Leaves(p) \/ Batches!GuardLost(p)
      PROVE  PoolKept
  <2>1. CASE Batches!OpenSave(p) \/ Batches!MonitorCloses(p)
    <3>1. RowsStay /\ pool' = pool
      BY <1>4, <2>1 DEF Batches!OpenSave, Batches!MonitorCloses
    <3> QED
      BY <1>2, <3>1
  <2>2. CASE Batches!PlaceFirst(p) \/ Batches!Leaves(p) \/ Batches!GuardLost(p)
    <3>1. UNCHANGED <<positionRow, creating>> /\ (pool' = pool \/ Batches!Take(p))
      BY <2>2 DEF Batches!PlaceFirst, Batches!Leaves, Batches!GuardLost
    <3> QED
      BY <1>2, <1>3, <3>1
  <2> QED
    BY <1>5, <2>1, <2>2
<1>6. ASSUME NEW r \in Batches!Requests,
             \/ \E s \in Scopes : Batches!CloseAllStart(r, s) \/ Batches!RepairStart(r, s)
             \/ \E p \in Positions : Batches!CloseNext(r, p) \/ Batches!RepairNext(r, p)
             \/ Batches!CloseAllEnds(r) \/ Batches!RepairEnds(r) \/ Batches!RepairCancel(r)
             \/ \E s \in Strategies : Batches!CompareStart(r, s)
             \/ \E side \in Directions : Batches!Compare(r, side)
             \/ Batches!CompareEnds(r)
      PROVE  PoolKept
  <2>1. UNCHANGED <<positionRow, creating, pool>>
    BY <1>6 DEF Batches!CloseAllStart, Batches!RepairStart, Batches!Batch,
       Batches!CloseNext, Batches!RepairNext, Batches!CloseAllEnds, Batches!RepairEnds,
       Batches!RepairCancel, Batches!CompareStart, Batches!Compare, Batches!CompareEnds
  <2> QED
    BY <1>2, <1>3, <2>1
<1>7. ASSUME NEW r \in Batches!Requests, Batches!CloseAtMarket(r) \/ Batches!RepairPlace(r)
      PROVE  PoolKept
  <2>1. req[r].p \in Positions /\ UNCHANGED <<positionRow, creating>>
    BY <1>1, <1>7 DEF Batches!CloseAtMarket, Batches!RepairPlace
  <2>2. pool' = pool \/ Batches!Take(req[r].p)
    BY <1>7 DEF Batches!CloseAtMarket, Batches!RepairPlace
  <2> QED
    BY <1>2, <1>3, <2>1, <2>2
<1>8. ASSUME NEW r \in Batches!Requests, Batches!CloseSave(r) PROVE PoolKept
  <2>1. RowsStay /\ pool' = pool
    BY <1>1, <1>4, <1>8 DEF Batches!CloseSave
  <2> QED
    BY <1>2, <2>1
<1> QED
  BY <1>5, <1>6, <1>7, <1>8 DEF Batches!PositionStep, Batches!Requests

\* PositionService counts positions as the library does.
LEMMA BatchCardinality == \A S : Batches!Cardinality(S) = Cardinality(S)
  BY DEF Batches!Cardinality, Cardinality

\* The types of PositionService: the account holds no contracts that nobody bought.
LEMMA BatchTypes == ServicesSpec => []Batches!PositionTypeOK
<1>1. Batches!PositionSpec => []PositionInv
  BY BatchAssumption, BatchesAlone
<1>2. Batches!PositionInit => PoolInv
  <2> SUFFICES ASSUME Batches!PositionInit PROVE PoolInv
    OBVIOUS
  <2>1. ASSUME NEW side \in Directions PROVE pool[side] <= Cardinality(Bought(side))
    <3>1. Bought(side) = {p \in Existing : SideOf[p] = side}
      BY BatchAssumption DEF Batches!PositionInit, Bought
    <3>2. pool[side] = Cardinality(Bought(side))
      BY <3>1, BatchCardinality DEF Batches!PositionInit
    <3>3. Cardinality(Bought(side)) \in Nat
      BY BatchAssumption, FS_Subset, FS_CardinalityType DEF Bought
    <3> QED
      BY <3>2, <3>3
  <2> QED
    BY <2>1, BatchAssumption DEF Batches!PositionInit, PoolInv
<1>3. PositionInv /\ PositionInv' /\ PoolInv
         /\ [Batches!PositionNext]_(Batches!positionVars) => PoolInv'
  <2> SUFFICES ASSUME PositionInv, PositionInv', PoolInv,
                      [Batches!PositionNext]_(Batches!positionVars)
               PROVE  PoolInv'
    OBVIOUS
  <2>1. CASE UNCHANGED Batches!positionVars
    BY <2>1 DEF Batches!positionVars, PoolInv, Bought
  <2>2. CASE Batches!PositionNext
    <3>1. Batches!PositionStep /\ Batches!Watched /\ RowsOK /\ RowsOK'
      BY <2>2 DEF Batches!PositionNext, PositionInv
    <3>2. \A side \in Directions : pool'[side] <= Cardinality(Bought(side)')
      BY <3>1, BatchAssumption, PoolFalls, PoolStep, PurchaseStep
    <3> QED
      BY <3>1, <3>2, GuardTypes, WatchStep DEF PoolInv
  <2> QED
    BY <2>1, <2>2
<1>4. PositionInv /\ PoolInv => Batches!PositionTypeOK
  <2> SUFFICES ASSUME PositionInv, PoolInv PROVE Batches!PositionTypeOK
    OBVIOUS
  <2>1. ASSUME NEW side \in Directions PROVE pool[side] \in 0..Cardinality(Positions)
    <3>1. /\ Cardinality(Bought(side)) \in Nat /\ Cardinality(Positions) \in Nat
          /\ Cardinality(Bought(side)) <= Cardinality(Positions)
      BY BatchAssumption, FS_Subset, FS_CardinalityType DEF Bought
    <3>2. pool[side] \in Nat /\ pool[side] <= Cardinality(Bought(side))
      BY DEF PositionInv, RowsOK, PoolInv
    <3> QED
      BY <3>1, <3>2
  <2>2. pool \in [Directions -> 0..Batches!Cardinality(Positions)]
    BY <2>1, BatchCardinality DEF PositionInv, RowsOK
  <2> QED
    BY <2>2 DEF PositionInv, RowsOK, PoolInv, Batches!PositionTypeOK
<1>5. Batches!PositionSpec => []Batches!PositionTypeOK
  BY <1>1, <1>2, <1>3, <1>4, PTL DEF Batches!PositionSpec
<1> QED
  BY <1>5, BatchesRun, PTL

\* The types of the adapters are part of their invariants.
LEMMA AdapterTypes ==
  /\ ServicesSpec => []Legs!LighterTypeOK
  /\ ServicesSpec => []Books!BinanceTypeOK
  /\ ServicesSpec => []CacheTypeOK
<1>1. LegsInv => Legs!LighterTypeOK
  BY DEF LegsInv
<1>2. BinanceInv => Books!BinanceTypeOK
  BY DEF BinanceInv
<1>3. Inv => CacheTypeOK
  BY DEF Inv
<1>4. Legs!LighterSpec => []LegsInv
  BY LegsAssumption, LegsAlone
<1>5. ServicesSpec => []Legs!LighterTypeOK
  BY <1>1, <1>4, LegsRun, PTL
<1>6. ServicesSpec => []Books!BinanceTypeOK
  BY <1>2, OrdersAlone, BooksRun, PTL
<1>7. ServicesSpec => []CacheTypeOK
  BY <1>3, InvHolds, CachesRun, PTL
<1> QED
  BY <1>5, <1>6, <1>7

\* The types of OrphanOrders need none of the hypotheses its properties do.
RowTypes ==
    /\ status \in [OrphanPositions -> {"none", "open", "closed"}]
    /\ live \subseteq OrphanPositions /\ gone \subseteq OrphanPositions
    /\ row \in [OrphanPositions -> {"none", "PENDING", "CANCELED"}]
    /\ exId \in [OrphanPositions -> Orphan!Ids \cup {Orphan!NoId}]
    /\ closing \subseteq OrphanPositions
    /\ late \subseteq OrphanPositions /\ spared \subseteq OrphanPositions

\* What a scan finds: an order without a row, or with any; or a row.
Findings == [kind : {"exchange"}, order : OrphanPositions, row : OrphanPositions \cup {0}]
            \cup [kind : {"db"}, order : OrphanPositions, row : OrphanPositions]

FindingScans == {q \in Scans : q.orphans \subseteq Findings}

OrphanTypes ==
    /\ RowTypes
    /\ place \in [Placers -> Orphan!PlaceStates]
    /\ scan \in FindingScans \cup {Orphan!IdleScan}

\* An order that a row is matched with is one of those there are, and healing
\* writes an id of it.
LEMMA HealTypes ==
  ASSUME RowTypes, NEW r \in OrphanPositions, NEW S \in SUBSET OrphanPositions
  PROVE  /\ Orphan!OrderFor(r, S) \in SUBSET S
         /\ \A o \in OrphanPositions :
              /\ Orphan!Index(o) \in Orphan!Ids /\ Orphan!Client(o) \in Orphan!Ids
              /\ Orphan!Healed(r, o) \in [OrphanPositions -> Orphan!Ids \cup {Orphan!NoId}]
<1>1. Orphan!OrderFor(r, S) \in SUBSET S
  BY DEF Orphan!OrderFor
<1>2. ASSUME NEW o \in OrphanPositions
      PROVE  Orphan!Index(o) \in Orphan!Ids /\ Orphan!Client(o) \in Orphan!Ids
  BY DEF Orphan!Index, Orphan!Client, Orphan!Ids
<1>3. ASSUME NEW o \in OrphanPositions
      PROVE  Orphan!Healed(r, o) \in [OrphanPositions -> Orphan!Ids \cup {Orphan!NoId}]
  <2>1. Orphan!Index(o) \in Orphan!Ids \cup {Orphan!NoId}
    BY <1>2
  <2>2. exId \in [OrphanPositions -> Orphan!Ids \cup {Orphan!NoId}]
    BY DEF RowTypes
  <2> QED
    BY <2>1, <2>2 DEF Orphan!Healed
<1> QED
  BY <1>1, <1>2, <1>3

\* What is cancelled with a row is in the book, whatever the row's id is.
LEMMA CancelTypes ==
  ASSUME RowTypes, NEW p \in OrphanPositions, Orphan!CancelPending(p),
         UNCHANGED <<status, gone>>, closing' \subseteq OrphanPositions,
         late' \subseteq OrphanPositions
  PROVE  RowTypes'
<1>1. CASE UNCHANGED <<row, exId, live, spared>>
  BY <1>1 DEF RowTypes
<1>2. CASE row[p] = "PENDING"
  <2>0. PICK known \in {Orphan!Book({Orphan!AccountOf(p)}), {}} :
        \E o \in IF Orphan!OrderFor(p, known) = {} THEN {0} ELSE Orphan!OrderFor(p, known) :
        LET ids == IF o = 0 THEN exId ELSE Orphan!Healed(p, o)
            id == IF o = 0 THEN exId[p] ELSE Orphan!Index(o)
        IN \E answer \in Orphan!Answers(id, Orphan!AccountOf(p)) :
             /\ exId' = ids
             /\ live' = live \ answer.kills
             /\ spared' = IF Orphan!Survives(id.of, answer)
                          THEN spared \cup {id.of} ELSE spared
             /\ row' = [row EXCEPT ![p] = "CANCELED"]
    BY <1>2, Zenon DEF Orphan!CancelPending
  <2>1. PICK o \in IF Orphan!OrderFor(p, known) = {} THEN {0} ELSE Orphan!OrderFor(p, known) :
        LET ids == IF o = 0 THEN exId ELSE Orphan!Healed(p, o)
            id == IF o = 0 THEN exId[p] ELSE Orphan!Index(o)
        IN \E answer \in Orphan!Answers(id, Orphan!AccountOf(p)) :
             /\ exId' = ids
             /\ live' = live \ answer.kills
             /\ spared' = IF Orphan!Survives(id.of, answer)
                          THEN spared \cup {id.of} ELSE spared
             /\ row' = [row EXCEPT ![p] = "CANCELED"]
    BY <2>0, Zenon
  <2> DEFINE ids == IF o = 0 THEN exId ELSE Orphan!Healed(p, o)
             id == IF o = 0 THEN exId[p] ELSE Orphan!Index(o)
  <2>2. PICK answer \in Orphan!Answers(id, Orphan!AccountOf(p)) :
             /\ exId' = ids
             /\ live' = live \ answer.kills
             /\ spared' = IF Orphan!Survives(id.of, answer)
                          THEN spared \cup {id.of} ELSE spared
             /\ row' = [row EXCEPT ![p] = "CANCELED"]
    BY <2>1, Zenon
  <2>3. known \in SUBSET OrphanPositions
    BY <2>0 DEF Orphan!Book, RowTypes
  <2>4. o = 0 \/ o \in OrphanPositions
    <3>1. Orphan!OrderFor(p, known) \in SUBSET known
      BY <2>3, HealTypes
    <3> QED
      BY <2>1, <2>3, <3>1
  <2>5. exId' \in [OrphanPositions -> Orphan!Ids \cup {Orphan!NoId}]
    BY <2>2, <2>4, HealTypes DEF RowTypes
  <2>6. spared' \subseteq OrphanPositions
    <3>1. live \subseteq OrphanPositions /\ spared \subseteq OrphanPositions
      BY DEF RowTypes
    <3> HIDE DEF id
    <3> QED
      BY <2>2, <3>1 DEF Orphan!Survives
  <2>7. live' \subseteq OrphanPositions
        /\ row' \in [OrphanPositions -> {"none", "PENDING", "CANCELED"}]
    BY <2>2 DEF RowTypes
  <2> QED
    BY <2>5, <2>6, <2>7 DEF RowTypes
<1> QED
  BY <1>1, <1>2 DEF Orphan!CancelPending

\* Triggers, closes and what a close cancels.
LEMMA CloseTypes ==
  ASSUME OrphanTypes, NEW p \in OrphanPositions,
         Orphan!GuardTriggers(p) \/ Orphan!ClosePosition(p) \/ Orphan!CloseCancels(p)
  PROVE  OrphanTypes'
<1>1. RowTypes /\ UNCHANGED <<place, scan>>
  BY DEF OrphanTypes, Orphan!GuardTriggers, Orphan!ClosePosition, Orphan!CloseCancels
<1>2. ASSUME Orphan!GuardTriggers(p) \/ Orphan!ClosePosition(p) PROVE RowTypes'
  BY <1>1, <1>2 DEF RowTypes, Orphan!GuardTriggers, Orphan!ClosePosition
<1>3. ASSUME Orphan!CloseCancels(p) PROVE RowTypes'
  BY <1>1, <1>3, CancelTypes DEF RowTypes, Orphan!CloseCancels
<1>4. RowTypes'
  BY <1>2, <1>3
<1> QED
  BY <1>1, <1>4 DEF OrphanTypes

\* A placement that moves on to a state it may be in.
LEMMA PlaceTypes ==
  ASSUME OrphanTypes, NEW t \in Placers, NEW next \in Placings \cup {Orphan!IdlePlace},
         Orphan!PlaceGoto(t, next), RowTypes', UNCHANGED scan
  PROVE  OrphanTypes'
<1>1. next \in Orphan!PlaceStates
  BY OrphanMembers
<1>2. place' \in [Placers -> Orphan!PlaceStates]
  BY <1>1 DEF OrphanTypes, Orphan!PlaceGoto
<1> QED
  BY <1>2 DEF OrphanTypes

\* A placement in flight, whatever fields are replaced.
LEMMA PlacingFields ==
  ASSUME NEW q \in Placings,
         NEW at \in {"book", "rows", "match", "free", "send", "row"},
         NEW S \in SUBSET OrphanPositions, NEW V \in SUBSET OrphanPositions
  PROVE  /\ [q EXCEPT !.at = at] \in Placings
         /\ [q EXCEPT !.book = S, !.at = at] \in Placings
         /\ [q EXCEPT !.at = at, !.closed = S] \in Placings
         /\ [q EXCEPT !.at = at, !.rows = S, !.known = V] \in Placings
         /\ [q EXCEPT !.rows = S] \in Placings
         /\ [q EXCEPT !.rows = S, !.book = V] \in Placings
         /\ [q EXCEPT !.at = at, !.known = S] \in Placings
         /\ [q EXCEPT !.book = S, !.kept = V] \in Placings
         /\ [q EXCEPT !.at = at, !.closed = S, !.kept = V] \in Placings
         /\ q.pos \in OrphanPositions /\ q.book \in SUBSET OrphanPositions
         /\ q.rows \in SUBSET OrphanPositions /\ q.kept \in SUBSET OrphanPositions
BY DEF Placings

\* The pass for Lighter and the order it is for.
LEMMA PlacementTypes ==
  ASSUME OrphanTypes, NEW t \in Placers,
         \/ \E p \in OrphanPositions : Orphan!PlaceStart(t, p)
         \/ Orphan!FreeBook(t) \/ Orphan!FreeRows(t) \/ Orphan!FreeMatch(t)
         \/ Orphan!FreeCancel(t) \/ Orphan!PlaceSend(t) \/ Orphan!PlaceRow(t)
  PROVE  OrphanTypes'
<1> DEFINE here == place[t]
<1>1. RowTypes /\ UNCHANGED scan
  BY DEF OrphanTypes, Orphan!PlaceStart, Orphan!FreeBook, Orphan!FreeRows, Orphan!FreeMatch,
     Orphan!FreeCancel, Orphan!PlaceSend, Orphan!PlaceRow, Orphan!keptByPlace
<1>2. here.at # "idle" => here \in Placings
  BY PlaceKinds DEF OrphanTypes
<1>3. ASSUME NEW next \in Placings \cup {Orphan!IdlePlace}, Orphan!PlaceGoto(t, next), RowTypes'
      PROVE  OrphanTypes'
  BY <1>1, <1>3, PlaceTypes
<1>4. UNCHANGED <<status, live, gone, row, exId, closing, late, spared>> => RowTypes'
  BY <1>1 DEF RowTypes
<1>5. /\ {} \in SUBSET OrphanPositions /\ Orphan!Settled \in SUBSET OrphanPositions
      /\ \A accounts : Orphan!Book(accounts) \in SUBSET OrphanPositions
  BY <1>1 DEF RowTypes, Orphan!Settled, Orphan!Book
<1>6. ASSUME NEW p \in OrphanPositions, Orphan!PlaceStart(t, p) PROVE OrphanTypes'
  <2> DEFINE at == IF Orphan!AccountOf(p) \in LighterAccounts THEN "book" ELSE "send"
             next == [at |-> at, pos |-> p, book |-> {}, rows |-> {}, known |-> {},
                      closed |-> Orphan!Settled, kept |-> {}]
  <2>1. at \in {"book", "rows", "match", "free", "send", "row"}
    OBVIOUS
  <2>2. next \in Placings
    <3> HIDE DEF at
    <3> QED
      BY <1>5, <2>1 DEF Placings
  <2>3. Orphan!PlaceGoto(t, next)
    BY <1>6 DEF Orphan!PlaceStart
  <2>4. RowTypes'
    BY <1>1, <1>6 DEF RowTypes, Orphan!PlaceStart
  <2> HIDE DEF next
  <2> QED
    BY <1>3, <2>2, <2>3, <2>4
<1>7. CASE Orphan!FreeBook(t)
  <2> DEFINE found == Orphan!Book({Orphan!AccountOf(here.pos)})
             at == IF found = {} THEN "send" ELSE "rows"
  <2>1. here \in Placings
    BY <1>2, <1>7 DEF Orphan!FreeBook
  <2>2. \/ Orphan!PlaceGoto(t, [here EXCEPT !.book = found, !.at = at])
        \/ Orphan!PlaceGoto(t, [here EXCEPT !.at = "send", !.closed = {}])
    BY <1>7 DEF Orphan!FreeBook
  <2>3. RowTypes'
    BY <1>4, <1>7 DEF Orphan!FreeBook, Orphan!keptByPlace
  <2>4. found \in SUBSET OrphanPositions /\ at \in {"book", "rows", "match", "free", "send", "row"}
    BY <1>5
  <2> HIDE DEF here, found, at
  <2>5. /\ [here EXCEPT !.book = found, !.at = at] \in Placings
        /\ [here EXCEPT !.at = "send", !.closed = {}] \in Placings
    BY <1>5, <2>1, <2>4, PlacingFields
  <2> QED
    BY <1>3, <2>2, <2>3, <2>5
<1>8. CASE Orphan!FreeRows(t)
  <2>1. here \in Placings
    BY <1>2, <1>8 DEF Orphan!FreeRows
  <2> DEFINE rows == {q \in OrphanPositions :
                        /\ row[q] = "PENDING" /\ status[q] = "open"
                        /\ OrphanSideOf[q] = OrphanSideOf[here.pos]
                        /\ Orphan!AccountOf(q) = Orphan!AccountOf(here.pos)}
             known == {q \in OrphanPositions : row[q] = "PENDING"}
  <2>2. Orphan!PlaceGoto(t, [here EXCEPT !.at = "match", !.rows = rows, !.known = known])
    BY <1>8 DEF Orphan!FreeRows
  <2>3. RowTypes'
    BY <1>4, <1>8 DEF Orphan!FreeRows, Orphan!keptByPlace
  <2>4. rows \in SUBSET OrphanPositions /\ known \in SUBSET OrphanPositions
    OBVIOUS
  <2> HIDE DEF here, rows, known
  <2>5. [here EXCEPT !.at = "match", !.rows = rows, !.known = known] \in Placings
    BY <2>1, <2>4, PlacingFields
  <2> QED
    BY <1>3, <2>2, <2>3, <2>5
<1>9. CASE Orphan!FreeMatch(t)
  <2>1. here \in Placings /\ here.rows \in SUBSET OrphanPositions
        /\ here.book \in SUBSET OrphanPositions
    <3>1. here \in Placings
      BY <1>2, <1>9 DEF Orphan!FreeMatch
    <3> QED
      BY <3>1 DEF Placings
  <2>2. UNCHANGED <<status, live, gone, row, closing, late, spared>>
    BY <1>9 DEF Orphan!FreeMatch, Orphan!keptByPlace
  <2>3. \/ Orphan!PlaceGoto(t, [here EXCEPT !.at = "free"]) /\ UNCHANGED exId
        \/ \E r \in here.rows :
             \/ Orphan!PlaceGoto(t, [here EXCEPT !.rows = @ \ {r}]) /\ UNCHANGED exId
             \/ \E o \in Orphan!OrderFor(r, here.book) :
                  /\ Orphan!PlaceGoto(t, [[here EXCEPT !.rows = @ \ {r}] EXCEPT !.book = @ \ {o}])
                  /\ exId' = Orphan!Healed(r, o)
    BY <1>9, Zenon DEF Orphan!FreeMatch
  <2>4. CASE UNCHANGED exId
    <3>1. RowTypes'
      BY <1>4, <2>2, <2>4
    <3>2. \E next \in Placings : Orphan!PlaceGoto(t, next)
      <4>1. [here EXCEPT !.at = "free"] \in Placings
        BY <2>1, <1>5, PlacingFields
      <4>2. \A r \in here.rows : [here EXCEPT !.rows = @ \ {r}] \in Placings
        <5> TAKE r \in here.rows
        <5>1. here.rows \ {r} \in SUBSET OrphanPositions
          BY <2>1
        <5> HIDE DEF here
        <5> QED
          BY <2>1, <5>1, PlacingFields
      <4>3. \A r \in here.rows : \A o :
              [[here EXCEPT !.rows = @ \ {r}] EXCEPT !.book = @ \ {o}] \in Placings
        <5> TAKE r \in here.rows
        <5> TAKE o
        <5> DEFINE rest == [here EXCEPT !.rows = @ \ {r}]
        <5>1. rest \in Placings
          BY <4>2
        <5> HIDE DEF rest
        <5>2. rest.book \ {o} \in SUBSET OrphanPositions
          BY <5>1 DEF Placings
        <5>3. [rest EXCEPT !.book = @ \ {o}] \in Placings
          BY <5>1, <5>2 DEF Placings
        <5> QED
          BY <5>3 DEF rest
      <4> HIDE DEF here
      <4> QED
        BY <2>3, <4>1, <4>2, <4>3
    <3> QED
      BY <1>3, <3>1, <3>2
  <2>5. ASSUME NEW r \in here.rows, NEW o \in Orphan!OrderFor(r, here.book),
               Orphan!PlaceGoto(t, [[here EXCEPT !.rows = @ \ {r}] EXCEPT !.book = @ \ {o}]),
               exId' = Orphan!Healed(r, o)
        PROVE  OrphanTypes'
    <3>1. r \in OrphanPositions /\ o \in OrphanPositions
      BY <1>1, <2>1, HealTypes
    <3>2. RowTypes'
      <4>1. exId' \in [OrphanPositions -> Orphan!Ids \cup {Orphan!NoId}]
        BY <1>1, <2>5, <3>1, HealTypes
      <4> QED
        BY <1>1, <2>2, <4>1 DEF RowTypes
    <3>3. here.rows \ {r} \in SUBSET OrphanPositions
      BY <2>1
    <3> DEFINE rest == [here EXCEPT !.rows = @ \ {r}]
    <3>4. rest \in Placings
      <4> HIDE DEF here
      <4> QED
        BY <2>1, <3>3, PlacingFields
    <3> HIDE DEF rest
    <3>5. [rest EXCEPT !.book = @ \ {o}] \in Placings
      <4>1. rest.book \ {o} \in SUBSET OrphanPositions
        BY <3>4 DEF Placings
      <4> QED
        BY <3>4, <4>1 DEF Placings
    <3> QED
      BY <1>3, <2>5, <3>2, <3>5 DEF rest
  <2> QED
    BY <2>3, <2>4, <2>5
<1>10. CASE Orphan!FreeCancel(t)
  <2>1. here \in Placings /\ here.book \in SUBSET OrphanPositions
        /\ here.kept \in SUBSET OrphanPositions
    <3>1. here \in Placings
      BY <1>2, <1>10 DEF Orphan!FreeCancel
    <3> QED
      BY <3>1 DEF Placings
  <2>2. UNCHANGED <<status, gone, row, exId, closing, spared>>
    BY <1>10 DEF Orphan!FreeCancel, Orphan!keptByPlace
  <2>3. \/ /\ Orphan!PlaceGoto(t, [here EXCEPT !.at = "send", !.known = {}])
           /\ UNCHANGED <<live, late>>
        \/ \E o \in here.book :
             /\ live' \subseteq live /\ late' \subseteq late \cup {o}
             /\ Orphan!PlaceGoto(t, [here EXCEPT !.book = @ \ {o}, !.kept = @ \cup (live' \cap {o})])
    BY <1>10 DEF Orphan!FreeCancel
  <2>4. CASE /\ Orphan!PlaceGoto(t, [here EXCEPT !.at = "send", !.known = {}])
             /\ UNCHANGED <<live, late>>
    <3>1. [here EXCEPT !.at = "send", !.known = {}] \in Placings
      <4> HIDE DEF here
      <4> QED
        BY <1>5, <2>1, PlacingFields
    <3> HIDE DEF here
    <3> QED
      BY <1>3, <1>4, <2>2, <2>4, <3>1
  <2>5. ASSUME NEW o \in here.book, live' \subseteq live, late' \subseteq late \cup {o},
               Orphan!PlaceGoto(t, [here EXCEPT !.book = @ \ {o}, !.kept = @ \cup (live' \cap {o})])
        PROVE  OrphanTypes'
    <3>1. RowTypes' /\ live' \subseteq OrphanPositions
      BY <1>1, <2>1, <2>2, <2>5 DEF RowTypes
    <3>2. here.book \ {o} \in SUBSET OrphanPositions
          /\ here.kept \cup (live' \cap {o}) \in SUBSET OrphanPositions
      BY <2>1, <3>1
    <3> HIDE DEF here
    <3>3. [here EXCEPT !.book = @ \ {o}, !.kept = @ \cup (live' \cap {o})] \in Placings
      BY <2>1, <3>2, PlacingFields
    <3> QED
      BY <1>3, <2>5, <3>1, <3>3
  <2> QED
    BY <2>3, <2>4, <2>5
<1>11. CASE Orphan!PlaceSend(t)
  <2>1. here \in Placings /\ here.pos \in OrphanPositions
    <3>1. here \in Placings
      BY <1>2, <1>11 DEF Orphan!PlaceSend
    <3> QED
      BY <3>1 DEF Placings
  <2>2. RowTypes'
    BY <1>1, <1>11, <2>1 DEF RowTypes, Orphan!PlaceSend, Orphan!keptByPlace
  <2>3. \/ Orphan!PlaceGoto(t, Orphan!IdlePlace)
        \/ Orphan!PlaceGoto(t, [here EXCEPT !.at = "row", !.closed = {}, !.kept = {}])
    BY <1>11 DEF Orphan!PlaceSend
  <2> HIDE DEF here
  <2>4. [here EXCEPT !.at = "row", !.closed = {}, !.kept = {}] \in Placings
    BY <1>5, <2>1, PlacingFields
  <2> QED
    BY <1>3, <2>2, <2>3, <2>4
<1>12. CASE Orphan!PlaceRow(t)
  <2>1. here.pos \in OrphanPositions
    <3>1. here \in Placings
      BY <1>2, <1>12 DEF Orphan!PlaceRow
    <3> QED
      BY <3>1 DEF Placings
  <2>2. exId' \in [OrphanPositions -> Orphan!Ids \cup {Orphan!NoId}]
    <3>1. PICK id \in {Orphan!Index(here.pos), Orphan!Client(here.pos)} :
             exId' = [exId EXCEPT ![here.pos] = id]
      BY <1>12 DEF Orphan!PlaceRow
    <3>2. id \in Orphan!Ids
      BY <1>1, <2>1, <3>1, HealTypes
    <3> QED
      BY <1>1, <3>1, <3>2 DEF RowTypes
  <2>3. RowTypes'
    BY <1>1, <1>12, <2>2 DEF RowTypes, Orphan!PlaceRow, Orphan!keptByPlace
  <2>4. Orphan!PlaceGoto(t, Orphan!IdlePlace)
    BY <1>12 DEF Orphan!PlaceRow
  <2> QED
    BY <1>3, <2>3, <2>4
<1> QED
  BY <1>6, <1>7, <1>8, <1>9, <1>10, <1>11, <1>12

\* A scan in flight, with some of its fields replaced.
LEMMA ScanAts ==
  ASSUME NEW q \in FindingScans, NEW at \in {"rows", "book", "match", "clean", "done"},
         NEW S \in SUBSET OrphanPositions
  PROVE  /\ [q EXCEPT !.at = at] \in FindingScans
         /\ [q EXCEPT !.at = at, !.known = S] \in FindingScans
         /\ [q EXCEPT !.at = at, !.book = S] \in FindingScans
BY DEF FindingScans, Scans

\* A scan in the middle of matching a book.
LEMMA ScanPools ==
  ASSUME NEW q \in FindingScans, NEW S \in SUBSET OrphanPositions,
         NEW H \in SUBSET (OrphanPositions \X OrphanPositions)
  PROVE  /\ [q EXCEPT !.book = S] \in FindingScans
         /\ [q EXCEPT !.pool = S] \in FindingScans
         /\ [q EXCEPT !.pool = S, !.heal = H] \in FindingScans
BY DEF FindingScans, Scans

\* A scan that reports, cleans up or turns to its next group.
LEMMA ScanFinds ==
  ASSUME NEW q \in FindingScans, NEW X \in SUBSET Findings, NEW S \in SUBSET OrphanPositions
  PROVE  /\ [q EXCEPT !.orphans = X] \in FindingScans
         /\ [q EXCEPT !.orphans = X, !.kept = S] \in FindingScans
         /\ [q EXCEPT !.at = "rows", !.group = 0, !.rows = {}, !.pool = {}, !.heal = {},
                      !.orphans = X] \in FindingScans
<1>1. X \in SUBSET Orphan!Orphans
  BY DEF Findings, Orphan!Orphans
<1> QED
  BY <1>1 DEF FindingScans, Scans

\* A scan that read the rows of a group.
LEMMA ScanGroup ==
  ASSUME NEW q \in FindingScans, NEW s \in OrphanStrategies, NEW G \in SUBSET OrphanStrategies,
         NEW S \in SUBSET OrphanPositions, NEW V \in SUBSET OrphanPositions,
         NEW W \in SUBSET OrphanPositions
  PROVE  [q EXCEPT !.at = "book", !.groups = G, !.group = s, !.rows = S, !.pool = V,
                   !.known = W] \in FindingScans
BY DEF FindingScans, Scans

\* What a scan in flight consists of.
LEMMA ScanParts ==
  ASSUME NEW q \in FindingScans
  PROVE  /\ q.groups \in SUBSET OrphanStrategies
         /\ q.rows \in SUBSET OrphanPositions /\ q.pool \in SUBSET OrphanPositions
         /\ q.book \in SUBSET OrphanPositions /\ q.orphans \in SUBSET Findings
         /\ q.heal \in SUBSET (OrphanPositions \X OrphanPositions)
         /\ q.known \in SUBSET OrphanPositions /\ q.kept \in SUBSET OrphanPositions
BY DEF FindingScans, Scans

\* A scan that is not idle is one in flight.
LEMMA FindingKinds ==
  ASSUME OrphanTypes, scan.at # "idle" PROVE scan \in FindingScans
BY DEF OrphanTypes, Orphan!IdleScan

\* A finding names positions, or no row.
LEMMA FindingParts ==
  ASSUME NEW x \in Findings
  PROVE  /\ x.order \in OrphanPositions /\ x.row \in OrphanPositions \cup {0}
         /\ x.kind = "db" => x.row \in OrphanPositions
BY DEF Findings

\* The next state of a scan alone.
LEMMA ScanMoves ==
  ASSUME OrphanTypes, UNCHANGED <<status, live, gone, row, place, closing, late, spared>>,
         exId' \in [OrphanPositions -> Orphan!Ids \cup {Orphan!NoId}],
         scan' \in FindingScans \cup {Orphan!IdleScan}
  PROVE  OrphanTypes'
<1>2. RowTypes'
  BY DEF OrphanTypes, RowTypes
<1> QED
  BY <1>2 DEF OrphanTypes

\* The scan, up to its report.
LEMMA ScanTypes ==
  ASSUME OrphanTypes,
         Orphan!ScanStart \/ Orphan!ScanRows \/ Orphan!ScanBook \/ Orphan!ScanMatch
         \/ Orphan!ScanEnds \/ Orphan!CleanEnds
  PROVE  OrphanTypes'
<1>1. /\ UNCHANGED <<status, live, gone, row, exId, place, closing, late, spared>>
      /\ exId' \in [OrphanPositions -> Orphan!Ids \cup {Orphan!NoId}]
  BY DEF Orphan!ScanStart, Orphan!ScanRows, Orphan!ScanBook, Orphan!ScanMatch,
     Orphan!ScanEnds, Orphan!CleanEnds, Orphan!keptByScan, OrphanTypes, RowTypes
<1>2. scan.at # "idle" => scan \in FindingScans
  BY FindingKinds
<1>3. RowTypes /\ live \in SUBSET OrphanPositions
  BY DEF OrphanTypes, RowTypes
<1>4. CASE Orphan!ScanStart
  <2>1. PICK scope \in {Orphan!ScanPool} \cup {{s} : s \in OrphanStrategies} :
          scan' = [at |-> "rows", groups |-> Orphan!ScanGroups(scope), group |-> 0,
                   rows |-> {}, pool |-> {}, book |-> {}, heal |-> {},
                   orphans |-> {}, known |-> OrphanPositions, kept |-> {},
                   closed |-> {p \in Orphan!Settled : \E s \in scope :
                                 Orphan!AccountOf(p) \in Orphan!Accounts(s)}]
    BY <1>4 DEF Orphan!ScanStart
  <2>2. Orphan!ScanGroups(scope) \in SUBSET OrphanStrategies
    BY OrphanAssumption DEF Orphan!ScanGroups, Orphan!ScanPool
  <2>3. {p \in Orphan!Settled : \E s \in scope : Orphan!AccountOf(p) \in Orphan!Accounts(s)}
           \in SUBSET OrphanPositions
    BY DEF Orphan!Settled
  <2>4. scan' \in FindingScans
    BY <2>1, <2>2, <2>3 DEF FindingScans, Scans
  <2> QED
    BY <1>1, <2>4, ScanMoves
<1>5. CASE Orphan!ScanRows
  <2>1. scan \in FindingScans
    BY <1>2, <1>5 DEF Orphan!ScanRows
  <2>2. PICK s \in scan.groups :
          LET rows == {p \in OrphanPositions : row[p] = "PENDING"
                          /\ Orphan!SharesAccounts(s, OrphanStrategyOf[p])}
          IN scan' = [scan EXCEPT !.at = "book", !.groups = @ \ {s}, !.group = s,
                        !.rows = {p \in rows : status[p] # "open"},
                        !.pool = {p \in rows : status[p] = "open"},
                        !.known = @ \cap {p \in OrphanPositions : row[p] = "PENDING"}]
    BY <1>5 DEF Orphan!ScanRows
  <2> DEFINE rows == {p \in OrphanPositions : row[p] = "PENDING"
                          /\ Orphan!SharesAccounts(s, OrphanStrategyOf[p])}
             shut == {p \in rows : status[p] # "open"}
             opens == {p \in rows : status[p] = "open"}
             known == scan.known \cap {p \in OrphanPositions : row[p] = "PENDING"}
  <2>3. /\ shut \in SUBSET OrphanPositions /\ opens \in SUBSET OrphanPositions
        /\ known \in SUBSET OrphanPositions
        /\ scan.groups \ {s} \in SUBSET OrphanStrategies
        /\ s \in OrphanStrategies
    BY <2>1, ScanParts
  <2>4. scan' = [scan EXCEPT !.at = "book", !.groups = scan.groups \ {s}, !.group = s,
                    !.rows = shut, !.pool = opens, !.known = known]
    BY <2>2
  <2> HIDE DEF shut, opens, known
  <2>5. scan' \in FindingScans
    BY <2>1, <2>3, <2>4, ScanGroup
  <2> QED
    BY <1>1, <2>5, ScanMoves
<1>6. CASE Orphan!ScanBook
  <2>1. scan \in FindingScans
    BY <1>2, <1>6 DEF Orphan!ScanBook
  <2>2. Orphan!Book(Orphan!Accounts(scan.group)) \in SUBSET OrphanPositions
    BY <1>3 DEF Orphan!Book
  <2> DEFINE found == Orphan!Book(Orphan!Accounts(scan.group))
  <2>4. scan' = [scan EXCEPT !.at = "match", !.book = found] \/ scan' = Orphan!IdleScan
    BY <1>6 DEF Orphan!ScanBook
  <2> HIDE DEF found
  <2>5. [scan EXCEPT !.at = "match", !.book = found] \in FindingScans
    BY <2>1, <2>2, ScanAts DEF found
  <2>3. scan' \in FindingScans \cup {Orphan!IdleScan}
    BY <2>4, <2>5
  <2> QED
    BY <1>1, <2>3, ScanMoves
<1>7. CASE Orphan!ScanMatch
  <2>1. scan \in FindingScans
    BY <1>2, <1>7 DEF Orphan!ScanMatch
  <2>2. PICK o \in scan.book :
       LET byId == {r \in scan.pool : Orphan!SameId(exId[r], o)}
           alike == {r \in scan.pool : Orphan!Alike(r, o)}
           rest == [scan EXCEPT !.book = @ \ {o}]
           history == {r \in OrphanPositions : row[r] # "none" /\ Orphan!SameId(exId[r], o)}
       IN CASE byId # {} ->
                 \E r \in byId : scan' = [rest EXCEPT !.pool = @ \ {r}]
            [] byId = {} /\ alike # {} ->
                 \E r \in alike : scan' = [rest EXCEPT !.pool = @ \ {r},
                                             !.heal = @ \cup {<<r, o>>}]
            [] OTHER ->
                 \E r \in IF history = {} THEN {0} ELSE history :
                    scan' = [rest EXCEPT !.orphans = @ \cup
                               {[kind |-> "exchange", order |-> o, row |-> r]}]
    BY <1>7 DEF Orphan!ScanMatch
  <2> DEFINE rest == [scan EXCEPT !.book = scan.book \ {o}]
  <2>3. \/ \E r \in scan.pool : scan' = [rest EXCEPT !.pool = @ \ {r}]
        \/ \E r \in scan.pool : scan' = [rest EXCEPT !.pool = @ \ {r},
                                            !.heal = @ \cup {<<r, o>>}]
        \/ \E r \in OrphanPositions \cup {0} :
              scan' = [rest EXCEPT !.orphans = @ \cup
                         {[kind |-> "exchange", order |-> o, row |-> r]}]
    BY <2>2
  <2>4. rest \in FindingScans /\ o \in OrphanPositions
    <3>1. scan.book \ {o} \in SUBSET OrphanPositions
      BY <2>1, ScanParts
    <3> QED
      BY <2>1, <3>1, ScanParts, ScanPools
  <2>5. scan.pool \in SUBSET OrphanPositions
    BY <2>1, ScanParts
  <2> HIDE DEF rest
  <2>6. ASSUME NEW r \in scan.pool
        PROVE  /\ [rest EXCEPT !.pool = @ \ {r}] \in FindingScans
               /\ [rest EXCEPT !.pool = @ \ {r}, !.heal = @ \cup {<<r, o>>}] \in FindingScans
    <3>1. rest.pool \ {r} \in SUBSET OrphanPositions
          /\ rest.heal \cup {<<r, o>>} \in SUBSET (OrphanPositions \X OrphanPositions)
      BY <2>4, <2>5, ScanParts
    <3> QED
      BY <2>4, <3>1, ScanPools
  <2>7. ASSUME NEW r \in OrphanPositions \cup {0}
        PROVE  [rest EXCEPT !.orphans = @ \cup
                   {[kind |-> "exchange", order |-> o, row |-> r]}] \in FindingScans
    <3>1. [kind |-> "exchange", order |-> o, row |-> r] \in Findings
      BY <2>4 DEF Findings
    <3>2. rest.orphans \cup {[kind |-> "exchange", order |-> o, row |-> r]}
             \in SUBSET Findings
      BY <2>4, <3>1, ScanParts
    <3> QED
      BY <2>4, <3>2, ScanFinds
  <2>8. scan' \in FindingScans
    BY <2>3, <2>6, <2>7, Zenon
  <2> QED
    BY <1>1, <2>8, ScanMoves
<1>8. CASE Orphan!ScanEnds \/ Orphan!CleanEnds
  <2>1. scan \in FindingScans
    BY <1>2, <1>8 DEF Orphan!ScanEnds, Orphan!CleanEnds
  <2>2. scan' \in FindingScans
    <3>1. scan' = [scan EXCEPT !.at = "clean"] \/ scan' = [scan EXCEPT !.at = "done", !.known = {}]
      BY <1>8 DEF Orphan!ScanEnds, Orphan!CleanEnds
    <3>2. {} \in SUBSET OrphanPositions
      OBVIOUS
    <3> QED
      BY <2>1, <3>1, <3>2, ScanAts
  <2> QED
    BY <1>1, <2>2, ScanMoves
<1> QED
  BY <1>4, <1>5, <1>6, <1>7, <1>8

\* The ids that are healed are those of orders.
LEMMA ScanGroupTypes == ASSUME OrphanTypes, Orphan!ScanGroupEnds PROVE OrphanTypes'
<1>1. scan \in FindingScans
  BY FindingKinds DEF OrphanTypes, Orphan!ScanGroupEnds
<1>2. RowTypes
  BY DEF OrphanTypes
<1>3. exId' \in [OrphanPositions -> Orphan!Ids \cup {Orphan!NoId}]
  <2>1. ASSUME NEW r \in OrphanPositions
        PROVE  exId'[r] \in Orphan!Ids \cup {Orphan!NoId}
    <3> DEFINE o == CHOOSE o \in OrphanPositions : <<r, o>> \in scan.heal
    <3>1. CASE \E x \in OrphanPositions : <<r, x>> \in scan.heal
      <4>1. o \in OrphanPositions
        BY <3>1
      <4>2. exId'[r] = Orphan!Index(o)
        BY <3>1 DEF Orphan!ScanGroupEnds
      <4> HIDE DEF o
      <4> QED
        BY <1>2, <4>1, <4>2, HealTypes
    <3>2. CASE ~\E x \in OrphanPositions : <<r, x>> \in scan.heal
      <4>1. exId'[r] = exId[r]
        BY <3>2 DEF Orphan!ScanGroupEnds
      <4> QED
        BY <1>2, <4>1 DEF RowTypes
    <3> QED
      BY <3>1, <3>2
  <2>2. exId' = [r \in OrphanPositions |-> exId'[r]]
    BY DEF Orphan!ScanGroupEnds
  <2> QED
    BY <2>1, <2>2
<1>4. scan' \in FindingScans
  <2> DEFINE out == {[kind |-> "db", order |-> p, row |-> p] : p \in scan.rows}
             found == scan.orphans \cup out
  <2>1. found \in SUBSET Findings
    BY <1>1, ScanParts DEF Findings
  <2>2. scan' = [scan EXCEPT !.at = "rows", !.group = 0, !.rows = {}, !.pool = {},
                   !.heal = {}, !.orphans = found]
    BY DEF Orphan!ScanGroupEnds
  <2> HIDE DEF found
  <2> QED
    BY <1>1, <2>1, <2>2, ScanFinds
<1>5. UNCHANGED <<status, live, gone, row, place, closing, late, spared>>
  BY DEF Orphan!ScanGroupEnds, Orphan!keptByScan
<1> QED
  BY <1>3, <1>4, <1>5, ScanMoves

\* The clean-up of one orphan.
LEMMA CleanTypes ==
  ASSUME OrphanTypes, NEW x \in scan.orphans, Orphan!CleanExchange(x) \/ Orphan!CleanDb(x)
  PROVE  OrphanTypes'
<1>1. scan \in FindingScans /\ RowTypes
  BY FindingKinds DEF OrphanTypes, Orphan!CleanExchange, Orphan!CleanDb
<1>2. x \in Findings
  BY <1>1, ScanParts
<1>3. x.order \in OrphanPositions /\ x.row \in OrphanPositions \cup {0}
  BY <1>2, FindingParts
<1>4. UNCHANGED <<status, gone, place, closing>>
  BY DEF Orphan!CleanExchange, Orphan!CleanDb, Orphan!keptByScan
<1>5. ASSUME RowTypes', NEW y,
             scan' = [scan EXCEPT !.orphans = @ \ {x}, !.kept = @ \cup (live' \cap {y})]
      PROVE  OrphanTypes'
  <2>1. /\ scan.orphans \ {x} \in SUBSET Findings
        /\ scan.kept \cup (live' \cap {y}) \in SUBSET OrphanPositions
    BY <1>1, <1>5, ScanParts DEF RowTypes
  <2>2. scan' \in FindingScans
    BY <1>1, <1>5, <2>1, ScanFinds
  <2> QED
    BY <1>4, <1>5, <2>2 DEF OrphanTypes
<1>6. CASE Orphan!CleanExchange(x)
  <2>1. /\ live' \subseteq live /\ late' \subseteq late \cup {x.order}
        /\ \/ row' = row
           \/ row' = [row EXCEPT ![x.row] = IF @ = "PENDING" THEN "CANCELED" ELSE @]
        /\ UNCHANGED <<exId, spared>>
    BY <1>6 DEF Orphan!CleanExchange
  <2>2. row' \in [OrphanPositions -> {"none", "PENDING", "CANCELED"}]
    <3>1. row \in [OrphanPositions -> {"none", "PENDING", "CANCELED"}]
      BY <1>1 DEF RowTypes
    <3> QED
      BY <2>1, <3>1
  <2>3. RowTypes'
    BY <1>1, <1>3, <1>4, <2>1, <2>2 DEF RowTypes
  <2> QED
    BY <1>5, <1>6, <2>3 DEF Orphan!CleanExchange
<1>7. CASE Orphan!CleanDb(x)
  <2>1. Orphan!CancelPending(x.row) /\ UNCHANGED late
    BY <1>7 DEF Orphan!CleanDb
  <2>2. x.row \in OrphanPositions
    BY <1>2, <1>7, FindingParts DEF Orphan!CleanDb
  <2>3. RowTypes'
    BY <1>1, <1>4, <2>1, <2>2, CancelTypes DEF RowTypes
  <2> QED
    BY <1>5, <1>7, <2>3 DEF Orphan!CleanDb
<1> QED
  BY <1>6, <1>7

\* At first nothing is in flight.
LEMMA OrphanTypesStart == Orphan!OrphanInit => OrphanTypes
<1> SUFFICES ASSUME Orphan!OrphanInit PROVE OrphanTypes
  OBVIOUS
<1> USE DEF Orphan!OrphanInit
<1>1. DOMAIN Left \subseteq OrphanPositions /\ OrphanGuarded \subseteq OrphanPositions
      /\ \A p \in DOMAIN Left : Left[p] \in {"PENDING", "CANCELED"}
  BY OrphanAssumption
<1>2. /\ status \in [OrphanPositions -> {"none", "open", "closed"}]
      /\ row \in [OrphanPositions -> {"none", "PENDING", "CANCELED"}]
  BY <1>1
<1>3. exId \in [OrphanPositions -> Orphan!Ids \cup {Orphan!NoId}]
  BY IdsDiffer
<1>4. place \in [Placers -> Orphan!PlaceStates]
  BY OrphanMembers
<1> QED
  BY <1>1, <1>2, <1>3, <1>4 DEF OrphanTypes, RowTypes

\* No step of a placement, a close, a scan or a clean-up leaves the types.
LEMMA OrphanTypesStep ==
  ASSUME OrphanTypes, [Orphan!OrphanNext]_(Orphan!orphanVars)
  PROVE  OrphanTypes'
<1>1. ASSUME NEW p \in OrphanPositions, Orphan!GuardTriggers(p)
                 \/ Orphan!ClosePosition(p) \/ Orphan!CloseCancels(p)
      PROVE  OrphanTypes'
  BY <1>1, CloseTypes
<1>2. ASSUME NEW t \in Placers,
             \/ \E p \in OrphanPositions : Orphan!PlaceStart(t, p)
             \/ Orphan!FreeBook(t) \/ Orphan!FreeRows(t) \/ Orphan!FreeMatch(t)
             \/ Orphan!FreeCancel(t) \/ Orphan!PlaceSend(t) \/ Orphan!PlaceRow(t)
      PROVE  OrphanTypes'
  BY <1>2, PlacementTypes
<1>3. CASE Orphan!ScanStart \/ Orphan!ScanRows \/ Orphan!ScanBook \/ Orphan!ScanMatch
           \/ Orphan!ScanEnds \/ Orphan!CleanEnds
  BY <1>3, ScanTypes
<1>4. CASE Orphan!ScanGroupEnds
  BY <1>4, ScanGroupTypes
<1>5. ASSUME NEW x \in scan.orphans, Orphan!CleanExchange(x) \/ Orphan!CleanDb(x)
      PROVE  OrphanTypes'
  BY <1>5, CleanTypes
<1>6. CASE UNCHANGED Orphan!orphanVars
  BY <1>6 DEF OrphanTypes, RowTypes, Orphan!orphanVars
<1> QED
  BY <1>1, <1>2, <1>3, <1>4, <1>5, <1>6 DEF Orphan!OrphanNext

\* The types of OrphanOrders.
LEMMA HousekeepingTypes == ServicesSpec => []Orphan!OrphanTypeOK
<1>1. OrphanTypes => Orphan!OrphanTypeOK
  BY OrphanMembers DEF OrphanTypes, RowTypes, FindingScans, Orphan!OrphanTypeOK
<1>2. Orphan!OrphanSpec => []OrphanTypes
  BY OrphanTypesStart, OrphanTypesStep, PTL DEF Orphan!OrphanSpec
<1> QED
  BY <1>1, <1>2, OrphansRun, PTL

\* Whichever service moves, and for any positions, accounts, symbols, rounds and
\* requests: its records in flight are complete, and the counts of rounds, signers
\* and contracts stay in their ranges.
THEOREM ServicesKeepTypes == ServicesSpec => []ServicesTypeOK
<1>1. ServicesInit => part \in Services
  BY DEF ServicesInit
<1>2. part \in Services /\ [ServicesNext]_servicesVars => (part \in Services)'
  BY DEF ServicesNext, servicesVars
<1>3. ServicesSpec => [](part \in Services)
  BY <1>1, <1>2, PTL DEF ServicesSpec
<1>4. part \in Services /\ CacheTypeOK /\ Orphan!OrphanTypeOK /\ Market!MarketTypeOK
      /\ Sync!SyncTypeOK /\ Legs!LighterTypeOK /\ Books!BinanceTypeOK
      /\ Batches!PositionTypeOK => ServicesTypeOK
  BY Zenon DEF Services, ServicesTypeOK
<1> QED
  BY <1>3, <1>4, AdapterTypes, HousekeepingTypes, PriceTypes, RoundTypes, BatchTypes, PTL

==============================================================================
