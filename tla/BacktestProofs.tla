---------------------------- MODULE BacktestProofs ----------------------------
(***************************************************************************)
(* What holds of a replay of any candles, with any parameters: the limit   *)
(* of cycles, that every leg opened is closed exactly once and at its      *)
(* first touch, that costs only take away, and that the books are true.    *)
(* Before the books come the page that shows backtests and what they are   *)
(* computed from; the types of all three are the last.                     *)
(***************************************************************************)
EXTENDS Backtests, FiniteSetTheorems, TLAPS

LimitInv == IsFiniteSet(open) /\ CycleLimit

\* The cycle numbers of finitely many legs are finitely many.
LEMMA OpenCyclesFinite ==
    ASSUME NEW S, IsFiniteSet(S)
    PROVE  IsFiniteSet({p.cycle : p \in S})
<1> DEFINE T == {p.cycle : p \in S}
           f == [p \in S |-> p.cycle]
<1>1. f \in Surjection(S, T) BY DEF Surjection
<1> HIDE DEF T, f
<1>2. IsFiniteSet(T) BY <1>1, FS_Surjection
<1> QED BY <1>2 DEF T

\* run opens a cycle only while fewer than maxPositions have a leg open, and it
\* opens both legs under one cycle number: whatever the candles, the exits and
\* the parameters, the limit holds throughout the replay.
THEOREM CyclesStayLimited == Spec => []CycleLimit
<1>1. Init => LimitInv
  <2> SUFFICES ASSUME Init PROVE LimitInv OBVIOUS
  <2>1. open = {} /\ OpenCycles = {} BY DEF Init, OpenCycles
  <2> QED BY <2>1, FS_EmptySet, LimitAssumption DEF LimitInv, CycleLimit
<1>2. LimitInv /\ [Next]_vars => LimitInv'
  <2> SUFFICES ASSUME LimitInv, [Next]_vars PROVE LimitInv' OBVIOUS
  <2> USE DEF LimitInv, CycleLimit
  <2>0. IsFiniteSet(OpenCycles) BY OpenCyclesFinite DEF OpenCycles
  <2>fewer. ASSUME open' \subseteq open PROVE LimitInv'
    <3>1. IsFiniteSet(open') BY <2>fewer, FS_Subset
    <3>2. OpenCycles' \subseteq OpenCycles BY <2>fewer DEF OpenCycles
    <3>3. Cardinality(OpenCycles') <= Cardinality(OpenCycles)
      BY <2>0, <3>2, FS_Subset
    <3>4. Cardinality(OpenCycles) \in Nat /\ Cardinality(OpenCycles') \in Nat
      BY <2>0, <3>2, FS_Subset, FS_CardinalityType
    <3> QED BY <3>1, <3>3, <3>4, LimitAssumption
  <2>1. CASE Exits BY <2>1, <2>fewer DEF Exits
  <2>2. CASE CloseRest BY <2>2, <2>fewer DEF CloseRest
  <2>3. CASE OpenCycle
    <3> DEFINE new == {NewLeg(side) : side \in Sides}
    <3>1. open' \subseteq open \cup new BY <2>3 DEF OpenCycle
    <3>2. IsFiniteSet(open \cup {NewLeg("LONG")}) BY FS_AddElement
    <3>3. IsFiniteSet((open \cup {NewLeg("LONG")}) \cup {NewLeg("SHORT")})
      BY <3>2, FS_AddElement
    <3>4. IsFiniteSet(open \cup new)
      <4>1. open \cup new = (open \cup {NewLeg("LONG")}) \cup {NewLeg("SHORT")}
        BY DEF Sides
      <4> QED BY <3>3, <4>1
    <3>5. IsFiniteSet(open') BY <3>1, <3>4, FS_Subset
    <3>6. OpenCycles' \subseteq OpenCycles \cup {Now}
      BY <3>1 DEF OpenCycles, NewLeg
    <3>7. /\ IsFiniteSet(OpenCycles \cup {Now})
          /\ Cardinality(OpenCycles \cup {Now}) <= Cardinality(OpenCycles) + 1
      <4>1. Cardinality(OpenCycles) \in Nat BY <2>0, FS_CardinalityType
      <4>2. /\ IsFiniteSet(OpenCycles \cup {Now})
            /\ \/ Cardinality(OpenCycles \cup {Now}) = Cardinality(OpenCycles)
               \/ Cardinality(OpenCycles \cup {Now}) = Cardinality(OpenCycles) + 1
        BY <2>0, FS_AddElement
      <4> QED BY <4>1, <4>2
    <3>8. Cardinality(OpenCycles') <= Cardinality(OpenCycles \cup {Now})
      BY <3>6, <3>7, FS_Subset
    <3>9. /\ Cardinality(OpenCycles) \in Nat /\ Cardinality(OpenCycles') \in Nat
          /\ Cardinality(OpenCycles \cup {Now}) \in Nat
      BY <2>0, <3>5, <3>7, OpenCyclesFinite, FS_CardinalityType DEF OpenCycles
    <3>10. Cardinality(OpenCycles) < MaxPositions BY <2>3 DEF OpenCycle, Room
    <3> QED BY <3>5, <3>7, <3>8, <3>9, <3>10, LimitAssumption
  <2>4. CASE \E b \in Candles : ReadBar(b) BY <2>4, <2>fewer DEF ReadBar
  <2>5. CASE SkipCycle \/ Sample \/ NoBars \/ Finish
    BY <2>5, <2>fewer DEF SkipCycle, Sample, NoBars, Finish
  <2>6. CASE UNCHANGED vars BY <2>6, <2>fewer DEF vars
  <2> QED BY <2>1, <2>2, <2>3, <2>4, <2>5, <2>6 DEF Next
<1> QED BY <1>1, <1>2, PTL DEF Spec, LimitInv

----------------------------------------------------------------------------
(***************************************************************************)
(* Every leg has its own key because a cycle is opened once per bar: until *)
(* the decision about the bar's cycle no leg belongs to it.                *)
(***************************************************************************)
Decided == IF pc \in {"exits", "cycle"} THEN Now - 1 ELSE Now

AccountInv ==
    /\ bars \in Seq(Candles)
    /\ pc \in {"exits", "cycle"} => Now > 0
    /\ \A p \in open \cup Traded(trades) :
          p.cycle \in Nat \ {0} /\ p.cycle <= Decided /\ p.side \in Sides
    /\ LegsAccounted

\* The new trades in ts2 are one for each leg that ps2 lacks.
Closes(ps, ts, ps2, ts2) ==
    /\ ps2 \subseteq ps /\ ts \subseteq ts2
    /\ \A t \in ts2 \ ts : t.leg \in ps \ ps2
    /\ \A p \in ps \ ps2 : \E t \in ts2 : t.leg = p
    /\ \A t, u \in ts2 \ ts : t.leg = u.leg => t = u

\* new holds one leg of each side, of cycle c.
Pair(new, c) ==
    /\ \A p \in new : p.cycle = c
    /\ \A p, q \in new : p.side = q.side => p = q
    /\ \A side \in Sides : \E p \in new : p.side = side

\* Trades take the place of the legs that are closed.
LEMMA ClosingKeepsAccounts ==
    ASSUME NEW ps, NEW ts, Accounted(ps, ts),
           NEW ps2, NEW ts2, Closes(ps, ts, ps2, ts2)
    PROVE  Accounted(ps2, ts2) /\ ps2 \cup Traded(ts2) = ps \cup Traded(ts)
<1> DEFINE traded == Traded(ts)
           traded2 == Traded(ts2)
<1>1. traded2 = traded \cup (ps \ ps2) BY DEF Traded, Closes
<1>2. \A t \in ts : t.leg \in traded BY DEF Traded
<1> HIDE DEF traded, traded2
<1>3. ps2 \cup traded2 = ps \cup traded BY <1>1 DEF Closes
<1>4. \A p \in ps2, q \in traded2 : Key(p) # Key(q)
  BY <1>1 DEF Accounted, Closes, traded
<1>5. \A p, q \in ps2 : Key(p) = Key(q) => p = q BY DEF Accounted, Closes
<1>6. \A t, u \in ts2 : Key(t.leg) = Key(u.leg) => t = u
  <2> TAKE t, u \in ts2
  <2> HAVE Key(t.leg) = Key(u.leg)
  <2>1. CASE t \in ts /\ u \in ts BY <2>1 DEF Accounted
  <2>2. CASE t \notin ts /\ u \notin ts
    <3>1. t.leg = u.leg BY <2>2 DEF Accounted, Closes
    <3> QED BY <2>2, <3>1 DEF Closes
  <2>3. CASE t \in ts /\ u \notin ts BY <2>3, <1>2 DEF Accounted, Closes, traded
  <2>4. CASE t \notin ts /\ u \in ts BY <2>4, <1>2 DEF Accounted, Closes, traded
  <2> QED BY <2>1, <2>2, <2>3, <2>4
<1>7. \A p \in ps \cup traded, side \in Sides :
        \E q \in ps \cup traded : Key(q) = <<p.cycle, side>>
  BY DEF Accounted, traded
<1> QED BY <1>3, <1>4, <1>5, <1>6, <1>7 DEF Accounted, traded, traded2

\* The two legs of a cycle nobody has used join the open ones.
LEMMA OpeningKeepsAccounts ==
    ASSUME NEW ps, NEW ts, Accounted(ps, ts), NEW c,
           \A p \in ps \cup Traded(ts) : p.cycle # c,
           NEW new, Pair(new, c)
    PROVE  Accounted(ps \cup new, ts)
<1> DEFINE traded == Traded(ts)
<1> HIDE DEF traded
<1>0. \A p, q : Key(p) = Key(q) => p.cycle = q.cycle /\ p.side = q.side BY DEF Key
<1>1. \A p \in ps \cup new, q \in traded : Key(p) # Key(q)
  BY <1>0 DEF Accounted, traded, Pair
<1>2. \A p, q \in ps \cup new : Key(p) = Key(q) => p = q
  BY <1>0 DEF Accounted, Pair
<1>3. \A t, u \in ts : Key(t.leg) = Key(u.leg) => t = u BY DEF Accounted
<1>4. \A p \in (ps \cup new) \cup traded, side \in Sides :
        \E q \in (ps \cup new) \cup traded : Key(q) = <<p.cycle, side>>
  <2> TAKE p \in (ps \cup new) \cup traded, side \in Sides
  <2>1. CASE p \in new
    <3>1. PICK q \in new : q.side = side BY DEF Pair
    <3> QED BY <2>1, <3>1 DEF Key, Pair
  <2>2. CASE p \in ps \cup traded BY <2>2 DEF Accounted, traded
  <2> QED BY <2>1, <2>2
<1> QED BY <1>1, <1>2, <1>3, <1>4 DEF Accounted, traded

\* A trade names the leg it closes, whatever the reason and the price.
LEMMA LegOfTrade == \A p, reason, price : Trade(p, reason, price).leg = p
  BY DEF Trade

\* So does the exit of a leg by stop or target.
LEMMA LegOfExit == \A p : Exit(p).leg = p
  BY LegOfTrade DEF Exit

\* openOne numbers a leg with the bar it is opened in.
LEMMA NewLegIsOfTheBar ==
    \A side : NewLeg(side).cycle = Now /\ NewLeg(side).side = side
  BY DEF NewLeg

\* The accounts are kept by each step of a bar, and by the end of the run.
LEMMA AccountInvariant == Spec => []AccountInv
<1>1. Init => AccountInv
  BY DEF Init, AccountInv, LegsAccounted, Accounted, Traded, Decided, Now
<1>2. AccountInv /\ [Next]_vars => AccountInv'
  <2> SUFFICES ASSUME AccountInv, [Next]_vars PROVE AccountInv' OBVIOUS
  <2>0. Now \in Nat /\ bars \in Seq(Candles) BY DEF AccountInv, Now
  <2>1. ASSUME NEW b \in Candles, ReadBar(b) PROVE AccountInv'
    <3>1. bars' \in Seq(Candles) /\ Now' = Now + 1 BY <2>0, <2>1 DEF ReadBar, Now
    <3>2. Decided' = Decided BY <2>0, <2>1, <3>1 DEF ReadBar, Decided
    <3>3. open' = open /\ trades' = trades BY <2>1 DEF ReadBar
    <3>4. LegsAccounted' BY <2>1, <3>3 DEF ReadBar, AccountInv, LegsAccounted, Accounted
    <3> QED BY <2>0, <3>1, <3>2, <3>3, <3>4 DEF AccountInv
  <2>2. CASE Exits
    <3>1. Decided' = Decided /\ bars' = bars /\ pc' = "cycle" /\ pc = "exits" /\ Now' = Now
      BY <2>2 DEF Exits, Decided, Now
    <3>2. Closes(open, trades, open', trades')
      BY <2>2, LegOfExit DEF Exits, Book, Closes
    <3>3. /\ Accounted(open', trades')
          /\ open' \cup Traded(trades') = open \cup Traded(trades)
      BY <3>2, ClosingKeepsAccounts DEF AccountInv, LegsAccounted
    <3> QED BY <3>1, <3>3 DEF AccountInv, LegsAccounted
  <2>3. CASE OpenCycle
    <3> DEFINE new == {NewLeg(side) : side \in Sides}
    <3>1. bars' = bars /\ pc = "cycle" /\ pc' = "sample" BY <2>3 DEF OpenCycle
    <3>2. Decided = Now - 1 /\ Decided' = Now /\ Now' = Now
      BY <3>1 DEF Decided, Now
    <3>3. Pair(new, Now) /\ \A p \in new : p.side \in Sides
      BY NewLegIsOfTheBar DEF Pair
    <3>4. \A p \in open \cup Traded(trades) : p.cycle # Now
      BY <2>0, <3>2 DEF AccountInv
    <3>5. Closes(open \cup new, trades, open', trades')
      BY <2>3, LegOfExit DEF OpenCycle, Book, Closes
    <3>6. Accounted(open, trades) BY DEF AccountInv, LegsAccounted
    <3> HIDE DEF new
    <3>7. Accounted(open \cup new, trades)
      BY <3>3, <3>4, <3>6, OpeningKeepsAccounts
    <3>8. /\ Accounted(open', trades')
          /\ open' \cup Traded(trades') = (open \cup new) \cup Traded(trades)
      BY <3>5, <3>7, ClosingKeepsAccounts
    <3>9. \A p \in open' \cup Traded(trades') :
             p.cycle \in Nat \ {0} /\ p.cycle <= Now /\ p.side \in Sides
      <4> TAKE p \in open' \cup Traded(trades')
      <4>1. p \in new \/ p \in open \cup Traded(trades) BY <3>8
      <4>2. CASE p \in new BY <2>0, <3>1, <3>3, <4>2 DEF AccountInv, Pair
      <4>3. CASE p \in open \cup Traded(trades)
        BY <2>0, <3>2, <4>3 DEF AccountInv
      <4> QED BY <4>1, <4>2, <4>3
    <3> QED BY <2>0, <3>1, <3>2, <3>8, <3>9 DEF AccountInv, LegsAccounted
  <2>4. CASE CloseRest
    <3>1. open' = {} /\ bars' = bars /\ pc = "bar" /\ pc' = "eod"
      BY <2>4 DEF CloseRest
    <3>2. Decided' = Decided /\ Now' = Now BY <3>1 DEF Decided, Now
    <3>3. Closes(open, trades, open', trades')
      BY <2>4, LegOfTrade DEF CloseRest, Book, Closes
    <3>4. /\ Accounted(open', trades')
          /\ open' \cup Traded(trades') = open \cup Traded(trades)
      BY <3>3, ClosingKeepsAccounts DEF AccountInv, LegsAccounted
    <3> QED BY <3>1, <3>2, <3>4 DEF AccountInv, LegsAccounted
  <2>5. CASE SkipCycle \/ Sample \/ NoBars \/ Finish
    <3>1. open' = open /\ trades' = trades /\ bars' = bars /\ Now' = Now
      BY <2>5 DEF SkipCycle, Sample, NoBars, Finish, Now
    <3>2. pc' \notin {"exits", "cycle"}
      BY <2>5 DEF SkipCycle, Sample, NoBars, Finish
    <3>3. Decided <= Decided' /\ Decided \in Int /\ Decided' \in Int
      BY <2>0, <3>1, <3>2 DEF Decided
    <3>4. pc' \in {"eod", "done"} => open' = {}
      <4>1. CASE SkipCycle \/ Sample BY <4>1 DEF SkipCycle, Sample
      <4>2. CASE Finish BY <4>2, <3>1 DEF Finish, AccountInv, LegsAccounted
      <4>3. CASE NoBars
        <5>1. Decided = 0 BY <4>3 DEF NoBars, Decided
        <5>2. Now = 0 /\ pc = "bar" BY <4>3 DEF NoBars
        <5>3. \A p \in open : FALSE BY <5>1 DEF AccountInv
        <5> QED BY <3>1, <5>3
      <4> QED BY <2>5, <4>1, <4>2, <4>3
    <3>5. Accounted(open, trades)' BY <3>1 DEF AccountInv, LegsAccounted, Accounted
    <3> QED BY <3>1, <3>2, <3>3, <3>4, <3>5 DEF AccountInv, LegsAccounted
  <2>6. CASE UNCHANGED vars
    BY <2>6 DEF vars, AccountInv, LegsAccounted, Accounted, Decided, Now
  <2> QED BY <2>1, <2>2, <2>3, <2>4, <2>5, <2>6 DEF Next
<1> QED BY <1>1, <1>2, PTL DEF Spec

\* run loses no leg and closes none twice: the exits of a bar, the exits of the
\* opening bar and the close of the rest at the end each move a leg from the
\* open positions to the trades, for any candles and any parameters.
THEOREM LegsAlwaysAccounted == Spec => []LegsAccounted
BY AccountInvariant, PTL DEF AccountInv

----------------------------------------------------------------------------
(***************************************************************************)
(* What is open has been touched by no bar whose exits are done.           *)
(***************************************************************************)
Untouched(p, last) == \A n \in p.cycle..last : ~Touched(p, bars[n])

\* The trade closes its leg at the first touch of it, if there was one.
Timely(t) ==
    /\ Untouched(t.leg, t.time - 1)
    /\ t.reason = "TP" => ~HitSl(t.leg, bars[t.time])
    /\ t.reason = "EOD" => ~Touched(t.leg, bars[t.time])

Seen == IF pc = "exits" THEN Now - 1 ELSE Now

TouchInv ==
    /\ \A p \in open : Untouched(p, Seen)
    /\ \A t \in trades : t.time \in 1..Now /\ Timely(t)

\* A step that reads no bar keeps what was timely; the new trades are to be shown.
LEMMA TouchStep ==
    ASSUME TouchInv, bars' = bars, \A p \in open' : Untouched(p, Seen'),
           \A t \in trades' \ trades : t.time \in 1..Now /\ Timely(t)
    PROVE  TouchInv'
<1>1. Now' = Now BY DEF Now
<1>2. \A p \in open' : Untouched(p, Seen)' BY DEF Untouched
<1>3. \A t \in trades' : Timely(t) => Timely(t)' BY DEF Timely, Untouched
<1> QED BY <1>1, <1>2, <1>3 DEF TouchInv

\* A trade at the present bar, of a leg untouched before it.
LEMMA TradeIsTimely ==
    ASSUME Now \in Nat \ {0}, NEW p, Untouched(p, Now - 1), NEW price,
           NEW reason, reason = "TP" => ~HitSl(p, Bar),
           reason = "EOD" => ~Touched(p, Bar)
    PROVE  LET t == Trade(p, reason, price) IN t.time \in 1..Now /\ Timely(t)
BY DEF Trade, Timely, Bar

\* The exit of a leg stops the loss whenever the bar has touched the stop.
LEMMA ExitIsTimely ==
    ASSUME Now \in Nat \ {0}, NEW p, Untouched(p, Now - 1)
    PROVE  Exit(p).time \in 1..Now /\ Timely(Exit(p))
<1>1. CASE HitSl(p, Bar)
  BY <1>1, TradeIsTimely DEF Exit
<1>2. CASE ~HitSl(p, Bar)
  BY <1>2, TradeIsTimely DEF Exit
<1> QED BY <1>1, <1>2

\* No position outlives a bar that touches its stop or its target, the bar it was
\* opened in included, and of a bar that touches both the stop counts: so it is
\* for any candles, any number of open cycles and any parameters.
THEOREM LegsExitAtFirstTouch == Spec => []ExitsAtFirstTouch
<1>1. Init => TouchInv
  BY DEF Init, TouchInv
<1>2. AccountInv /\ TouchInv /\ [Next]_vars => TouchInv'
  <2> SUFFICES ASSUME AccountInv, TouchInv, [Next]_vars PROVE TouchInv' OBVIOUS
  <2>0. Now \in Nat /\ bars \in Seq(Candles) BY DEF AccountInv, Now
  <2>1. ASSUME NEW b \in Candles, ReadBar(b) PROVE TouchInv'
    <3>1. /\ bars' = Append(bars, b) /\ Now' = Now + 1 /\ Seen = Now /\ Seen' = Now
          /\ open' = open /\ trades' = trades
      BY <2>0, <2>1 DEF ReadBar, Now, Seen
    <3>2. \A n \in 1..Now : bars'[n] = bars[n] BY <2>0, <3>1 DEF Now
    <3>3. ASSUME NEW p \in open \cup Traded(trades), NEW last \in Int, last <= Now,
                 Untouched(p, last)
          PROVE  Untouched(p, last)'
      <4>1. p.cycle \in Nat \ {0} BY DEF AccountInv
      <4> QED BY <2>0, <3>2, <3>3, <4>1 DEF Untouched
    <3>4. ASSUME NEW t \in trades
          PROVE  t.time \in 1..Now' /\ Timely(t)'
      <4>1. t.leg \in Traded(trades) /\ t.time \in 1..Now /\ Timely(t)
        BY DEF Traded, TouchInv
      <4>2. bars'[t.time] = bars[t.time] BY <3>2, <4>1
      <4>3. Untouched(t.leg, t.time - 1)' BY <2>0, <3>3, <4>1 DEF Timely
      <4> QED BY <2>0, <3>1, <4>1, <4>2, <4>3 DEF Timely
    <3>5. \A p \in open' : Untouched(p, Seen)'
      <4> TAKE p \in open'
      <4> DEFINE last == Now
      <4>1. p \in open /\ Untouched(p, last) /\ last \in Int
        BY <2>0, <3>1 DEF TouchInv
      <4> HIDE DEF last
      <4>2. last = Now => (\A n \in p.cycle..last : ~Touched(p, bars'[n]))
        BY <2>0, <3>3, <4>1 DEF Untouched
      <4> QED BY <3>1, <4>2 DEF last, Untouched
    <3> QED BY <3>1, <3>4, <3>5 DEF TouchInv
  <2>2. CASE Exits
    <3>1. Now \in Nat \ {0} /\ Seen = Now - 1 /\ Seen' = Now /\ bars' = bars
      BY <2>0, <2>2 DEF Exits, AccountInv, Seen, Now
    <3>2. \A p \in open : Untouched(p, Now - 1) BY <3>1 DEF TouchInv
    <3>3. \A p \in open' : p \in open /\ ~Touched(p, Bar) BY <2>2 DEF Exits
    <3>4. \A p \in open' : Untouched(p, Seen')
      <4> TAKE p \in open'
      <4>1. p.cycle \in Nat BY <3>3 DEF AccountInv
      <4> QED BY <3>1, <3>2, <3>3, <4>1 DEF Untouched, Bar
    <3>5. \A t \in trades' \ trades : \E p \in open : t = Exit(p)
      BY <2>2 DEF Exits, Book
    <3> QED BY <3>1, <3>2, <3>4, <3>5, ExitIsTimely, TouchStep
  <2>3. CASE OpenCycle
    <3> DEFINE new == {NewLeg(side) : side \in Sides}
    <3>1. Now \in Nat \ {0} /\ Seen = Now /\ Seen' = Now /\ bars' = bars
      BY <2>0, <2>3 DEF OpenCycle, AccountInv, Seen, Now
    <3>2. \A p \in new : p.cycle = Now BY NewLegIsOfTheBar
    <3> DEFINE all == open \cup new
    <3>3. \A p \in open' : p \in all /\ ~Touched(p, Bar) BY <2>3 DEF OpenCycle
    <3>4. \A t \in trades' \ trades : \E p \in all : t = Exit(p)
      BY <2>3 DEF OpenCycle, Book
    <3> HIDE DEF new
    <3>5. \A p \in all : p.cycle \in Nat /\ Untouched(p, Now - 1)
      <4> TAKE p \in all
      <4>1. CASE p \in open
        <5>1. p.cycle \in Nat /\ Untouched(p, Now)
          BY <3>1, <4>1 DEF AccountInv, TouchInv
        <5> QED BY <3>1, <5>1 DEF Untouched
      <4>2. CASE p \in new
        BY <3>1, <3>2, <4>2 DEF Untouched
      <4> QED BY <4>1, <4>2
    <3>6. \A p \in open' : Untouched(p, Seen')
      BY <3>1, <3>3, <3>5 DEF Untouched, Bar
    <3> HIDE DEF all
    <3> QED BY <3>1, <3>4, <3>5, <3>6, ExitIsTimely, TouchStep
  <2>4. CASE CloseRest
    <3>1. Now \in Nat \ {0} /\ Seen = Now /\ open' = {} /\ bars' = bars
      BY <2>0, <2>4 DEF CloseRest, Seen
    <3>2. \A t \in trades' \ trades : \E p \in open : t = Trade(p, "EOD", Bar.close)
      BY <2>4 DEF CloseRest, Book
    <3>3. ASSUME NEW p \in open
          PROVE  Untouched(p, Now - 1) /\ ~Touched(p, Bar)
      <4>1. p.cycle \in Nat /\ p.cycle <= Now /\ Untouched(p, Now)
        BY <2>4, <3>1 DEF AccountInv, Decided, TouchInv, CloseRest
      <4> QED BY <3>1, <4>1 DEF Untouched, Bar
    <3>4. \A t \in trades' \ trades : t.time \in 1..Now /\ Timely(t)
      BY <3>1, <3>2, <3>3, TradeIsTimely
    <3> QED BY <3>1, <3>4, TouchStep
  <2>5. CASE SkipCycle \/ Sample \/ NoBars \/ Finish \/ UNCHANGED vars
    <3>1. open' = open /\ trades' = trades /\ bars' = bars /\ Seen' = Seen
      BY <2>5 DEF SkipCycle, Sample, NoBars, Finish, vars, Seen, Now
    <3> QED BY <3>1, TouchStep DEF TouchInv
  <2> QED BY <2>1, <2>2, <2>3, <2>4, <2>5 DEF Next
<1>3. TouchInv => ExitsAtFirstTouch
  BY DEF TouchInv, ExitsAtFirstTouch, Untouched, Timely, Seen
<1> QED BY <1>1, <1>2, <1>3, AccountInvariant, PTL DEF Spec

----------------------------------------------------------------------------
(***************************************************************************)
(* Two replays of the same bars, with and without costs, keep ledgers that *)
(* differ in their fills only.  What follows is about a ledger of legs ps  *)
(* and trades ts, of the bars bs, at a phase at; free says which of the    *)
(* two it is.                                                              *)
(***************************************************************************)
Filled(free, price, side, action) ==
    IF free THEN price ELSE FillPrice(price, side, action)

\* The leg was opened at the open of its bar.
LegOf(p, bs, free) ==
    /\ p.cycle \in 1..Len(bs) /\ p.side \in Sides
    /\ p.price = bs[p.cycle].open /\ p.qty = Quantity(p.price) /\ p.qty > 0
    /\ p.fill = Filled(free, p.price, p.side, "OPEN")

Quiet(p, bs, last) == \A n \in p.cycle..last : ~Touched(p, bs[n])

\* The trade closed its leg for what the candle b did.
ClosedBy(t, p, b, free) ==
    /\ t.leg = p /\ t.fill = Filled(free, t.price, p.side, "CLOSE")
    /\ \/ HitSl(p, b) /\ t.reason = "SL" /\ t.price = StopLossPrice(p)
       \/ ~HitSl(p, b) /\ HitTp(p, b) /\ t.reason = "TP" /\ t.price = TakeProfitPrice(p)
       \/ ~Touched(p, b) /\ t.reason = "EOD" /\ t.price = b.close

TradeOf(t, bs, free) ==
    /\ LegOf(t.leg, bs, free)
    /\ t.time \in t.leg.cycle..Len(bs) /\ Quiet(t.leg, bs, t.time - 1)
    /\ ClosedBy(t, t.leg, bs[t.time], free)

Exited(bs, at) == IF at = "exits" THEN Len(bs) - 1 ELSE Len(bs)
Over(at) == at \in {"eod", "done"}

Fair(ps, ts, bs, at, free) ==
    /\ \A p \in ps : LegOf(p, bs, free) /\ Quiet(p, bs, Exited(bs, at))
    /\ \A t \in ts : /\ TradeOf(t, bs, free) /\ t.time <= Exited(bs, at)
                     /\ t.reason = "EOD" => Over(at) /\ t.time = Len(bs)
    /\ Over(at) => ps = {}
    /\ at \notin {"bar", "done"} => Len(bs) > 0

\* All legs close that the last bar touches.
Exiting(all, ts, ps2, ts2, bs, free) ==
    LET n == Len(bs) IN
    /\ \A p \in ps2 : p \in all /\ ~Touched(p, bs[n])
    /\ \A t \in ts2 \ ts : \E p \in all :
          Touched(p, bs[n]) /\ t.time = n /\ ClosedBy(t, p, bs[n], free)

\* A step of either replay.
LedgerStep(ps, ts, bs, at, ps2, ts2, bs2, at2, free) ==
    \/ /\ at = "bar" /\ at2 = "exits" /\ ps2 = ps /\ ts2 = ts
       /\ \E b \in Candles : bs2 = Append(bs, b)
    \/ /\ at = "exits" /\ at2 = "cycle" /\ bs2 = bs
       /\ Exiting(ps, ts, ps2, ts2, bs, free)
    \/ /\ at = "cycle" /\ at2 = "sample" /\ bs2 = bs
       /\ \E new :
             /\ \A p \in new : LegOf(p, bs, free) /\ p.cycle = Len(bs)
             /\ Exiting(ps \cup new, ts, ps2, ts2, bs, free)
    \/ /\ <<at, at2>> \in {<<"cycle", "sample">>, <<"sample", "bar">>, <<"eod", "done">>}
       /\ ps2 = ps /\ ts2 = ts /\ bs2 = bs
    \/ /\ at = "bar" /\ at2 = "done" /\ Len(bs) = 0
       /\ ps2 = ps /\ ts2 = ts /\ bs2 = bs
    \/ /\ at = "bar" /\ at2 = "eod" /\ bs2 = bs /\ Len(bs) > 0 /\ ps2 = {}
       /\ \A t \in ts2 \ ts : \E p \in ps :
             /\ t.leg = p /\ t.time = Len(bs) /\ t.reason = "EOD"
             /\ t.price = bs[Len(bs)].close
             /\ t.fill = Filled(free, t.price, p.side, "CLOSE")

\* One more bar leaves the past as it was.
LEMMA LaterBars ==
  ASSUME NEW bs \in Seq(Candles), NEW b \in Candles, NEW free
  PROVE  /\ Append(bs, b) \in Seq(Candles) /\ Len(Append(bs, b)) = Len(bs) + 1
         /\ \A p : LegOf(p, bs, free) => LegOf(p, Append(bs, b), free)
         /\ \A p : \A n \in 0..Len(bs) : p.cycle \in Nat \ {0} /\ Quiet(p, bs, n)
                      => Quiet(p, Append(bs, b), n)
         /\ \A t : TradeOf(t, bs, free) => TradeOf(t, Append(bs, b), free)
<1> DEFINE bs2 == Append(bs, b)
<1>1. Len(bs) \in Nat /\ Len(bs2) = Len(bs) + 1 /\ bs2 \in Seq(Candles)
  OBVIOUS
<1>2. \A n \in 1..Len(bs) : bs2[n] = bs[n]
  OBVIOUS
<1> HIDE DEF bs2
<1>3. \A p : LegOf(p, bs, free) => LegOf(p, bs2, free)
  BY <1>1, <1>2 DEF LegOf
<1>4. ASSUME NEW p, NEW n \in 0..Len(bs), p.cycle \in Nat \ {0}, Quiet(p, bs, n)
      PROVE  Quiet(p, bs2, n)
  <2> SUFFICES ASSUME NEW m \in p.cycle..n PROVE ~Touched(p, bs2[m])
    BY DEF Quiet
  <2>1. m \in 1..Len(bs)
    BY <1>1, <1>4
  <2>2. bs2[m] = bs[m] /\ ~Touched(p, bs[m])
    BY <1>2, <1>4, <2>1 DEF Quiet
  <2> QED
    BY <2>2
<1>5. ASSUME NEW t, TradeOf(t, bs, free) PROVE TradeOf(t, bs2, free)
  <2>1. /\ LegOf(t.leg, bs, free) /\ t.leg.cycle \in 1..Len(bs)
        /\ t.time \in t.leg.cycle..Len(bs) /\ Quiet(t.leg, bs, t.time - 1)
        /\ ClosedBy(t, t.leg, bs[t.time], free)
    BY <1>5 DEF TradeOf, LegOf
  <2>2. t.time \in 1..Len(bs) /\ t.time - 1 \in 0..Len(bs) /\ t.leg.cycle \in Nat \ {0}
        /\ t.time \in t.leg.cycle..Len(bs2)
    BY <1>1, <2>1
  <2>3. Quiet(t.leg, bs2, t.time - 1)
    BY <1>4, <2>1, <2>2
  <2>4. ClosedBy(t, t.leg, bs2[t.time], free)
    BY <1>2, <2>1, <2>2
  <2> QED
    BY <1>3, <2>1, <2>2, <2>3, <2>4 DEF TradeOf
<1> QED
  BY <1>1, <1>3, <1>4, <1>5 DEF bs2

\* After the exits of a bar the ledger is fair if what stays is untouched and what
\* is new was closed in that bar.
LEMMA FairAfterExits ==
  ASSUME NEW ps, NEW ts, NEW bs \in Seq(Candles), NEW at, NEW free,
         Fair(ps, ts, bs, at, free), Len(bs) > 0,
         NEW all, \A p \in all : LegOf(p, bs, free) /\ Quiet(p, bs, Len(bs) - 1),
         ~Over(at), NEW at2, at2 # "exits", ~Over(at2),
         NEW ps2, NEW ts2, Exiting(all, ts, ps2, ts2, bs, free)
  PROVE  Fair(ps2, ts2, bs, at2, free)
<1> DEFINE n == Len(bs)
<1>1. n \in Nat /\ n > 0 /\ Exited(bs, at2) = n /\ Exited(bs, at) \in {n, n - 1}
  BY DEF Exited
<1>2. ASSUME NEW p \in ps2 PROVE LegOf(p, bs, free) /\ Quiet(p, bs, n)
  <2>1. p \in all /\ ~Touched(p, bs[n])
    BY DEF Exiting
  <2>2. LegOf(p, bs, free) /\ Quiet(p, bs, n - 1) /\ p.cycle \in Nat
    BY <1>1, <2>1 DEF LegOf
  <2> HIDE DEF n
  <2>3. \A m \in p.cycle..n : m = n \/ m \in p.cycle..(n - 1)
    BY <1>1, <2>2
  <2> QED
    BY <2>1, <2>2, <2>3 DEF Quiet
<1>3. ASSUME NEW t \in ts2
      PROVE  TradeOf(t, bs, free) /\ t.time <= n /\ t.reason # "EOD"
  <2>1. CASE t \in ts
    <3>1. TradeOf(t, bs, free) /\ t.reason # "EOD"
      BY <2>1 DEF Fair
    <3>2. t.time <= n
      BY <1>1, <3>1 DEF TradeOf, LegOf
    <3> QED
      BY <3>1, <3>2
  <2>2. CASE t \notin ts
    <3>1. PICK p \in all : Touched(p, bs[n]) /\ t.time = n /\ ClosedBy(t, p, bs[n], free)
      BY <2>2 DEF Exiting
    <3>2. LegOf(p, bs, free) /\ Quiet(p, bs, n - 1) /\ p.cycle \in 1..n
      BY DEF LegOf
    <3>3. t.leg = p /\ t.reason # "EOD"
      BY <3>1 DEF ClosedBy
    <3>4. n \in p.cycle..n
      BY <1>1, <3>2
    <3> QED
      BY <1>1, <3>1, <3>2, <3>3, <3>4 DEF TradeOf
  <2> QED
    BY <2>1, <2>2
<1> QED
  BY <1>1, <1>2, <1>3 DEF Fair

\* Every step of a ledger keeps it fair.
LEMMA LedgerStaysFair ==
  ASSUME NEW ps, NEW ts, NEW bs \in Seq(Candles), NEW at, NEW free,
         NEW ps2, NEW ts2, NEW bs2, NEW at2,
         Fair(ps, ts, bs, at, free),
         LedgerStep(ps, ts, bs, at, ps2, ts2, bs2, at2, free)
  PROVE  Fair(ps2, ts2, bs2, at2, free)
<1> DEFINE n == Len(bs)
<1>0. n \in Nat
  OBVIOUS
<1>1. CASE /\ at = "bar" /\ at2 = "exits" /\ ps2 = ps /\ ts2 = ts
           /\ \E b \in Candles : bs2 = Append(bs, b)
  <2>1. PICK b \in Candles : bs2 = Append(bs, b)
    BY <1>1
  <2>2. Exited(bs, at) = n /\ Exited(bs2, at2) = n /\ Len(bs2) = n + 1
    BY <1>0, <1>1, <2>1, LaterBars DEF Exited
  <2>3. ~Over(at) /\ ~Over(at2)
    BY <1>1 DEF Over
  <2>4. \A p \in ps : LegOf(p, bs2, free) /\ Quiet(p, bs2, n)
    <3> TAKE p \in ps
    <3>1. LegOf(p, bs, free) /\ Quiet(p, bs, n) /\ p.cycle \in Nat \ {0}
      BY <2>2 DEF Fair, LegOf
    <3> QED
      BY <1>0, <2>1, <3>1, LaterBars
  <2>5. \A t \in ts : TradeOf(t, bs2, free) /\ t.time <= n /\ t.reason # "EOD"
    BY <2>1, <2>2, <2>3, LaterBars DEF Fair
  <2> QED
    BY <1>0, <1>1, <2>2, <2>3, <2>4, <2>5 DEF Fair
<1>2. CASE /\ at = "exits" /\ at2 = "cycle" /\ bs2 = bs
           /\ Exiting(ps, ts, ps2, ts2, bs, free)
  <2>1. n > 0 /\ Exited(bs, at) = n - 1 /\ ~Over(at) /\ ~Over(at2) /\ at2 # "exits"
    BY <1>2 DEF Fair, Exited, Over
  <2>2. \A p \in ps : LegOf(p, bs, free) /\ Quiet(p, bs, n - 1)
    BY <2>1 DEF Fair
  <2> QED
    BY <1>2, <2>1, <2>2, FairAfterExits
<1>3. CASE /\ at = "cycle" /\ at2 = "sample" /\ bs2 = bs
           /\ \E new :
                 /\ \A p \in new : LegOf(p, bs, free) /\ p.cycle = Len(bs)
                 /\ Exiting(ps \cup new, ts, ps2, ts2, bs, free)
  <2>1. n > 0 /\ Exited(bs, at) = n /\ ~Over(at) /\ ~Over(at2) /\ at2 # "exits"
    BY <1>3 DEF Fair, Exited, Over
  <2>2. PICK new : /\ \A p \in new : LegOf(p, bs, free) /\ p.cycle = n
                   /\ Exiting(ps \cup new, ts, ps2, ts2, bs, free)
    BY <1>3, <2>1
  <2>3. \A p \in ps \cup new : LegOf(p, bs, free) /\ Quiet(p, bs, n - 1)
    <3> TAKE p \in ps \cup new
    <3>1. CASE p \in ps
      <4>1. LegOf(p, bs, free) /\ Quiet(p, bs, n) /\ p.cycle \in Nat
        BY <2>1, <3>1 DEF Fair, LegOf
      <4>2. \A m \in p.cycle..(n - 1) : m \in p.cycle..n
        BY <1>0, <4>1
      <4> QED
        BY <4>1, <4>2 DEF Quiet
    <3>2. CASE p \in new
      <4>1. LegOf(p, bs, free) /\ p.cycle = n
        BY <2>2, <3>2
      <4>2. p.cycle..(n - 1) = {}
        BY <1>0, <4>1
      <4> QED
        BY <4>1, <4>2 DEF Quiet
    <3> QED
      BY <3>1, <3>2
  <2> QED
    BY <1>3, <2>1, <2>2, <2>3, FairAfterExits
<1>4. CASE /\ <<at, at2>> \in {<<"cycle", "sample">>, <<"sample", "bar">>,
                               <<"eod", "done">>}
           /\ ps2 = ps /\ ts2 = ts /\ bs2 = bs
  <2>1. /\ at # "exits" /\ at2 # "exits" /\ (Over(at) <=> Over(at2))
        /\ at \notin {"bar", "done"}
    BY <1>4 DEF Over
  <2>2. Exited(bs, at) = Exited(bs, at2)
    BY <2>1 DEF Exited
  <2> QED
    BY <1>4, <2>1, <2>2 DEF Fair
<1>5. CASE /\ at = "bar" /\ at2 = "done" /\ Len(bs) = 0
           /\ ps2 = ps /\ ts2 = ts /\ bs2 = bs
  <2>1. ps = {} /\ ts = {}
    <3>1. \A p \in ps : p.cycle \in 1..0
      BY <1>5 DEF Fair, LegOf
    <3>2. \A t \in ts : t.leg.cycle \in 1..0
      BY <1>5 DEF Fair, TradeOf, LegOf
    <3>3. 1..0 = {}
      OBVIOUS
    <3> QED
      BY <3>1, <3>2, <3>3
  <2> QED
    BY <1>5, <2>1 DEF Fair
<1>6. CASE /\ at = "bar" /\ at2 = "eod" /\ bs2 = bs /\ Len(bs) > 0 /\ ps2 = {}
           /\ \A t \in ts2 \ ts : \E p \in ps :
                 /\ t.leg = p /\ t.time = Len(bs) /\ t.reason = "EOD"
                 /\ t.price = bs[Len(bs)].close
                 /\ t.fill = Filled(free, t.price, p.side, "CLOSE")
  <2>1. Exited(bs, at) = n /\ Exited(bs, at2) = n /\ ~Over(at) /\ Over(at2)
    BY <1>6 DEF Exited, Over
  <2>2. ASSUME NEW t \in ts2
        PROVE  /\ TradeOf(t, bs, free) /\ t.time <= n
               /\ t.reason = "EOD" => t.time = n
    <3>1. CASE t \in ts
      BY <2>1, <3>1 DEF Fair
    <3>2. CASE t \notin ts
      <4>1. PICK p \in ps :
               /\ t.leg = p /\ t.time = n /\ t.reason = "EOD"
               /\ t.price = bs[n].close
               /\ t.fill = Filled(free, t.price, p.side, "CLOSE")
        BY <1>6, <3>2
      <4>2. LegOf(p, bs, free) /\ Quiet(p, bs, n) /\ p.cycle \in 1..n
        BY <2>1 DEF Fair, LegOf
      <4>3. n \in p.cycle..n /\ \A m \in p.cycle..(n - 1) : m \in p.cycle..n
        BY <1>0, <4>2
      <4>4. ~Touched(p, bs[n]) /\ Quiet(p, bs, n - 1)
        BY <4>2, <4>3 DEF Quiet
      <4>5. ClosedBy(t, p, bs[n], free)
        BY <4>1, <4>4 DEF ClosedBy
      <4> QED
        BY <1>0, <4>1, <4>2, <4>3, <4>4, <4>5 DEF TradeOf
    <3> QED
      BY <3>1, <3>2
  <2> QED
    BY <1>6, <2>1, <2>2 DEF Fair
<1> QED
  BY <1>1, <1>2, <1>3, <1>4, <1>5, <1>6 DEF LedgerStep

\* Without costs everything but the fills is the same.
LEMMA FreeIsSame ==
  /\ \A p, b : Free!HitSl(p, b) = HitSl(p, b) /\ Free!HitTp(p, b) = HitTp(p, b)
  /\ \A p, b : Free!Touched(p, b) = Touched(p, b)
  /\ \A p : Free!StopLossPrice(p) = StopLossPrice(p)
            /\ Free!TakeProfitPrice(p) = TakeProfitPrice(p)
  /\ \A x : Free!Quantity(x) = Quantity(x)
  /\ Free!Now = Now /\ Free!Bar = Bar /\ Free!Sides = Sides
BY DEF Free!HitSl, Free!HitTp, Free!Touched, Free!StopLossPrice, Free!TakeProfitPrice,
       Free!Quantity, Free!Now, Free!Bar, Free!Sides, Free!Gain, Free!Percent,
       HitSl, HitTp, Touched, StopLossPrice, TakeProfitPrice, Quantity, Now, Bar, Sides,
       Gain, Percent

\* Without slippage a fill is the assumed price.
LEMMA FreeFills ==
  ASSUME NEW x \in Int, NEW side, NEW action
  PROVE  Free!FillPrice(x, side, action) = x
<1>1. Free!Percent(0, x) = 0
  <2>1. x * 0 = 0 /\ 0 \div 100 = 0
    OBVIOUS
  <2> QED
    BY <2>1 DEF Free!Percent
<1> QED
  BY <1>1 DEF Free!FillPrice

\* A candle is one of whole numbers.
LEMMA CandleIs ==
  ASSUME NEW b \in Candles
  PROVE  b.open \in Nat /\ b.high \in Nat /\ b.low \in Nat /\ b.close \in Nat
BY CandleAssumption

\* A quantity is a whole number.
LEMMA QuantityIs ==
  ASSUME NEW x \in Nat
  PROVE  Quantity(x) \in Int
<1>1. x > 0 => Amount \div x \in Int
  BY CostAssumption
<1> QED
  BY <1>1, CostAssumption DEF Quantity

\* Targets are whole numbers.
LEMMA TargetsAre ==
  ASSUME NEW p, p.price \in Int
  PROVE  StopLossPrice(p) \in Int /\ TakeProfitPrice(p) \in Int
<1> DEFINE a == Percent(StopLossPct, p.price)
           b == Percent(TakeProfitPct, p.price)
<1>1. a \in Int /\ b \in Int
  BY CostAssumption DEF Percent
<1>2. /\ StopLossPrice(p) = p.price - Gain(p.side, 0, a)
      /\ TakeProfitPrice(p) = p.price + Gain(p.side, 0, b)
  BY DEF StopLossPrice, TakeProfitPrice
<1> HIDE DEF a, b
<1> QED
  BY <1>1, <1>2 DEF Gain

\* An exit is for what the bar did.
LEMMA ExitIsClosed ==
  ASSUME NEW p, p.price \in Int, Touched(p, Bar)
  PROVE  /\ Exit(p).time = Now /\ ClosedBy(Exit(p), p, Bar, FALSE)
         /\ Free!Exit(p).time = Now /\ ClosedBy(Free!Exit(p), p, Bar, TRUE)
<1>1. /\ Exit(p).time = Now /\ Exit(p).leg = p
      /\ Exit(p).reason = (IF HitSl(p, Bar) THEN "SL" ELSE "TP")
      /\ Exit(p).price = (IF HitSl(p, Bar) THEN StopLossPrice(p) ELSE TakeProfitPrice(p))
      /\ Exit(p).fill = FillPrice(Exit(p).price, p.side, "CLOSE")
  BY DEF Exit, Trade
<1>2. /\ Free!Exit(p).time = Now /\ Free!Exit(p).leg = p
      /\ Free!Exit(p).reason = (IF HitSl(p, Bar) THEN "SL" ELSE "TP")
      /\ Free!Exit(p).price
            = (IF HitSl(p, Bar) THEN StopLossPrice(p) ELSE TakeProfitPrice(p))
      /\ Free!Exit(p).fill = Free!FillPrice(Free!Exit(p).price, p.side, "CLOSE")
  BY FreeIsSame DEF Free!Exit, Free!Trade
<1>3. Free!Exit(p).fill = Free!Exit(p).price
  BY <1>2, TargetsAre, FreeFills
<1>4. HitSl(p, Bar) \/ HitTp(p, Bar)
  BY DEF Touched
<1> QED
  BY <1>1, <1>2, <1>3, <1>4 DEF ClosedBy, Filled

\* The prices of what is open are prices of candles.
LEMMA PricesAre ==
  ASSUME NEW bs \in Seq(Candles), NEW p, NEW free, LegOf(p, bs, free)
  PROVE  p.price \in Nat /\ p.qty \in Int /\ p.qty > 0
<1>1. bs[p.cycle] \in Candles
  BY DEF LegOf
<1> QED
  BY <1>1, CandleIs, QuantityIs DEF LegOf

\* A step of the replay with costs is one of its ledger.
LEMMA StepOfLedger ==
  ASSUME bars \in Seq(Candles), Fair(open, trades, bars, pc, FALSE), Next
  PROVE  LedgerStep(open, trades, bars, pc, open', trades', bars', pc', FALSE)
<1>0. /\ Bar = bars[Len(bars)] /\ Now = Len(bars)
      /\ \A p \in open : p.price \in Int
  <2>1. \A p \in open : LegOf(p, bars, FALSE)
    BY DEF Fair
  <2>2. \A p \in open : p.price \in Nat
    BY <2>1, PricesAre
  <2> QED
    BY <2>2 DEF Bar, Now
<1>1. ASSUME NEW b \in Candles, ReadBar(b)
      PROVE  LedgerStep(open, trades, bars, pc, open', trades', bars', pc', FALSE)
  BY <1>1 DEF ReadBar, LedgerStep
<1>2. CASE Exits
  <2>1. Exiting(open, trades, open', trades', bars, FALSE)
    BY <1>0, <1>2, ExitIsClosed DEF Exits, Book, Exiting
  <2> QED
    BY <1>2, <2>1 DEF Exits, LedgerStep
<1>3. CASE OpenCycle
  <2> DEFINE new == {NewLeg(side) : side \in Sides}
             gone == {p \in open \cup new : Touched(p, Bar)}
  <2>1. /\ open' = (open \cup new) \ gone /\ Quantity(Bar.open) > 0
        /\ trades' = trades \cup {Exit(p) : p \in gone}
        /\ pc = "cycle" /\ pc' = "sample" /\ bars' = bars
    BY <1>3 DEF OpenCycle, Book
  <2>2. Len(bars) > 0 /\ Len(bars) \in 1..Len(bars) /\ bars[Len(bars)] \in Candles
    BY <2>1 DEF Fair
  <2>3. \A p \in new : LegOf(p, bars, FALSE) /\ p.cycle = Len(bars)
    BY <1>0, <2>1, <2>2 DEF NewLeg, LegOf, Filled
  <2>4. \A p \in open \cup new : p.price \in Int
    BY <1>0, <2>2, CandleIs DEF NewLeg
  <2> HIDE DEF new
  <2>5. Exiting(open \cup new, trades, open', trades', bars, FALSE)
    BY <1>0, <2>1, <2>4, ExitIsClosed DEF Exiting
  <2> QED
    BY <2>1, <2>3, <2>5 DEF LedgerStep
<1>4. CASE SkipCycle \/ Sample \/ Finish
  BY <1>4 DEF SkipCycle, Sample, Finish, LedgerStep
<1>5. CASE NoBars
  BY <1>0, <1>5 DEF NoBars, LedgerStep
<1>6. CASE CloseRest
  <2>1. /\ Now > 0 /\ pc = "bar" /\ pc' = "eod" /\ bars' = bars /\ open' = {}
        /\ trades' = trades \cup {Trade(p, "EOD", Bar.close) : p \in open}
    BY <1>6 DEF CloseRest, Book
  <2>3. \A t \in trades' \ trades : \E p \in open :
           /\ t.leg = p /\ t.time = Len(bars) /\ t.reason = "EOD"
           /\ t.price = bars[Len(bars)].close
           /\ t.fill = Filled(FALSE, t.price, p.side, "CLOSE")
    <3> TAKE t \in trades' \ trades
    <3>1. PICK p \in open : t = Trade(p, "EOD", Bar.close)
      BY <2>1
    <3>2. /\ t.leg = p /\ t.time = Len(bars) /\ t.reason = "EOD"
          /\ t.price = bars[Len(bars)].close
          /\ t.fill = Filled(FALSE, t.price, p.side, "CLOSE")
      BY <1>0, <3>1 DEF Trade, Filled
    <3> QED
      BY <3>2
  <2> QED
    BY <1>0, <2>1, <2>3 DEF LedgerStep
<1> QED
  BY <1>1, <1>2, <1>3, <1>4, <1>5, <1>6 DEF Next

\* And so is a step of the replay without.
LEMMA StepOfFreeLedger ==
  ASSUME bars \in Seq(Candles), Fair(open0, trades0, bars, pc, TRUE), Free!Next
  PROVE  LedgerStep(open0, trades0, bars, pc, open0', trades0', bars', pc', TRUE)
<1>0. /\ Bar = bars[Len(bars)] /\ Now = Len(bars)
      /\ \A p \in open0 : p.price \in Int
  <2>1. \A p \in open0 : LegOf(p, bars, TRUE)
    BY DEF Fair
  <2>2. \A p \in open0 : p.price \in Nat
    BY <2>1, PricesAre
  <2> QED
    BY <2>2 DEF Bar, Now
<1>1. ASSUME NEW b \in Candles, Free!ReadBar(b)
      PROVE  LedgerStep(open0, trades0, bars, pc, open0', trades0', bars', pc', TRUE)
  BY <1>1 DEF Free!ReadBar, LedgerStep
<1>2. CASE Free!Exits
  <2>1. /\ open0' = open0 \ {p \in open0 : Touched(p, Bar)}
        /\ trades0' = trades0 \cup {Free!Exit(p) : p \in {q \in open0 : Touched(q, Bar)}}
    BY <1>2, FreeIsSame DEF Free!Exits, Free!Book
  <2>2. Exiting(open0, trades0, open0', trades0', bars, TRUE)
    BY <1>0, <2>1, ExitIsClosed DEF Exiting
  <2> QED
    BY <1>2, <2>2 DEF Free!Exits, LedgerStep
<1>3. CASE Free!OpenCycle
  <2> DEFINE new == {Free!NewLeg(side) : side \in Sides}
             gone == {p \in open0 \cup new : Touched(p, Bar)}
  <2>1. /\ open0' = (open0 \cup new) \ gone /\ Quantity(Bar.open) > 0
        /\ trades0' = trades0 \cup {Free!Exit(p) : p \in gone}
        /\ pc = "cycle" /\ pc' = "sample" /\ bars' = bars
    BY <1>3, FreeIsSame DEF Free!OpenCycle, Free!Book
  <2>2. Len(bars) > 0 /\ Len(bars) \in 1..Len(bars) /\ bars[Len(bars)] \in Candles
    BY <2>1 DEF Fair
  <2>3. Bar.open \in Int
    BY <1>0, <2>2, CandleIs
  <2>4. ASSUME NEW side \in Sides
        PROVE  LET p == Free!NewLeg(side) IN
               LegOf(p, bars, TRUE) /\ p.cycle = Len(bars) /\ p.price = Bar.open
    <3>1. LET p == Free!NewLeg(side) IN
          /\ p.cycle = Now /\ p.side = side /\ p.price = Bar.open
          /\ p.qty = Quantity(Bar.open) /\ p.fill = Free!FillPrice(Bar.open, side, "OPEN")
      BY FreeIsSame DEF Free!NewLeg
    <3>2. Free!FillPrice(Bar.open, side, "OPEN") = Bar.open
      BY <2>3, FreeFills
    <3> QED
      BY <1>0, <2>1, <2>2, <3>1, <3>2 DEF LegOf, Filled
  <2>5. \A p \in new : LegOf(p, bars, TRUE) /\ p.cycle = Len(bars)
    BY <2>4
  <2>6. \A p \in open0 \cup new : p.price \in Int
    BY <1>0, <2>3, <2>4
  <2> HIDE DEF new
  <2>7. Exiting(open0 \cup new, trades0, open0', trades0', bars, TRUE)
    BY <1>0, <2>1, <2>6, ExitIsClosed DEF Exiting
  <2> QED
    BY <2>1, <2>5, <2>7 DEF LedgerStep
<1>4. CASE Free!SkipCycle \/ Free!Sample \/ Free!Finish
  BY <1>4 DEF Free!SkipCycle, Free!Sample, Free!Finish, LedgerStep
<1>5. CASE Free!NoBars
  BY <1>0, <1>5, FreeIsSame DEF Free!NoBars, LedgerStep
<1>6. CASE Free!CloseRest
  <2>1. /\ Now > 0 /\ pc = "bar" /\ pc' = "eod" /\ bars' = bars /\ open0' = {}
        /\ trades0' = trades0 \cup {Free!Trade(p, "EOD", Bar.close) : p \in open0}
    BY <1>6, FreeIsSame DEF Free!CloseRest, Free!Book
  <2>2. Bar.close \in Int
    <3>1. bars[Len(bars)] \in Candles
      BY <1>0, <2>1
    <3> QED
      BY <1>0, <3>1, CandleIs
  <2>4. \A t \in trades0' \ trades0 : \E p \in open0 :
           /\ t.leg = p /\ t.time = Len(bars) /\ t.reason = "EOD"
           /\ t.price = bars[Len(bars)].close
           /\ t.fill = Filled(TRUE, t.price, p.side, "CLOSE")
    <3> TAKE t \in trades0' \ trades0
    <3>1. PICK p \in open0 : t = Free!Trade(p, "EOD", Bar.close)
      BY <2>1
    <3>2. Free!FillPrice(Bar.close, p.side, "CLOSE") = Bar.close
      BY <2>2, FreeFills
    <3>3. /\ t.leg = p /\ t.time = Len(bars) /\ t.reason = "EOD"
          /\ t.price = bars[Len(bars)].close
          /\ t.fill = Filled(TRUE, t.price, p.side, "CLOSE")
      BY <1>0, <3>1, <3>2, FreeIsSame DEF Free!Trade, Filled
    <3> QED
      BY <3>3
  <2> QED
    BY <1>0, <2>1, <2>4 DEF LedgerStep
<1> QED
  BY <1>1, <1>2, <1>3, <1>4, <1>5, <1>6 DEF Free!Next

\* The replay with costs is one of the engine.
LEMMA ReplayRuns == ComputeSpec => Spec
<1>1. ComputeInit => Init
  BY DEF ComputeInit, BothInit
<1>2. [ComputeNext]_computeVars => [Next]_vars
  BY DEF ComputeNext, computeVars, both, BothNext, CycleInBoth, Next
<1> QED
  BY <1>1, <1>2, PTL DEF ComputeSpec, Spec

\* The ledgers of both replays.
CostInv ==
    /\ bars \in Seq(Candles)
    /\ Fair(open, trades, bars, pc, FALSE) /\ Fair(open0, trades0, bars, pc, TRUE)

\* Both ledgers stay fair.
LEMMA CostInvStays == ComputeSpec => []CostInv
<1>1. ComputeInit => CostInv
  <2> SUFFICES ASSUME ComputeInit PROVE CostInv
    OBVIOUS
  <2>1. /\ bars = <<>> /\ open = {} /\ trades = {} /\ open0 = {} /\ trades0 = {}
        /\ pc = "bar"
    BY DEF ComputeInit, BothInit, Init, Free!Init
  <2> QED
    BY <2>1 DEF CostInv, Fair
<1>2. CostInv /\ [ComputeNext]_computeVars => CostInv'
  <2> SUFFICES ASSUME CostInv, [ComputeNext]_computeVars PROVE CostInv'
    OBVIOUS
  <2>1. CASE BothNext
    <3>1. Next /\ Free!Next
      BY <2>1 DEF BothNext, CycleInBoth, Next, Free!Next
    <3>2. bars' \in Seq(Candles)
      BY <3>1 DEF CostInv, Next, ReadBar, Exits, OpenCycle, SkipCycle, Sample,
                  CloseRest, NoBars, Finish
    <3>3. Fair(open', trades', bars', pc', FALSE)
      BY <3>1, StepOfLedger, LedgerStaysFair DEF CostInv
    <3>4. Fair(open0', trades0', bars', pc', TRUE)
      BY <3>1, StepOfFreeLedger, LedgerStaysFair DEF CostInv
    <3>5. /\ Fair(open, trades, bars, pc, FALSE)' /\ Fair(open0, trades0, bars, pc, TRUE)'
      BY <3>3, <3>4
    <3> QED
      BY <3>2, <3>5 DEF CostInv
  <2>2. CASE UNCHANGED both
    <3>1. bars' = bars /\ open' = open /\ trades' = trades /\ open0' = open0
          /\ trades0' = trades0 /\ pc' = pc
      BY <2>2 DEF both, vars
    <3> QED
      BY <3>1 DEF CostInv, Fair, TradeOf, LegOf, Quiet, Exited
  <2> QED
    BY <2>1, <2>2 DEF ComputeNext, computeVars
<1> QED
  BY <1>1, <1>2, PTL DEF ComputeSpec

\* Two legs of one bar and side differ in their fills only.
LEMMA SameLegs ==
  ASSUME NEW bs, NEW p, NEW q, LegOf(p, bs, FALSE), LegOf(q, bs, TRUE), Key(p) = Key(q)
  PROVE  /\ p.cycle = q.cycle /\ p.side = q.side /\ p.price = q.price /\ p.qty = q.qty
         /\ StopLossPrice(p) = StopLossPrice(q) /\ TakeProfitPrice(p) = TakeProfitPrice(q)
         /\ \A b : (HitSl(p, b) <=> HitSl(q, b)) /\ (Touched(p, b) <=> Touched(q, b))
<1>1. p.cycle = q.cycle /\ p.side = q.side
  BY DEF Key
<1>2. p.price = q.price /\ p.qty = q.qty
  BY <1>1 DEF LegOf
<1>3. /\ StopLossPrice(p) = StopLossPrice(q) /\ TakeProfitPrice(p) = TakeProfitPrice(q)
  BY <1>1, <1>2 DEF StopLossPrice, TakeProfitPrice
<1>4. \A b : (HitSl(p, b) <=> HitSl(q, b)) /\ (HitTp(p, b) <=> HitTp(q, b))
  BY <1>1, <1>3 DEF HitSl, HitTp
<1> QED
  BY <1>1, <1>2, <1>3, <1>4 DEF Touched

\* A trade that is not forced has touched its leg.
LEMMA TradedIsTouched ==
  ASSUME NEW bs, NEW t, NEW free, TradeOf(t, bs, free)
  PROVE  /\ t.reason # "EOD" <=> Touched(t.leg, bs[t.time])
         /\ t.reason = "SL" <=> HitSl(t.leg, bs[t.time])
         /\ t.reason \in {"SL", "TP", "EOD"}
BY DEF TradeOf, ClosedBy, Touched

\* Two trades of one bar and side close at the same time, for the same reason and
\* at the same assumed price.
LEMMA SameTrades ==
  ASSUME NEW bs \in Seq(Candles), NEW t, TradeOf(t, bs, FALSE), NEW u, TradeOf(u, bs, TRUE),
         t.reason = "EOD" => t.time = Len(bs), u.reason = "EOD" => u.time = Len(bs),
         Key(t.leg) = Key(u.leg)
  PROVE  /\ t.time = u.time /\ t.reason = u.reason /\ t.price = u.price
         /\ t.leg.side = u.leg.side /\ t.leg.price = u.leg.price /\ t.leg.qty = u.leg.qty
<1>1. /\ TradeOf(t, bs, FALSE) /\ TradeOf(u, bs, TRUE)
      /\ LegOf(t.leg, bs, FALSE) /\ LegOf(u.leg, bs, TRUE)
  BY DEF TradeOf
<1>2. /\ t.leg.cycle = u.leg.cycle /\ t.leg.side = u.leg.side
      /\ t.leg.price = u.leg.price /\ t.leg.qty = u.leg.qty
      /\ StopLossPrice(t.leg) = StopLossPrice(u.leg)
      /\ TakeProfitPrice(t.leg) = TakeProfitPrice(u.leg)
      /\ \A b : /\ HitSl(t.leg, b) <=> HitSl(u.leg, b)
                /\ Touched(t.leg, b) <=> Touched(u.leg, b)
  <2> DEFINE p == t.leg
             q == u.leg
  <2>1. LegOf(p, bs, FALSE) /\ LegOf(q, bs, TRUE) /\ Key(p) = Key(q)
    BY <1>1
  <2> HIDE DEF p, q
  <2>2. /\ p.cycle = q.cycle /\ p.side = q.side /\ p.price = q.price /\ p.qty = q.qty
        /\ StopLossPrice(p) = StopLossPrice(q) /\ TakeProfitPrice(p) = TakeProfitPrice(q)
        /\ \A b : (HitSl(p, b) <=> HitSl(q, b)) /\ (Touched(p, b) <=> Touched(q, b))
    BY <2>1, SameLegs
  <2> QED
    BY <2>2 DEF p, q
<1>3. /\ t.time \in t.leg.cycle..Len(bs) /\ u.time \in u.leg.cycle..Len(bs)
      /\ t.leg.cycle \in Nat /\ Len(bs) \in Nat
      /\ Quiet(t.leg, bs, t.time - 1) /\ Quiet(u.leg, bs, u.time - 1)
  BY <1>1 DEF TradeOf, LegOf
<1>4. t.time = u.time
  <2>1. ASSUME t.time < u.time PROVE FALSE
    <3>1. t.time \in u.leg.cycle..(u.time - 1)
      BY <1>2, <1>3, <2>1
    <3>2. ~Touched(t.leg, bs[t.time])
      BY <1>2, <1>3, <3>1 DEF Quiet
    <3>3. t.reason = "EOD"
      BY <1>1, <3>2, TradedIsTouched
    <3>4. t.time = Len(bs)
      BY <3>3
    <3> QED
      BY <1>3, <2>1, <3>4
  <2>2. ASSUME u.time < t.time PROVE FALSE
    <3>1. u.time \in t.leg.cycle..(t.time - 1)
      BY <1>2, <1>3, <2>2
    <3>2. ~Touched(u.leg, bs[u.time])
      BY <1>2, <1>3, <3>1 DEF Quiet
    <3>3. u.reason = "EOD"
      BY <1>1, <3>2, TradedIsTouched
    <3>4. u.time = Len(bs)
      BY <3>3
    <3> QED
      BY <1>3, <2>2, <3>4
  <2> QED
    BY <1>3, <2>1, <2>2
<1>5. t.reason = u.reason
  BY <1>1, <1>2, <1>4, TradedIsTouched
<1>6. t.price = u.price
  BY <1>1, <1>2, <1>4, <1>5 DEF TradeOf, ClosedBy
<1> QED
  BY <1>2, <1>4, <1>5, <1>6

\* What is open in one is not traded in the other.
LEMMA NoneTradedAlone ==
  ASSUME NEW ps, NEW ts, NEW qs, NEW us, NEW bs \in Seq(Candles), NEW at,
         Fair(ps, ts, bs, at, FALSE), Fair(qs, us, bs, at, TRUE)
  PROVE  /\ \A p \in ps, u \in us : Key(p) # Key(u.leg)
         /\ \A q \in qs, t \in ts : Key(q) # Key(t.leg)
<1>1. Len(bs) \in Nat /\ Exited(bs, at) \in Int
  BY DEF Exited
<1>2. ASSUME NEW p \in ps, NEW u \in us, Key(p) = Key(u.leg) PROVE FALSE
  <2>1. /\ ~Over(at) /\ LegOf(p, bs, FALSE) /\ Quiet(p, bs, Exited(bs, at))
        /\ TradeOf(u, bs, TRUE) /\ u.time <= Exited(bs, at) /\ u.reason # "EOD"
    BY DEF Fair
  <2>2. LegOf(u.leg, bs, TRUE) /\ u.time \in u.leg.cycle..Len(bs) /\ u.leg.cycle \in Nat
    BY <2>1 DEF TradeOf, LegOf
  <2>3. p.cycle = u.leg.cycle /\ Touched(p, bs[u.time])
    <3>1. Touched(u.leg, bs[u.time])
      BY <2>1, TradedIsTouched
    <3> DEFINE q == u.leg
    <3>2. LegOf(q, bs, TRUE) /\ Key(p) = Key(q)
      BY <1>2, <2>2
    <3> HIDE DEF q
    <3>3. p.cycle = q.cycle /\ \A b : Touched(p, b) <=> Touched(q, b)
      BY <2>1, <3>2, SameLegs
    <3> QED
      BY <3>1, <3>3 DEF q
  <2>4. u.time \in p.cycle..Exited(bs, at)
    BY <1>1, <2>1, <2>2, <2>3
  <2> QED
    BY <2>1, <2>3, <2>4 DEF Quiet
<1>3. ASSUME NEW q \in qs, NEW t \in ts, Key(q) = Key(t.leg) PROVE FALSE
  <2>1. /\ ~Over(at) /\ LegOf(q, bs, TRUE) /\ Quiet(q, bs, Exited(bs, at))
        /\ TradeOf(t, bs, FALSE) /\ t.time <= Exited(bs, at) /\ t.reason # "EOD"
    BY DEF Fair
  <2>2. LegOf(t.leg, bs, FALSE) /\ t.time \in t.leg.cycle..Len(bs) /\ t.leg.cycle \in Nat
    BY <2>1 DEF TradeOf, LegOf
  <2>3. q.cycle = t.leg.cycle /\ Touched(q, bs[t.time])
    <3>1. Touched(t.leg, bs[t.time])
      BY <2>1, TradedIsTouched
    <3> DEFINE p == t.leg
    <3>2. LegOf(p, bs, FALSE) /\ Key(p) = Key(q)
      BY <1>3, <2>2
    <3> HIDE DEF p
    <3>3. p.cycle = q.cycle /\ \A b : Touched(p, b) <=> Touched(q, b)
      BY <2>1, <3>2, SameLegs
    <3> QED
      BY <3>1, <3>3 DEF p
  <2>4. t.time \in q.cycle..Exited(bs, at)
    BY <1>1, <2>1, <2>2, <2>3
  <2> QED
    BY <2>1, <2>3, <2>4 DEF Quiet
<1> QED
  BY <1>2, <1>3

----------------------------------------------------------------------------
(* What costs take away.                                                   *)

\* A share of what is not negative is not negative, and up to a hundred percent
\* not more than the whole.
LEMMA PercentIs ==
  ASSUME NEW x \in Nat, NEW rate \in Int
  PROVE  /\ Percent(rate, x) \in Int
         /\ rate >= 0 => Percent(rate, x) >= 0
         /\ rate >= -100 => Percent(rate, x) >= -x
         /\ rate <= 100 => Percent(rate, x) <= x
<1> DEFINE a == x * rate
<1>1. a \in Int
  OBVIOUS
<1>2. rate >= 0 => a >= 0
  OBVIOUS
<1>3. rate >= -100 => a >= -(100 * x)
  <2>1. x * (rate + 100) = a + 100 * x
    OBVIOUS
  <2>2. rate >= -100 => x * (rate + 100) >= 0
    <3> DEFINE r == rate + 100
    <3>1. r \in Int /\ (rate >= -100 => r >= 0)
      OBVIOUS
    <3> HIDE DEF r
    <3>2. r >= 0 => x * r >= 0
      BY <3>1
    <3> QED
      BY <3>1, <3>2 DEF r
  <2> QED
    BY <1>1, <2>1, <2>2
<1>4. rate <= 100 => a <= 100 * x
  <2>1. x * (100 - rate) = 100 * x - a
    OBVIOUS
  <2>2. rate <= 100 => x * (100 - rate) >= 0
    <3> DEFINE r == 100 - rate
    <3>1. r \in Int /\ (rate <= 100 => r >= 0)
      OBVIOUS
    <3> HIDE DEF r
    <3>2. r >= 0 => x * r >= 0
      BY <3>1
    <3> QED
      BY <3>1, <3>2 DEF r
  <2> QED
    BY <1>1, <2>1, <2>2
<1>5. Percent(rate, x) = a \div 100
  BY DEF Percent
<1> HIDE DEF a
<1>6. /\ a \div 100 \in Int /\ (a >= 0 => a \div 100 >= 0)
      /\ (a >= -(100 * x) => a \div 100 >= -x) /\ (a <= 100 * x => a \div 100 <= x)
  BY <1>1
<1> QED
  BY <1>2, <1>3, <1>4, <1>5, <1>6

\* Fills are not better than the assumed price, and never below zero.
LEMMA FillIsWorse ==
  ASSUME NEW x \in Nat, NEW side \in Sides, NEW action \in {"OPEN", "CLOSE"}
  PROVE  LET f == FillPrice(x, side, action) IN
         /\ f \in Nat
         /\ (action = "OPEN") = (side = "LONG") => f >= x
         /\ (action = "OPEN") # (side = "LONG") => f <= x
<1> DEFINE s == Percent(SlipPct, x)
           buys == (action = "OPEN") = (side = "LONG")
<1>1. s \in Int /\ 0 <= s /\ s <= x /\ SlipPoints \in Nat
  <2>1. SlipPct \in Int /\ SlipPct >= 0 /\ SlipPct <= 100 /\ SlipPoints \in Nat
    BY CostAssumption
  <2> QED
    BY <2>1, PercentIs
<1>2. FillPrice(x, side, action) =
         CASE x <= 0 -> x
           [] x > 0 /\ buys -> x + s + SlipPoints
           [] x > 0 /\ ~buys /\ x - s > SlipPoints -> x - s - SlipPoints
           [] OTHER -> x - s
  BY DEF FillPrice
<1> HIDE DEF s, buys
<1>3. CASE x <= 0
  BY <1>2, <1>3 DEF buys
<1>4. CASE x > 0 /\ buys
  BY <1>1, <1>2, <1>4 DEF buys
<1>5. CASE x > 0 /\ ~buys /\ x - s > SlipPoints
  BY <1>1, <1>2, <1>5 DEF buys
<1>6. CASE x > 0 /\ ~buys /\ ~(x - s > SlipPoints)
  BY <1>1, <1>2, <1>6 DEF buys
<1> QED
  BY <1>3, <1>4, <1>5, <1>6

\* A trade is not at a price below zero: of a target that may be below zero, the
\* stop of a long leg or the profit of a short one, the low of a candle has
\* reached it.
LEMMA TradePriceIs ==
  ASSUME NEW bs \in Seq(Candles), NEW t, NEW free, TradeOf(t, bs, free)
  PROVE  t.price \in Nat
<1> DEFINE p == t.leg
           b == bs[t.time]
<1>1. /\ LegOf(p, bs, free) /\ ClosedBy(t, p, b, free)
      /\ t.time \in p.cycle..Len(bs) /\ p.cycle \in 1..Len(bs)
  BY DEF TradeOf, LegOf
<1>2. t.time \in 1..Len(bs)
  BY <1>1
<1>3. b.low \in Nat /\ b.high \in Nat /\ b.close \in Nat
  BY <1>2, CandleIs
<1>4. p.price \in Nat /\ p.side \in {"LONG", "SHORT"}
  BY <1>1, PricesAre DEF LegOf, Sides
<1> HIDE DEF p, b
<1> DEFINE x == p.price
           l == Percent(StopLossPct, x)
           w == Percent(TakeProfitPct, x)
<1>5. l \in Int /\ l >= -x /\ w \in Int /\ w >= -x
  BY <1>4, PercentIs, CostAssumption
<1>6. /\ StopLossPrice(p) = x - Gain(p.side, 0, l)
      /\ TakeProfitPrice(p) = x + Gain(p.side, 0, w)
  BY DEF StopLossPrice, TakeProfitPrice
<1> HIDE DEF l, w
<1>7. CASE p.side = "LONG"
  <2>1. StopLossPrice(p) = x - l /\ TakeProfitPrice(p) = x + w
    BY <1>4, <1>5, <1>6, <1>7 DEF Gain
  <2>2. HitSl(p, b) => b.low <= StopLossPrice(p)
    BY <1>7 DEF HitSl
  <2> QED
    BY <1>1, <1>3, <1>4, <1>5, <2>1, <2>2 DEF ClosedBy
<1>8. CASE p.side = "SHORT"
  <2>1. StopLossPrice(p) = x + l /\ TakeProfitPrice(p) = x - w
    BY <1>4, <1>5, <1>6, <1>8 DEF Gain
  <2>2. HitTp(p, b) => b.low <= TakeProfitPrice(p)
    BY <1>8 DEF HitTp
  <2> QED
    BY <1>1, <1>3, <1>4, <1>5, <2>1, <2>2 DEF ClosedBy
<1> QED
  BY <1>4, <1>7, <1>8

\* The result of a trade is not more with costs than without.
LEMMA CostsTakeAway ==
  ASSUME NEW bs \in Seq(Candles), NEW t, TradeOf(t, bs, FALSE),
         NEW u, TradeOf(u, bs, TRUE), t.price = u.price,
         t.leg.side = u.leg.side, t.leg.price = u.leg.price, t.leg.qty = u.leg.qty
  PROVE  NetPnl(t) <= Free!NetPnl(u)
<1> DEFINE side == t.leg.side
           x == t.leg.price
           y == t.price
           qty == t.leg.qty
           f == t.leg.fill
           g == t.fill
<1>1. /\ LegOf(t.leg, bs, FALSE) /\ LegOf(u.leg, bs, TRUE) /\ side \in Sides
      /\ f = FillPrice(x, side, "OPEN") /\ g = FillPrice(y, side, "CLOSE")
      /\ u.leg.fill = x /\ u.fill = y
  BY DEF TradeOf, LegOf, ClosedBy, Filled
<1>2. x \in Nat /\ y \in Nat /\ qty \in Nat
  <2>1. y \in Nat
    BY TradePriceIs
  <2>2. x \in Nat /\ qty \in Int /\ qty > 0
    <3> DEFINE p == t.leg
    <3>1. LegOf(p, bs, FALSE)
      BY <1>1
    <3> HIDE DEF p
    <3>2. p.price \in Nat /\ p.qty \in Int /\ p.qty > 0
      BY <3>1, PricesAre
    <3> QED
      BY <3>2 DEF p
  <2> HIDE DEF x, qty, y
  <2> QED
    BY <2>1, <2>2
<1> HIDE DEF side, x, y, qty, f, g
<1>3. /\ f \in Nat /\ g \in Nat
      /\ side = "LONG" => f >= x /\ g <= y
      /\ side # "LONG" => f <= x /\ g >= y
  BY <1>1, <1>2, FillIsWorse
<1>4. /\ Gain(side, f, g) \in Int /\ Gain(side, x, y) \in Int
      /\ Gain(side, f, g) <= Gain(side, x, y)
  BY <1>2, <1>3 DEF Gain
<1>5. \A a, b \in Int : a <= b => a * qty <= b * qty
  <2> TAKE a, b \in Int
  <2> HAVE a <= b
  <2> DEFINE d == b - a
  <2>1. d \in Nat /\ b * qty - a * qty = d * qty
    BY <1>2
  <2> HIDE DEF d
  <2>2. d * qty >= 0
    BY <1>2, <2>1
  <2>3. a * qty \in Int /\ b * qty \in Int
    BY <1>2
  <2> QED
    BY <2>1, <2>2, <2>3
<1>6. /\ OpenFee(t.leg) \in Int /\ OpenFee(t.leg) >= 0
      /\ CloseFee(t) \in Int /\ CloseFee(t) >= 0
  <2>1. f * qty \in Nat /\ g * qty \in Nat
    BY <1>2, <1>3
  <2>2. OpenFee(t.leg) = Percent(OpenFeePct, f * qty)
        /\ CloseFee(t) = Percent(CloseFeePct, g * qty)
    BY DEF OpenFee, CloseFee, f, g, qty
  <2> DEFINE k == f * qty
             m == g * qty
  <2> HIDE DEF k, m
  <2>3. /\ Percent(OpenFeePct, k) \in Int /\ Percent(OpenFeePct, k) >= 0
        /\ Percent(CloseFeePct, m) \in Int /\ Percent(CloseFeePct, m) >= 0
    <3>1. k \in Nat /\ m \in Nat
      BY <2>1 DEF k, m
    <3>2. OpenFeePct \in Int /\ OpenFeePct >= 0 /\ CloseFeePct \in Int /\ CloseFeePct >= 0
      BY CostAssumption
    <3> QED
      BY <3>1, <3>2, PercentIs
  <2> QED
    BY <2>2, <2>3 DEF k, m
<1>7. Free!NetPnl(u) = Gain(side, x, y) * qty
  <2>1. Free!GrossPnl(u) = Gain(side, x, y) * qty
    BY <1>1 DEF Free!GrossPnl, Free!Gain, Gain, side, x, y, qty
  <2>2. Free!OpenFee(u.leg) = 0 /\ Free!CloseFee(u) = 0
    <3>1. \A n \in Int : Free!Percent(0, n) = 0
      <4>1. \A n \in Int : n * 0 = 0
        OBVIOUS
      <4>2. 0 \div 100 = 0
        OBVIOUS
      <4> QED
        BY <4>1, <4>2 DEF Free!Percent
    <3>2. u.leg.fill * u.leg.qty \in Int /\ u.fill * u.leg.qty \in Int
      BY <1>1, <1>2 DEF qty
    <3> QED
      BY <3>1, <3>2 DEF Free!OpenFee, Free!CloseFee
  <2>3. Gain(side, x, y) * qty \in Int
    BY <1>2, <1>4
  <2> QED
    BY <2>1, <2>2, <2>3 DEF Free!NetPnl
<1>8. NetPnl(t) = Gain(side, f, g) * qty - (OpenFee(t.leg) + CloseFee(t))
  BY DEF NetPnl, GrossPnl, side, f, g, qty
<1> DEFINE v == Gain(side, f, g) * qty
           w == Gain(side, x, y) * qty
<1>9. v \in Int /\ w \in Int /\ v <= w
  BY <1>2, <1>4, <1>5
<1> HIDE DEF v, w
<1> QED
  BY <1>6, <1>7, <1>8, <1>9 DEF v, w

\* docs/backtest.md compares a run with costs to one without: a leg both replays
\* open closes in both at once and for the same reason, and costs add nothing to
\* its result, for any candles, fees and slippage.
THEOREM CostsStayCosts == ComputeSpec => []CostsOnlyCost
<1>1. CostInv => CostsOnlyCost
  <2> SUFFICES ASSUME CostInv PROVE CostsOnlyCost
    OBVIOUS
  <2>1. ASSUME NEW t \in trades, NEW u \in trades0, Key(t.leg) = Key(u.leg)
        PROVE  /\ t.time = u.time /\ t.reason = u.reason /\ t.leg.qty = u.leg.qty
               /\ NetPnl(t) <= Free!NetPnl(u)
    <3>1. /\ TradeOf(t, bars, FALSE) /\ TradeOf(u, bars, TRUE) /\ bars \in Seq(Candles)
          /\ t.reason = "EOD" => t.time = Len(bars)
          /\ u.reason = "EOD" => u.time = Len(bars)
      BY DEF CostInv, Fair
    <3>2. /\ t.time = u.time /\ t.reason = u.reason /\ t.price = u.price
          /\ t.leg.side = u.leg.side /\ t.leg.price = u.leg.price
          /\ t.leg.qty = u.leg.qty
      BY <2>1, <3>1, SameTrades, ZenonT(60)
    <3>3. NetPnl(t) <= Free!NetPnl(u)
      BY <3>1, <3>2, CostsTakeAway
    <3> QED
      BY <3>2, <3>3
  <2>2. /\ \A p \in open, u \in trades0 : Key(p) # Key(u.leg)
        /\ \A p \in open0, t \in trades : Key(p) # Key(t.leg)
    BY NoneTradedAlone DEF CostInv
  <2> QED
    BY <2>1, <2>2 DEF CostsOnlyCost, CostsNeverHelp, SameExits
<1> QED
  BY <1>1, CostInvStays, PTL

----------------------------------------------------------------------------
(* The page: its form, the jobs it has made, and what it has read of them. *)

\* The page moves or stays.
LEMMA PageRuns == ComputeSpec => Page!PageSpec
<1>1. ComputeInit => Page!PageInit
  BY DEF ComputeInit
<1>2. [ComputeNext]_computeVars => [Page!PageNext]_(Page!pageVars)
  BY DEF ComputeNext, computeVars, pageState, Page!pageVars, Page!serverVars,
     Page!formVars, Page!listVars, Page!detailVars, Page!mutationVars
<1> QED
  BY <1>1, <1>2, PTL DEF ComputeSpec, Page!PageSpec

\* The form has costs whenever it is sent.
FullForms == [type : {"SINGLE", "GRID"}, start : Int, costs : Nat,
              tp : Nat \cup {None}, lev : Nat \cup {None}]

\* The form f is filled from the configuration c, its start a zone off.
FilledFrom(c, f, zone) ==
    /\ f.type = c.type
    /\ f.start = c.start - zone
    /\ f.costs \in IF c.costs = None THEN Nat ELSE {c.costs}
    /\ c.type = "GRID" => /\ f.lev = c.lev
                          /\ c.tp # None => f.tp = c.tp

Created(j) == j \in Jobs /\ jobStatus[j] # None
Known(rows) == \A j \in Jobs : rows[j] # None => jobStatus[j] # None

FormInv ==
    /\ form \in FullForms /\ config \in [Jobs -> Page!Forms]
    /\ jobStatus \in [Jobs -> {None, "RUNNING", "COMPLETED", "REMOVED"}]
    /\ origin # None => Created(origin) /\ FilledFrom(config[origin], form, 0)
    /\ list # None => Known(list)
    /\ listing # None /\ listing.answer # None => Known(listing.answer)

\* The request and the jobs made of it.
CopyInv ==
    /\ copyOf \in [Jobs -> Jobs \cup {None}]
    /\ submit # None => submit \in [input : FullForms, origin : Jobs \cup {None},
                                    id : Jobs \cup {None}]
    /\ submit # None /\ submit.origin # None =>
          /\ Created(submit.origin)
          /\ FilledFrom(config[submit.origin], submit.input, Zone)
    /\ \A j \in Jobs : copyOf[j] # None =>
          /\ Created(j) /\ Created(copyOf[j])
          /\ FilledFrom(config[copyOf[j]], config[j], Zone)

\* None is nothing else.
LEMMA NoneApart ==
  /\ None \notin Jobs /\ None \notin Nat
  /\ None # "RUNNING" /\ None # "COMPLETED" /\ None # "REMOVED"
  /\ None # "created" /\ None # "removed"
  /\ \A rows \in [Jobs -> Page!Statuses] : None # rows /\ None # [answer |-> rows]
  /\ None # Page!Sent
<1> DEFINE Rows == [Jobs -> Page!Statuses]
<1>1. /\ None \notin Jobs \cup Nat
      /\ None \notin {"RUNNING", "COMPLETED", "REMOVED", "created", "removed"}
      /\ None \notin Rows /\ None \notin [answer : {None} \cup Rows]
  BY PageAssumption
<1> HIDE DEF Rows
<1>2. \A rows \in {None} \cup Rows : [answer |-> rows] \in [answer : {None} \cup Rows]
  OBVIOUS
<1> QED
  BY <1>1, <1>2 DEF Page!Sent, Rows

\* What the server does to its jobs: one is new, or the status of one moves on.
ServerMoves ==
    /\ config' \in [Jobs -> Page!Forms]
    /\ jobStatus' \in [Jobs -> {None, "RUNNING", "COMPLETED", "REMOVED"}]
    /\ \A j \in Jobs : jobStatus[j] # None => jobStatus'[j] # None /\ config'[j] = config[j]

\* A form that can be sent is a form.
LEMMA FullFormsAreForms == FullForms \subseteq Page!Forms
  BY DEF FullForms, Page!Forms

\* Jobs that are there stay as they were made; only the one that is made is new.
LEMMA ServerKeeps ==
  ASSUME jobStatus \in [Jobs -> {None, "RUNNING", "COMPLETED", "REMOVED"}],
         config \in [Jobs -> Page!Forms],
         submit # None => submit \in [input : FullForms, origin : Jobs \cup {None},
                                       id : Jobs \cup {None}],
         Page!PageNext
  PROVE  ServerMoves
<1> USE DEF ServerMoves
<1>1. CASE \E j \in Jobs : Page!JobEnds(j)
  BY <1>1, NoneApart DEF Page!JobEnds
<1>2. CASE Page!CreateServed
  <2>1. PICK j \in Page!NextId :
          /\ config' = [config EXCEPT ![j] = submit.input]
          /\ jobStatus' = [jobStatus EXCEPT ![j] = "RUNNING"]
    BY <1>2 DEF Page!CreateServed
  <2>2. j \in Jobs /\ jobStatus[j] = None
    BY DEF Page!NextId
  <2>3. submit.input \in Page!Forms
    BY <1>2, FullFormsAreForms DEF Page!CreateServed
  <2> QED
    BY <2>1, <2>2, <2>3, NoneApart
<1>3. CASE \E d \in deletes : Page!DeleteServed(d)
  BY <1>3, NoneApart DEF Page!DeleteServed, Page!Alive
<1>4. ASSUME UNCHANGED <<config, jobStatus>> PROVE ServerMoves
  BY <1>4
<1>5. CASE Page!UserNext
  BY <1>4, <1>5 DEF Page!UserNext, Page!handleSelectJob, Page!DeleteStart, Page!Edit,
     Page!handleSubmit, Page!serverVars
<1>6. CASE \E g \in gets : Page!GetServed(g) \/ Page!GetAnswered(g) \/ Page!GetFails(g)
  BY <1>4, <1>6 DEF Page!GetServed, Page!GetAnswered, Page!GetFails, Page!serverVars
<1>7. CASE \/ Page!MetaArrives \/ Page!PollList \/ Page!ListServed
           \/ Page!ListAnswered \/ Page!ListFails
  BY <1>4, <1>7 DEF Page!MetaArrives, Page!PollList, Page!ListServed,
     Page!ListAnswered, Page!ListFails, Page!serverVars
<1>8. CASE \/ Page!CreateAnswered \/ Page!CreateFails \/ \E j \in Jobs : Page!Poll(j)
           \/ \E d \in deletes : Page!DeleteAnswered(d) \/ Page!DeleteFails(d)
  BY <1>4, <1>8 DEF Page!CreateAnswered, Page!CreateFails, Page!Poll,
     Page!DeleteAnswered, Page!DeleteFails, Page!serverVars
<1> QED
  BY <1>1, <1>2, <1>3, <1>5, <1>6, <1>7, <1>8 DEF Page!PageNext
----------------------------------------------------------------------------
\* A configuration that is there, filled into the form.
LEMMA ApplyFills ==
  ASSUME form \in FullForms, NEW c \in Page!Forms
  PROVE  /\ Page!applyJobToForm(c) \in FullForms
         /\ FilledFrom(c, Page!applyJobToForm(c), 0)
BY NoneApart DEF Page!applyJobToForm, Page!toDatetimeLocalUtc, FullForms, Page!Forms,
   FilledFrom

\* The form, filled from a configuration and read again.
LEMMA BuildKeeps ==
  ASSUME form \in FullForms
  PROVE  /\ Page!buildInput \in FullForms
         /\ \A c \in Page!Forms : FilledFrom(c, form, 0) => FilledFrom(c, Page!buildInput, Zone)
<1>1. /\ Page!buildInput.type = form.type
      /\ Page!buildInput.costs = form.costs
      /\ Page!buildInput.start = form.start - Zone
      /\ form.type = "GRID" => /\ Page!buildInput.tp = form.tp
                               /\ Page!buildInput.lev = form.lev
  BY DEF Page!buildInput, Page!FromLocal, FullForms
<1>2. Page!buildInput \in FullForms
  <2>1. Zone \in Int
    BY PageAssumption
  <2>2. form.start - Zone \in Int
    BY <2>1 DEF FullForms
  <2> QED
    BY <2>2 DEF Page!buildInput, Page!FromLocal, FullForms
<1>3. \A c \in Page!Forms : FilledFrom(c, form, 0) => FilledFrom(c, Page!buildInput, Zone)
  BY <1>1 DEF FilledFrom, FullForms, Page!Forms
<1> QED
  BY <1>2, <1>3

\* The form and the copies are sound at the start.
LEMMA FormInit == Page!PageInit => FormInv /\ CopyInv
<1> SUFFICES ASSUME Page!PageInit PROVE FormInv /\ CopyInv
  OBVIOUS
<1>1. Form0 \in FullForms /\ \A j \in DOMAIN Existing : Existing[j] \in Page!Forms
  BY PageAssumption DEF FullForms
<1>2. config \in [Jobs -> Page!Forms]
  BY <1>1, FullFormsAreForms DEF Page!PageInit
<1> QED
  BY <1>1, <1>2 DEF Page!PageInit, FormInv, CopyInv, Page!Sent

\* What the form shows and sends stays what it was filled from and edited to.
LEMMA FormStep ==
  ASSUME FormInv, CopyInv, Page!PageNext
  PROVE  FormInv'
<1>1. ServerMoves
  BY ServerKeeps DEF FormInv, CopyInv
<1>2. \A j : Created(j) => Created(j)' /\ config'[j] = config[j]
  BY <1>1 DEF ServerMoves, Created
<1>3. \A rows : Known(rows) => \A j \in Jobs : rows[j] # None => jobStatus'[j] # None
  BY <1>1 DEF ServerMoves, Known
<1>4. ASSUME UNCHANGED <<form, origin>> PROVE
        /\ form' \in FullForms
        /\ origin' # None => Created(origin)' /\ FilledFrom(config[origin], form, 0)'
  BY <1>2, <1>4 DEF FormInv, FilledFrom, Created
<1>5. ASSUME UNCHANGED <<list, listing>> PROVE
        /\ list' # None => Known(list)'
        /\ listing' # None /\ listing'.answer # None => Known(listing.answer)'
  BY <1>3, <1>5 DEF FormInv, Known
<1>6. CASE Page!MetaArrives
  <2>1. form' \in FullForms /\ origin' = None
    BY <1>6, PageAssumption DEF Page!MetaArrives, FormInv, FullForms
  <2> QED
    BY <1>1, <1>5, <1>6, <2>1 DEF FormInv, Page!MetaArrives, Page!listVars, ServerMoves
<1>7. ASSUME NEW f \in Edits, Page!Edit(f) PROVE FormInv'
  <2>1. form' \in FullForms /\ origin' = None
    BY <1>7, PageAssumption DEF Page!Edit, FullForms
  <2> QED
    BY <1>1, <1>5, <1>7, <2>1 DEF FormInv, Page!Edit, Page!listVars, ServerMoves
<1>8. ASSUME NEW j \in Jobs, Page!handleSelectJob(j) PROVE FormInv'
  <2>1. /\ form' = Page!applyJobToForm(config[j])
        /\ origin' \in {None, j} /\ config' = config /\ jobStatus' = jobStatus
    BY <1>8 DEF Page!handleSelectJob, Page!serverVars
  <2>2. Created(j)
    BY <1>8 DEF Page!handleSelectJob, FormInv, Known, Created
  <2>3. form' \in FullForms /\ FilledFrom(config[j], form', 0)
    BY <2>1, ApplyFills DEF FormInv
  <2>4. origin' # None => Created(origin)' /\ FilledFrom(config[origin], form, 0)'
    BY <2>1, <2>2, <2>3 DEF Created, FilledFrom
  <2> QED
    BY <1>1, <1>5, <1>8, <2>3, <2>4 DEF FormInv, Page!handleSelectJob, Page!listVars,
       ServerMoves
<1>9. CASE Page!ListServed
  <2>1. listing' = [answer |-> Page!Rows] /\ list' = list
    BY <1>9 DEF Page!ListServed
  <2>2. \A j \in Jobs : Page!Rows[j] # None => jobStatus'[j] # None
    BY <1>9 DEF Page!ListServed, Page!Rows, Page!serverVars
  <2> QED
    BY <1>1, <1>3, <1>4, <1>9, <2>1, <2>2 DEF FormInv, Page!ListServed, Page!formVars,
       Page!serverVars, Known, ServerMoves
<1>10. CASE Page!ListAnswered
  BY <1>1, <1>3, <1>4, <1>10 DEF FormInv, Page!ListAnswered, Page!formVars, Known,
     ServerMoves
<1>11. CASE Page!ListFails \/ Page!PollList
  BY <1>1, <1>3, <1>4, <1>11 DEF FormInv, Page!ListFails, Page!PollList, Page!formVars,
     Known, ServerMoves, Page!Sent
<1>12. CASE Page!CreateAnswered \/ \E d \in deletes : Page!DeleteAnswered(d)
  <2>1. Page!InvalidateList /\ UNCHANGED <<form, origin>>
    BY <1>12 DEF Page!CreateAnswered, Page!DeleteAnswered, Page!formVars
  <2> QED
    BY <1>1, <1>3, <1>4, <2>1 DEF FormInv, Page!InvalidateList, Known, ServerMoves,
       Page!Sent
<1>13. ASSUME UNCHANGED <<form, origin, list, listing>> PROVE FormInv'
  BY <1>1, <1>4, <1>5, <1>13 DEF FormInv, ServerMoves
<1>14. CASE Page!handleSubmit \/ \E j \in Jobs : Page!DeleteStart(j)
  BY <1>13, <1>14 DEF Page!handleSubmit, Page!DeleteStart, Page!formVars, Page!listVars
<1>15. CASE \E j \in Jobs : Page!JobEnds(j) \/ Page!Poll(j)
  BY <1>13, <1>15 DEF Page!JobEnds, Page!Poll, Page!formVars, Page!listVars
<1>16. CASE \E g \in gets : Page!GetServed(g) \/ Page!GetAnswered(g) \/ Page!GetFails(g)
  BY <1>13, <1>16 DEF Page!GetServed, Page!GetAnswered, Page!GetFails, Page!formVars,
     Page!listVars
<1>17. CASE \/ Page!CreateServed \/ Page!CreateFails
            \/ \E d \in deletes : Page!DeleteServed(d) \/ Page!DeleteFails(d)
  BY <1>13, <1>17 DEF Page!CreateServed, Page!CreateFails, Page!DeleteServed,
     Page!DeleteFails, Page!formVars, Page!listVars
<1> QED
  BY <1>6, <1>7, <1>8, <1>9, <1>10, <1>11, <1>12, <1>14, <1>15, <1>16, <1>17
     DEF Page!PageNext, Page!UserNext

\* A job that was made from another stays its copy, but for what was edited.
LEMMA CopyStep ==
  ASSUME FormInv, CopyInv, Page!PageNext
  PROVE  CopyInv'
<1>1. ServerMoves
  BY ServerKeeps DEF FormInv, CopyInv
<1>2. \A j : Created(j) => Created(j)' /\ config'[j] = config[j]
  BY <1>1 DEF ServerMoves, Created
<1>3. ASSUME UNCHANGED copyOf PROVE
        /\ copyOf' \in [Jobs -> Jobs \cup {None}]
        /\ \A j \in Jobs : copyOf'[j] # None =>
             /\ Created(j)' /\ Created(copyOf[j])'
             /\ FilledFrom(config[copyOf[j]], config[j], Zone)'
  <2>1. copyOf' \in [Jobs -> Jobs \cup {None}]
    BY <1>3 DEF CopyInv
  <2>2. ASSUME NEW j \in Jobs, copyOf'[j] # None
        PROVE  /\ Created(j)' /\ Created(copyOf[j])'
               /\ FilledFrom(config[copyOf[j]], config[j], Zone)'
    <3> DEFINE k == copyOf[j]
    <3>1. Created(j) /\ Created(k) /\ FilledFrom(config[k], config[j], Zone) /\ copyOf'[j] = k
      BY <1>3, <2>2 DEF CopyInv
    <3> HIDE DEF k
    <3>2. /\ j \in Jobs /\ jobStatus'[j] # None /\ config'[j] = config[j]
          /\ k \in Jobs /\ jobStatus'[k] # None /\ config'[k] = config[k]
      BY <1>1, <3>1 DEF ServerMoves, Created
    <3> QED
      BY <3>1, <3>2 DEF FilledFrom, Created
  <2> QED
    BY <2>1, <2>2
<1>4. ASSUME submit' = submit PROVE
        /\ submit' # None => submit' \in [input : FullForms, origin : Jobs \cup {None},
                                          id : Jobs \cup {None}]
        /\ submit' # None /\ submit'.origin # None =>
             /\ Created(submit.origin)'
             /\ FilledFrom(config[submit.origin], submit.input, Zone)'
  BY <1>2, <1>4 DEF CopyInv, FilledFrom, Created
<1>5. ASSUME UNCHANGED copyOf, submit' \in {submit, None} PROVE CopyInv'
  BY <1>3, <1>4, <1>5 DEF CopyInv
<1>6. CASE Page!handleSubmit
  <2>1. /\ submit' = [input |-> Page!buildInput, origin |-> origin, id |-> None]
        /\ UNCHANGED <<config, jobStatus, copyOf, origin>>
    BY <1>6 DEF Page!handleSubmit, Page!serverVars, Page!formVars
  <2>2. /\ Page!buildInput \in FullForms
        /\ origin # None => Created(origin) /\ FilledFrom(config[origin], Page!buildInput, Zone)
    BY BuildKeeps DEF FormInv, Created
  <2>3. origin # None => Created(origin)' /\ config'[origin] = config[origin]
    BY <2>1, <2>2 DEF Created
  <2>4. submit'.origin # None =>
             /\ Created(submit.origin)'
             /\ FilledFrom(config[submit.origin], submit.input, Zone)'
    BY <2>1, <2>2, <2>3 DEF FilledFrom, Created
  <2>5. submit' \in [input : FullForms, origin : Jobs \cup {None}, id : Jobs \cup {None}]
    BY <2>1, <2>2 DEF FormInv, Created
  <2> QED
    BY <1>3, <2>1, <2>4, <2>5 DEF CopyInv
<1>7. CASE Page!CreateServed
  <2>1. PICK j \in Page!NextId :
          /\ config' = [config EXCEPT ![j] = submit.input]
          /\ jobStatus' = [jobStatus EXCEPT ![j] = "RUNNING"]
          /\ copyOf' = [copyOf EXCEPT ![j] = submit.origin]
          /\ submit' = [submit EXCEPT !.id = j]
    BY <1>7 DEF Page!CreateServed
  <2>2. j \in Jobs /\ jobStatus[j] = None /\ copyOf[j] = None /\ submit # None
    BY <1>7 DEF Page!NextId, CopyInv, Created, Page!CreateServed
  <2>3. submit'.input = submit.input /\ submit'.origin = submit.origin
    BY <2>1, <2>2 DEF CopyInv
  <2>4. submit' \in [input : FullForms, origin : Jobs \cup {None}, id : Jobs \cup {None}]
    BY <2>1, <2>2 DEF CopyInv
  <2>5. ASSUME submit'.origin # None
        PROVE  /\ Created(submit.origin)'
               /\ FilledFrom(config[submit.origin], submit.input, Zone)'
    <3> DEFINE k == submit.origin
    <3>1. Created(k) /\ FilledFrom(config[k], submit.input, Zone)
      BY <2>2, <2>3, <2>5 DEF CopyInv
    <3> HIDE DEF k
    <3>2. k \in Jobs /\ jobStatus'[k] # None /\ config'[k] = config[k]
      BY <1>1, <3>1 DEF ServerMoves, Created
    <3> QED
      BY <2>3, <3>1, <3>2 DEF FilledFrom, Created, k
  <2>6. ASSUME NEW i \in Jobs, copyOf'[i] # None
        PROVE  /\ Created(i)' /\ Created(copyOf[i])'
               /\ FilledFrom(config[copyOf[i]], config[i], Zone)'
    <3> DEFINE k == IF i = j THEN submit.origin ELSE copyOf[i]
               c == IF i = j THEN submit.input ELSE config[i]
    <3>1. /\ Created(k) /\ FilledFrom(config[k], c, Zone)
          /\ copyOf'[i] = k /\ config'[i] = c /\ jobStatus'[i] # None
      <4>1. CASE i = j
        BY <2>1, <2>2, <2>6, <4>1, NoneApart DEF CopyInv, FormInv
      <4>2. CASE i # j
        BY <1>1, <2>1, <2>2, <2>6, <4>2 DEF CopyInv, FormInv, ServerMoves, Created
      <4> QED
        BY <4>1, <4>2
    <3> HIDE DEF k, c
    <3>2. k \in Jobs /\ jobStatus'[k] # None /\ config'[k] = config[k]
      BY <1>1, <3>1 DEF ServerMoves, Created
    <3> QED
      BY <3>1, <3>2 DEF FilledFrom, Created
  <2>7. copyOf' \in [Jobs -> Jobs \cup {None}]
    BY <2>1, <2>2 DEF CopyInv
  <2> QED
    BY <2>4, <2>5, <2>6, <2>7 DEF CopyInv
<1>8. CASE \E j \in Jobs : Page!handleSelectJob(j) \/ Page!DeleteStart(j)
  BY <1>5, <1>8 DEF Page!handleSelectJob, Page!DeleteStart, Page!mutationVars
<1>9. CASE \E f \in Edits : Page!Edit(f)
  BY <1>5, <1>9 DEF Page!Edit, Page!mutationVars
<1>10. CASE \E j \in Jobs : Page!JobEnds(j) \/ Page!Poll(j)
  BY <1>5, <1>10 DEF Page!JobEnds, Page!Poll, Page!mutationVars
<1>11. CASE \E g \in gets : Page!GetServed(g) \/ Page!GetAnswered(g) \/ Page!GetFails(g)
  BY <1>5, <1>11 DEF Page!GetServed, Page!GetAnswered, Page!GetFails, Page!mutationVars
<1>12. CASE \/ Page!MetaArrives \/ Page!PollList \/ Page!ListServed
            \/ Page!ListAnswered \/ Page!ListFails
  BY <1>5, <1>12 DEF Page!MetaArrives, Page!PollList, Page!ListServed,
     Page!ListAnswered, Page!ListFails, Page!mutationVars
<1>13. CASE \/ Page!CreateAnswered \/ Page!CreateFails
            \/ \E d \in deletes : \/ Page!DeleteServed(d) \/ Page!DeleteAnswered(d)
                                  \/ Page!DeleteFails(d)
  BY <1>5, <1>13 DEF Page!CreateAnswered, Page!CreateFails, Page!DeleteServed,
     Page!DeleteAnswered, Page!DeleteFails
<1> QED
  BY <1>6, <1>7, <1>8, <1>9, <1>10, <1>11, <1>12, <1>13 DEF Page!PageNext, Page!UserNext
----------------------------------------------------------------------------
(* What the page was told, and the lists in flight.                        *)

Tells(rows) ==
    \A j \in Jobs : /\ told[j] = "created" => rows[j] # None \/ ~Page!Alive(j)
                    /\ told[j] = "removed" => rows[j] = None

\* A list that was read before the page was told of a job is dropped; until the
\* first list has come the page is told nothing.
ToldInv ==
    /\ told \in [Jobs -> {None, "created", "removed"}]
    /\ \A j \in Jobs : told[j] = "removed" => jobStatus[j] = "REMOVED"
    /\ \A j \in Jobs : told[j] # None => jobStatus[j] # None

DeletesInv ==
    \A d \in deletes : /\ d \in [id : Jobs, done : BOOLEAN]
                       /\ d.done => jobStatus[d.id] = "REMOVED"

ListInv ==
    /\ ToldInv /\ DeletesInv
    /\ list = None => \A j \in Jobs : told[j] = None
    /\ listing # None /\ listing.answer # None =>
          listing.answer \in [Jobs -> Page!Statuses] /\ Tells(listing.answer)
    /\ list # None /\ listing = None /\ ~listFailed => Tells(list)
    /\ submit # None /\ submit.id # None => Created(submit.id)

\* Nothing is listed at the start.
LEMMA ListInit == Page!PageInit => ListInv
<1>1. Page!PageInit => ToldInv /\ DeletesInv
  BY NoneApart DEF Page!PageInit, ToldInv, DeletesInv
<1> QED
  BY <1>1, NoneApart DEF Page!PageInit, ListInv, Page!Sent

\* A status that is REMOVED stays so.
LEMMA RemovedStays ==
  ASSUME FormInv, CopyInv, Page!PageNext
  PROVE  \A j \in Jobs : jobStatus[j] = "REMOVED" => jobStatus'[j] = "REMOVED"
<1> USE DEF FormInv
<1>1. CASE \E j \in Jobs : Page!JobEnds(j)
  BY <1>1 DEF Page!JobEnds
<1>2. CASE Page!CreateServed
  BY <1>2, NoneApart DEF Page!CreateServed, Page!NextId
<1>3. CASE \E d \in deletes : Page!DeleteServed(d)
  BY <1>3 DEF Page!DeleteServed, Page!Alive
<1>4. CASE jobStatus' = jobStatus
  BY <1>4
<1>5. CASE Page!UserNext
  BY <1>4, <1>5 DEF Page!UserNext, Page!handleSelectJob, Page!DeleteStart, Page!Edit,
     Page!handleSubmit, Page!serverVars
<1>6. CASE \E g \in gets : Page!GetServed(g) \/ Page!GetAnswered(g) \/ Page!GetFails(g)
  BY <1>4, <1>6 DEF Page!GetServed, Page!GetAnswered, Page!GetFails, Page!serverVars
<1>7. CASE \/ Page!MetaArrives \/ Page!PollList \/ Page!ListServed
           \/ Page!ListAnswered \/ Page!ListFails
  BY <1>4, <1>7 DEF Page!MetaArrives, Page!PollList, Page!ListServed,
     Page!ListAnswered, Page!ListFails, Page!serverVars
<1>8. CASE \/ Page!CreateAnswered \/ Page!CreateFails \/ \E j \in Jobs : Page!Poll(j)
           \/ \E d \in deletes : Page!DeleteAnswered(d) \/ Page!DeleteFails(d)
  BY <1>4, <1>8 DEF Page!CreateAnswered, Page!CreateFails, Page!Poll,
     Page!DeleteAnswered, Page!DeleteFails, Page!serverVars
<1> QED
  BY <1>1, <1>2, <1>3, <1>5, <1>6, <1>7, <1>8 DEF Page!PageNext

\* What is listed, and what is on its way, stays true to the server.
LEMMA ListStep ==
  ASSUME FormInv, CopyInv, ListInv, Page!PageNext
  PROVE  ListInv'
<1>1. ServerMoves
  BY ServerKeeps DEF FormInv, CopyInv
<1>2. \A j \in Jobs : /\ jobStatus[j] = "REMOVED" => jobStatus'[j] = "REMOVED"
                      /\ jobStatus[j] # None => jobStatus'[j] # None
  BY <1>1, RemovedStays DEF ServerMoves
\* What was told stays true of the jobs.
<1>3. ASSUME told' = told PROVE
        /\ ToldInv'
        /\ \A rows : Tells(rows) =>
             \A j \in Jobs : /\ told'[j] = "created" => rows[j] # None \/ ~Page!Alive(j)'
                             /\ told'[j] = "removed" => rows[j] = None
  <2>1. \A j \in Jobs : told[j] # None /\ ~Page!Alive(j) => ~Page!Alive(j)'
    <3> TAKE j \in Jobs
    <3> HAVE told[j] # None /\ ~Page!Alive(j)
    <3>1. jobStatus[j] = "REMOVED"
      BY DEF ListInv, ToldInv, Page!Alive
    <3> QED
      BY <1>2, <3>1 DEF Page!Alive
  <2>2. ToldInv'
    BY <1>2, <1>3 DEF ListInv, ToldInv
  <2>3. \A rows : Tells(rows) =>
          \A j \in Jobs : /\ told'[j] = "created" => rows[j] # None \/ ~Page!Alive(j)'
                          /\ told'[j] = "removed" => rows[j] = None
    BY <1>3, <2>1, NoneApart DEF Tells
  <2> QED
    BY <2>2, <2>3
<1>4. ASSUME UNCHANGED <<told, list, listing, listFailed>> PROVE
        /\ list' = None => \A j \in Jobs : told'[j] = None
        /\ listing' # None /\ listing'.answer # None =>
              listing'.answer \in [Jobs -> Page!Statuses] /\ Tells(listing.answer)'
        /\ list' # None /\ listing' = None /\ ~listFailed' => Tells(list)'
  BY <1>3, <1>4 DEF ListInv, Tells
<1>5. ASSUME deletes' \subseteq deletes PROVE DeletesInv'
  <2> SUFFICES ASSUME NEW d \in deletes'
               PROVE  d \in [id : Jobs, done : BOOLEAN]
                      /\ (d.done => jobStatus'[d.id] = "REMOVED")
    BY DEF DeletesInv
  <2>1. d \in [id : Jobs, done : BOOLEAN] /\ (d.done => jobStatus[d.id] = "REMOVED")
    BY <1>5 DEF ListInv, DeletesInv
  <2>2. d.id \in Jobs
    BY <2>1
  <2> QED
    BY <1>2, <2>1, <2>2
<1>6. ASSUME submit' \in {submit, None} PROVE
        submit' # None /\ submit'.id # None => Created(submit.id)'
  <2>1. CASE submit' = submit
    <3> SUFFICES ASSUME submit # None, submit.id # None PROVE Created(submit.id)'
      BY <2>1
    <3>1. submit.id \in Jobs /\ jobStatus[submit.id] # None
      BY DEF ListInv, Created
    <3>2. submit'.id \in Jobs /\ jobStatus'[submit'.id] # None
      BY <1>2, <2>1, <3>1
    <3> QED
      BY <3>2 DEF Created
  <2> QED
    BY <1>6, <2>1
<1>7. ASSUME deletes' \subseteq deletes, submit' \in {submit, None},
             UNCHANGED <<told, list, listing, listFailed>>
      PROVE ListInv'
  BY <1>3, <1>4, <1>5, <1>6, <1>7 DEF ListInv
<1>8. CASE Page!PollList
  <2>1. /\ listing' = Page!Sent /\ list' = list /\ told' = told /\ submit' = submit
        /\ deletes' = deletes
    BY <1>8 DEF Page!PollList, Page!mutationVars
  <2> QED
    BY <1>3, <1>5, <1>6, <2>1, NoneApart DEF ListInv, Page!Sent
<1>9. CASE Page!ListServed
  <2>1. /\ listing' = [answer |-> Page!Rows] /\ list' = list /\ told' = told
        /\ submit' = submit /\ deletes' = deletes /\ jobStatus' = jobStatus
    BY <1>9 DEF Page!ListServed, Page!mutationVars, Page!serverVars
  <2>2. Page!Rows \in [Jobs -> Page!Statuses]
    BY DEF Page!Rows, Page!Alive, Page!Statuses, FormInv
  <2>3. \A j \in Jobs : /\ told'[j] = "created" => Page!Rows[j] # None \/ ~Page!Alive(j)'
                        /\ told'[j] = "removed" => Page!Rows[j] = None
    BY <2>1 DEF ListInv, ToldInv, Page!Rows, Page!Alive
  <2>4. listing' # None
    BY <2>1, <2>2, NoneApart
  <2> QED
    BY <1>3, <1>5, <1>6, <2>1, <2>2, <2>3, <2>4 DEF ListInv, Tells
<1>10. CASE Page!ListAnswered
  <2>1. /\ listing # None /\ listing.answer # None /\ list' = listing.answer
        /\ listing' = None /\ told' = told /\ submit' = submit /\ deletes' = deletes
    BY <1>10 DEF Page!ListAnswered, Page!mutationVars
  <2>2. Tells(list)'
    BY <1>3, <2>1 DEF ListInv, Tells
  <2> QED
    BY <1>3, <1>5, <1>6, <2>1, <2>2 DEF ListInv
<1>11. CASE Page!ListFails
  <2>1. /\ listing' = None /\ listFailed' = TRUE /\ list' = list /\ told' = told
        /\ submit' = submit /\ deletes' = deletes
    BY <1>11 DEF Page!ListFails, Page!mutationVars
  <2> QED
    BY <1>3, <1>5, <1>6, <2>1 DEF ListInv
<1>12. CASE Page!CreateAnswered
  <2>1. /\ submit # None /\ submit.id # None /\ submit' = None /\ deletes' = deletes
        /\ Page!InvalidateList /\ jobStatus' = jobStatus
        /\ told' = IF list # None /\ told[submit.id] = None
                   THEN [told EXCEPT ![submit.id] = "created"] ELSE told
    BY <1>12 DEF Page!CreateAnswered, Page!serverVars
  <2>2. Created(submit.id)
    BY <2>1 DEF ListInv
  <2>3. list # None => listing' = Page!Sent /\ list' = list
    BY <2>1 DEF Page!InvalidateList
  <2>4. CASE told' = told
    <3>1. /\ listing' \in {listing, Page!Sent} /\ listing' # None
          /\ list' = list /\ listFailed' = listFailed
      BY <2>1, NoneApart DEF Page!InvalidateList
    <3>2. listing' # None /\ listing'.answer # None =>
              listing'.answer \in [Jobs -> Page!Statuses] /\ Tells(listing.answer)'
      <4>1. CASE listing' = Page!Sent
        BY <4>1 DEF Page!Sent
      <4>2. CASE listing' = listing
        BY <1>3, <2>4, <4>2 DEF ListInv, Tells
      <4> QED
        BY <3>1, <4>1, <4>2
    <3> QED
      BY <1>3, <1>5, <2>1, <2>4, <3>1, <3>2 DEF ListInv
  <2>5. CASE told' # told
    <3>1. list # None /\ told' = [told EXCEPT ![submit.id] = "created"]
      BY <2>1, <2>5
    <3>2. ToldInv'
      BY <2>1, <2>2, <3>1 DEF ListInv, ToldInv, Created
    <3> QED
      BY <1>5, <2>1, <2>3, <3>1, <3>2, NoneApart DEF ListInv, Page!Sent
  <2> QED
    BY <2>4, <2>5
<1>13. ASSUME NEW d \in deletes, Page!DeleteAnswered(d) PROVE ListInv'
  <2>1. /\ d.done /\ submit' = submit /\ deletes' = deletes \ {d}
        /\ Page!InvalidateList /\ jobStatus' = jobStatus
        /\ told' = IF list # None THEN [told EXCEPT ![d.id] = "removed"] ELSE told
    BY <1>13 DEF Page!DeleteAnswered, Page!serverVars
  <2>2. d.id \in Jobs /\ jobStatus[d.id] = "REMOVED"
    BY <2>1 DEF ListInv, DeletesInv
  <2>3. list # None => listing' = Page!Sent /\ list' = list
    BY <2>1 DEF Page!InvalidateList
  <2>4. CASE list = None
    <3>1. /\ listing' \in {listing, Page!Sent} /\ listing' # None
          /\ list' = list /\ told' = told
      BY <2>1, <2>4, NoneApart DEF Page!InvalidateList
    <3>2. listing' # None /\ listing'.answer # None =>
              listing'.answer \in [Jobs -> Page!Statuses] /\ Tells(listing.answer)'
      <4>1. CASE listing' = Page!Sent
        BY <4>1 DEF Page!Sent
      <4>2. CASE listing' = listing
        BY <1>3, <3>1, <4>2 DEF ListInv, Tells
      <4> QED
        BY <3>1, <4>1, <4>2
    <3> QED
      BY <1>3, <1>5, <1>6, <2>1, <3>1, <3>2 DEF ListInv
  <2>5. CASE list # None
    <3>1. ToldInv'
      BY <2>1, <2>2, <2>5, NoneApart DEF ListInv, ToldInv
    <3> QED
      BY <1>5, <1>6, <2>1, <2>3, <2>5, <3>1, NoneApart DEF ListInv, Page!Sent
  <2> QED
    BY <2>4, <2>5
<1>14. CASE Page!handleSubmit
  <2>1. /\ submit'.id = None /\ deletes' = deletes
        /\ UNCHANGED <<told, list, listing, listFailed>>
    BY <1>14 DEF Page!handleSubmit, Page!listVars
  <2> QED
    BY <1>3, <1>4, <1>5, <2>1 DEF ListInv
<1>15. CASE Page!CreateServed
  <2>1. PICK j \in Page!NextId :
          /\ jobStatus' = [jobStatus EXCEPT ![j] = "RUNNING"]
          /\ submit' = [submit EXCEPT !.id = j]
    BY <1>15 DEF Page!CreateServed
  <2>2. /\ submit # None /\ deletes' = deletes /\ UNCHANGED <<told, list, listing, listFailed>>
    BY <1>15 DEF Page!CreateServed, Page!listVars
  <2>3. j \in Jobs
    BY DEF Page!NextId
  <2>4. submit'.id = j /\ Created(j)'
    BY <2>1, <2>2, <2>3, NoneApart DEF CopyInv, FormInv, Created
  <2>5. Created(submit.id)'
    BY <2>4 DEF Created
  <2> QED
    BY <1>3, <1>4, <1>5, <2>2, <2>5 DEF ListInv
<1>16. ASSUME NEW j \in Jobs, Page!DeleteStart(j) PROVE ListInv'
  <2>1. /\ deletes' = deletes \cup {[id |-> j, done |-> FALSE]} /\ submit' = submit
        /\ UNCHANGED <<told, list, listing, listFailed>>
    BY <1>16 DEF Page!DeleteStart, Page!listVars
  <2>2. DeletesInv'
    <3>1. ASSUME NEW d \in deletes
          PROVE  d \in [id : Jobs, done : BOOLEAN] /\ (d.done => jobStatus'[d.id] = "REMOVED")
      BY <1>2 DEF ListInv, DeletesInv
    <3>2. ASSUME NEW d, d = [id |-> j, done |-> FALSE]
          PROVE  d \in [id : Jobs, done : BOOLEAN] /\ ~d.done
      BY <3>2
    <3> QED
      BY <2>1, <3>1, <3>2 DEF DeletesInv
  <2> QED
    BY <1>3, <1>4, <1>6, <2>1, <2>2 DEF ListInv
<1>17. ASSUME NEW d \in deletes, Page!DeleteServed(d) PROVE ListInv'
  <2>1. /\ deletes' = (deletes \ {d}) \cup {[d EXCEPT !.done = TRUE]} /\ submit' = submit
        /\ jobStatus' = [jobStatus EXCEPT ![d.id] = "REMOVED"]
        /\ UNCHANGED <<told, list, listing, listFailed>>
    BY <1>17 DEF Page!DeleteServed, Page!listVars
  <2>2. DeletesInv'
    <3>1. \A e \in deletes : e.id \in Jobs /\ (e.done => jobStatus'[e.id] = "REMOVED")
      BY <1>2 DEF ListInv, DeletesInv
    <3> QED
      BY <2>1, <3>1 DEF ListInv, DeletesInv, FormInv
  <2> QED
    BY <1>3, <1>4, <1>6, <2>1, <2>2 DEF ListInv
<1>18. CASE \E j \in Jobs : Page!handleSelectJob(j)
  BY <1>7, <1>18 DEF Page!handleSelectJob, Page!mutationVars, Page!listVars
<1>19. CASE \E f \in Edits : Page!Edit(f)
  BY <1>7, <1>19 DEF Page!Edit, Page!mutationVars, Page!listVars
<1>20. CASE \E j \in Jobs : Page!JobEnds(j) \/ Page!Poll(j)
  BY <1>7, <1>20 DEF Page!JobEnds, Page!Poll, Page!mutationVars, Page!listVars
<1>21. CASE \E g \in gets : Page!GetServed(g) \/ Page!GetAnswered(g) \/ Page!GetFails(g)
  BY <1>7, <1>21 DEF Page!GetServed, Page!GetAnswered, Page!GetFails, Page!mutationVars,
     Page!listVars
<1>22. CASE \/ Page!MetaArrives \/ Page!CreateFails
            \/ \E d \in deletes : Page!DeleteFails(d)
  BY <1>7, <1>22 DEF Page!MetaArrives, Page!CreateFails, Page!DeleteFails,
     Page!mutationVars, Page!listVars
<1> QED
  BY <1>8, <1>9, <1>10, <1>11, <1>12, <1>13, <1>14, <1>15, <1>16, <1>17, <1>18, <1>19,
     <1>20, <1>21, <1>22 DEF Page!PageNext, Page!UserNext
----------------------------------------------------------------------------
(* Answers about one job.                                                  *)

\* One request for a job is in flight at a time, so its answer is not older than
\* what is known; and nothing known is ahead of the server.
GetsInv ==
    /\ cache \in [Jobs -> Page!Statuses]
    /\ gets \subseteq [id : Jobs, status : Page!Statuses]
    /\ \A g, h \in gets : g.id = h.id => g = h
    /\ \A j \in Jobs : cache[j] # None =>
          jobStatus[j] # None /\ (Page!Alive(j) => Page!Rank(jobStatus[j]) >= Page!Rank(cache[j]))
    /\ \A g \in gets : g.status # None =>
          /\ jobStatus[g.id] # None
          /\ Page!Alive(g.id) => Page!Rank(jobStatus[g.id]) >= Page!Rank(g.status)
          /\ Page!Rank(g.status) >= Page!Rank(cache[g.id])

\* A place in the order is a number.
LEMMA RankIsNat ==
  /\ \A s : Page!Rank(s) \in 0..2
  /\ Page!Rank(None) = 0 /\ Page!Rank("RUNNING") = 1 /\ Page!Rank("COMPLETED") = 2
BY NoneApart DEF Page!Rank

\* The server's jobs only go forward.
LEMMA ServerForward ==
  ASSUME FormInv, CopyInv, Page!PageNext
  PROVE  \A j \in Jobs : jobStatus[j] # None /\ Page!Alive(j)' =>
            Page!Alive(j) /\ Page!Rank(jobStatus'[j]) >= Page!Rank(jobStatus[j])
<1> USE DEF FormInv
<1>0. \A s : Page!Rank(s) >= Page!Rank(s)
  BY RankIsNat
<1>1. CASE \E j \in Jobs : Page!JobEnds(j)
  BY <1>0, <1>1, RankIsNat, NoneApart DEF Page!JobEnds, Page!Alive
<1>2. CASE Page!CreateServed
  BY <1>0, <1>2, NoneApart DEF Page!CreateServed, Page!NextId, Page!Alive
<1>3. CASE \E d \in deletes : Page!DeleteServed(d)
  BY <1>0, <1>3, NoneApart DEF Page!DeleteServed, Page!Alive
<1>4. CASE jobStatus' = jobStatus
  BY <1>0, <1>4 DEF Page!Alive
<1>5. CASE Page!UserNext
  BY <1>4, <1>5 DEF Page!UserNext, Page!handleSelectJob, Page!DeleteStart, Page!Edit,
     Page!handleSubmit, Page!serverVars
<1>6. CASE \E g \in gets : Page!GetServed(g) \/ Page!GetAnswered(g) \/ Page!GetFails(g)
  BY <1>4, <1>6 DEF Page!GetServed, Page!GetAnswered, Page!GetFails, Page!serverVars
<1>7. CASE \/ Page!MetaArrives \/ Page!PollList \/ Page!ListServed
           \/ Page!ListAnswered \/ Page!ListFails
  BY <1>4, <1>7 DEF Page!MetaArrives, Page!PollList, Page!ListServed,
     Page!ListAnswered, Page!ListFails, Page!serverVars
<1>8. CASE \/ Page!CreateAnswered \/ Page!CreateFails \/ \E j \in Jobs : Page!Poll(j)
           \/ \E d \in deletes : Page!DeleteAnswered(d) \/ Page!DeleteFails(d)
  BY <1>4, <1>8 DEF Page!CreateAnswered, Page!CreateFails, Page!Poll,
     Page!DeleteAnswered, Page!DeleteFails, Page!serverVars
<1> QED
  BY <1>1, <1>2, <1>3, <1>5, <1>6, <1>7, <1>8 DEF Page!PageNext

\* How a step leaves what is known: as it is but for new requests, or with one
\* that is served, answered or lost.
LEMMA GetsStep ==
  ASSUME FormInv, CopyInv, ListInv, GetsInv, Page!PageNext
  PROVE  GetsInv'
<1>0. \A j \in Jobs : /\ jobStatus[j] # None => jobStatus'[j] # None
                      /\ jobStatus[j] # None /\ Page!Alive(j)' =>
                           /\ Page!Alive(j)
                           /\ Page!Rank(jobStatus'[j]) >= Page!Rank(jobStatus[j])
  <2>1. ServerMoves
    BY ServerKeeps DEF FormInv, CopyInv
  <2> QED
    BY <2>1, ServerForward DEF ServerMoves
\* What holds of a status, known or in an answer, goes on to hold.
<1>1. ASSUME NEW j \in Jobs, NEW s, jobStatus[j] # None,
             Page!Alive(j) => Page!Rank(jobStatus[j]) >= Page!Rank(s)
      PROVE  /\ jobStatus'[j] # None
             /\ Page!Alive(j)' => Page!Rank(jobStatus'[j]) >= Page!Rank(s)
  BY <1>0, <1>1, RankIsNat
<1>2. ASSUME cache' = cache PROVE
        /\ cache' \in [Jobs -> Page!Statuses]
        /\ \A j \in Jobs : cache'[j] # None =>
              /\ jobStatus'[j] # None
              /\ Page!Alive(j)' => Page!Rank(jobStatus'[j]) >= Page!Rank(cache'[j])
  BY <1>1, <1>2 DEF GetsInv
<1>3. ASSUME NEW g \in gets, cache' = cache, g.status # None
      PROVE  /\ jobStatus'[g.id] # None
             /\ Page!Alive(g.id)' => Page!Rank(jobStatus'[g.id]) >= Page!Rank(g.status)
             /\ Page!Rank(g.status) >= Page!Rank(cache'[g.id])
  BY <1>1, <1>3 DEF GetsInv
<1>4. ASSUME gets' \subseteq gets, cache' = cache PROVE GetsInv'
  BY <1>2, <1>3, <1>4 DEF GetsInv
<1>5. ASSUME NEW j \in Jobs, cache' = cache,
             gets' = gets \/ (~Page!InFlight(j) /\ gets' = gets \cup {Page!Request(j)})
      PROVE  GetsInv'
  <2>1. CASE gets' = gets
    BY <1>4, <1>5, <2>1
  <2>2. CASE ~Page!InFlight(j) /\ gets' = gets \cup {Page!Request(j)}
    <3> DEFINE r == Page!Request(j)
    <3>1. /\ r \in [id : Jobs, status : Page!Statuses] /\ r.id = j /\ r.status = None
          /\ \A g \in gets : g.id # j
      BY <2>2 DEF Page!Request, Page!InFlight, Page!Statuses
    <3>2. gets' = gets \cup {r}
      BY <2>2
    <3> HIDE DEF r
    <3>3. gets' \subseteq [id : Jobs, status : Page!Statuses]
      BY <3>1, <3>2 DEF GetsInv
    <3>4. \A g, h \in gets' : g.id = h.id => g = h
      BY <3>1, <3>2 DEF GetsInv
    <3>5. \A g \in gets' : g.status # None => g \in gets
      BY <3>1, <3>2
    <3> QED
      BY <1>2, <1>3, <1>5, <3>3, <3>4, <3>5 DEF GetsInv
  <2> QED
    BY <1>5, <2>1, <2>2
<1>6. ASSUME NEW g \in gets, Page!GetServed(g) PROVE GetsInv'
  <2>1. cache' = cache /\ jobStatus' = jobStatus /\ g.id \in Jobs /\ g.status = None
    BY <1>6 DEF Page!GetServed, Page!serverVars, GetsInv
  <2>2. CASE ~Page!Alive(g.id)
    BY <1>4, <1>6, <2>1, <2>2 DEF Page!GetServed
  <2>3. CASE Page!Alive(g.id)
    <3> DEFINE r == [g EXCEPT !.status = jobStatus[g.id]]
    <3>1. /\ r \in [id : Jobs, status : Page!Statuses] /\ r.id = g.id
          /\ r.status = jobStatus[g.id] /\ jobStatus[g.id] # None
      BY <2>1, <2>3 DEF GetsInv, FormInv, Page!Alive, Page!Statuses
    <3>2. gets' = (gets \ {g}) \cup {r}
      BY <1>6, <2>3 DEF Page!GetServed
    <3> HIDE DEF r
    <3>3. gets' \subseteq [id : Jobs, status : Page!Statuses]
      BY <3>1, <3>2 DEF GetsInv
    <3>4. \A h, k \in gets' : h.id = k.id => h = k
      BY <3>1, <3>2 DEF GetsInv
    <3>5. Page!Rank(r.status) >= Page!Rank(cache[g.id])
      <4>1. CASE cache[g.id] = None
        BY <4>1, RankIsNat
      <4>2. CASE cache[g.id] # None
        BY <2>1, <2>3, <3>1, <4>2 DEF GetsInv
      <4> QED
        BY <4>1, <4>2
    <3>6. \A h \in gets' : h.status # None =>
             /\ jobStatus'[h.id] # None
             /\ Page!Alive(h.id)' => Page!Rank(jobStatus'[h.id]) >= Page!Rank(h.status)
             /\ Page!Rank(h.status) >= Page!Rank(cache'[h.id])
      <4> SUFFICES ASSUME NEW h \in gets', h.status # None
                   PROVE  /\ jobStatus'[h.id] # None
                          /\ Page!Alive(h.id)' =>
                               Page!Rank(jobStatus'[h.id]) >= Page!Rank(h.status)
                          /\ Page!Rank(h.status) >= Page!Rank(cache'[h.id])
        OBVIOUS
      <4>1. CASE h = r
        BY <2>1, <3>1, <3>5, <4>1, RankIsNat
      <4>2. CASE h \in gets
        BY <1>3, <2>1, <4>2
      <4> QED
        BY <3>2, <4>1, <4>2
    <3> QED
      BY <1>2, <2>1, <3>3, <3>4, <3>6 DEF GetsInv
  <2> QED
    BY <2>2, <2>3
<1>7. ASSUME NEW g \in gets, Page!GetAnswered(g) PROVE GetsInv'
  <2>1. /\ g.status # None /\ cache' = [cache EXCEPT ![g.id] = g.status]
        /\ gets' = gets \ {g} /\ jobStatus' = jobStatus
    BY <1>7 DEF Page!GetAnswered, Page!serverVars
  <2>2. g.id \in Jobs /\ g.status \in Page!Statuses /\ \A h \in gets' : h.id # g.id
    BY <2>1 DEF GetsInv
  <2>3. cache' \in [Jobs -> Page!Statuses] /\ \A j \in Jobs : j # g.id => cache'[j] = cache[j]
    BY <2>1, <2>2 DEF GetsInv
  <2>4. \A j \in Jobs : cache'[j] # None =>
          /\ jobStatus'[j] # None
          /\ Page!Alive(j)' => Page!Rank(jobStatus'[j]) >= Page!Rank(cache'[j])
    <3> SUFFICES ASSUME NEW j \in Jobs, cache'[j] # None
                 PROVE  /\ jobStatus'[j] # None
                        /\ Page!Alive(j)' => Page!Rank(jobStatus'[j]) >= Page!Rank(cache'[j])
      OBVIOUS
    <3>1. CASE j = g.id
      BY <1>1, <2>1, <2>2, <3>1 DEF GetsInv
    <3>2. CASE j # g.id
      BY <1>1, <2>3, <3>2 DEF GetsInv
    <3> QED
      BY <3>1, <3>2
  <2>5. \A h \in gets' : h.status # None =>
           /\ jobStatus'[h.id] # None
           /\ Page!Alive(h.id)' => Page!Rank(jobStatus'[h.id]) >= Page!Rank(h.status)
           /\ Page!Rank(h.status) >= Page!Rank(cache'[h.id])
    BY <1>1, <2>1, <2>2, <2>3 DEF GetsInv
  <2> QED
    BY <2>1, <2>3, <2>4, <2>5 DEF GetsInv
<1>8. CASE \E j \in Jobs : Page!handleSelectJob(j) \/ Page!Poll(j)
  BY <1>5, <1>8 DEF Page!handleSelectJob, Page!Poll, Page!Observe
<1>9. CASE Page!CreateAnswered
  <2>1. submit.id \in Jobs /\ Page!Observe(submit.id) /\ cache' = cache
    BY <1>9 DEF Page!CreateAnswered, ListInv, Created
  <2> QED
    BY <1>5, <2>1 DEF Page!Observe
<1>10. CASE \E j \in Jobs : Page!JobEnds(j) \/ Page!DeleteStart(j)
  BY <1>4, <1>10 DEF Page!JobEnds, Page!DeleteStart, Page!detailVars
<1>11. CASE Page!handleSubmit \/ \E f \in Edits : Page!Edit(f)
  BY <1>4, <1>11 DEF Page!handleSubmit, Page!Edit, Page!detailVars
<1>12. CASE \E g \in gets : Page!GetFails(g)
  BY <1>4, <1>12 DEF Page!GetFails
<1>13. CASE \/ Page!MetaArrives \/ Page!PollList \/ Page!ListServed
            \/ Page!ListAnswered \/ Page!ListFails
  BY <1>4, <1>13 DEF Page!MetaArrives, Page!PollList, Page!ListServed,
     Page!ListAnswered, Page!ListFails, Page!detailVars
<1>14. CASE \/ Page!CreateServed \/ Page!CreateFails
            \/ \E d \in deletes : \/ Page!DeleteServed(d) \/ Page!DeleteAnswered(d)
                                  \/ Page!DeleteFails(d)
  BY <1>4, <1>14 DEF Page!CreateServed, Page!CreateFails, Page!DeleteServed,
     Page!DeleteAnswered, Page!DeleteFails, Page!detailVars
<1> QED
  BY <1>6, <1>7, <1>8, <1>9, <1>10, <1>11, <1>12, <1>13, <1>14
     DEF Page!PageNext, Page!UserNext

PageInv == FormInv /\ CopyInv /\ ListInv /\ GetsInv

\* The invariant of the page holds as it opens.
LEMMA PageInitIsGood == Page!PageInit => PageInv
<1>1. Page!PageInit => GetsInv
  BY NoneApart DEF Page!PageInit, GetsInv, Page!Statuses
<1> QED
  BY <1>1, FormInit, ListInit DEF PageInv

\* It holds in every state.
LEMMA PageInvStays == ComputeSpec => []PageInv
<1>1. PageInv /\ [Page!PageNext]_(Page!pageVars) => PageInv'
  <2> SUFFICES ASSUME PageInv, [Page!PageNext]_(Page!pageVars) PROVE PageInv'
    OBVIOUS
  <2>1. CASE Page!PageNext
    BY <2>1, FormStep, CopyStep, ListStep, GetsStep DEF PageInv
  <2>2. CASE UNCHANGED Page!pageVars
    <3>1. UNCHANGED <<form, origin, config, jobStatus, list, listing, listFailed, submit,
                      copyOf, told, deletes, cache, gets>>
      BY <2>2 DEF Page!pageVars, Page!serverVars, Page!formVars, Page!listVars,
         Page!detailVars, Page!mutationVars
    <3>2. FormInv'
      BY <3>1 DEF PageInv, FormInv, Known, Created, FilledFrom
    <3>3. CopyInv'
      BY <3>1 DEF PageInv, CopyInv, Created, FilledFrom
    <3>4. ToldInv' /\ DeletesInv'
      BY <3>1 DEF PageInv, ListInv, ToldInv, DeletesInv
    <3>5. ListInv'
      BY <3>1, <3>4 DEF PageInv, ListInv, Tells, Page!Alive, Created
    <3>6. GetsInv'
      BY <3>1 DEF PageInv, GetsInv, Page!Alive
    <3> QED
      BY <3>2, <3>3, <3>5, <3>6 DEF PageInv
  <2> QED
    BY <2>1, <2>2
<1> QED
  BY <1>1, PageInitIsGood, PageRuns, PTL DEF Page!PageSpec

\* However late or lost its answers are, the page sends a job that is clicked
\* again as the server has it, a list it shows has all it was told of, and no
\* status it shows goes back: for any forms, jobs and defaults.
THEOREM PageStaysTrue == ComputeSpec => []PageIsTrue
<1>1. PageInv => PageIsTrue
  <2> SUFFICES ASSUME PageInv PROVE PageIsTrue
    OBVIOUS
  <2>1. Page!RerunIsTheJob
    BY DEF PageInv, CopyInv, Page!RerunIsTheJob, FilledFrom
  <2>2. Page!ListIsTrue
    BY DEF PageInv, ListInv, Tells, Page!ListIsTrue
  <2>3. Page!ShownGoesForward
    BY DEF PageInv, GetsInv, Page!ShownGoesForward
  <2> QED
    BY <2>1, <2>2, <2>3 DEF PageIsTrue, Page!PageIsTrue
<1> QED
  BY <1>1, PageInvStays, PTL

----------------------------------------------------------------------------
\* The samples move or stay.
LEMMA SamplesRun == ComputeSpec => Samples!SamplesSpec
<1>1. ComputeInit => Samples!SamplesInit
  BY DEF ComputeInit
<1>2. [ComputeNext]_computeVars => [Samples!SamplesNext]_(Samples!sampleVars)
  BY DEF ComputeNext, computeVars, sampleState, Samples!sampleVars
<1> QED
  BY <1>1, <1>2, PTL DEF ComputeSpec, Samples!SamplesSpec

(* Extremes of finite sets of integers.                                    *)

\* A set of integers with a lower bound has a least element.
LEMMA Least ==
  ASSUME NEW S, S \subseteq Int, S # {}, NEW low \in Int, \A x \in S : low <= x
  PROVE  \E x \in S : \A y \in S : x <= y
<1> DEFINE T == {x - low : x \in S}
           Less == OpToRel(<, Nat)
<1>1. IsWellFoundedOn(Less, Nat)
  BY NatLessThanWellFounded
<1>2. T \subseteq Nat /\ T # {}
  <2>1. \A x \in S : x - low \in Nat
    OBVIOUS
  <2> QED
    BY <2>1
<1>3. \A x, y \in Nat : <<x, y>> \in Less <=> x < y
  BY DEF OpToRel
<1> HIDE DEF Less
<1>4. PICK t \in T : \A u \in T : ~(<<u, t>> \in Less)
  BY <1>1, <1>2, WFMin
<1>5. PICK x \in S : t = x - low
  OBVIOUS
<1>6. ASSUME NEW y \in S PROVE x <= y
  <2>1. y - low \in T /\ t \in Nat /\ y - low \in Nat
    BY <1>2
  <2>2. ~(y - low < t)
    BY <1>3, <1>4, <2>1
  <2> QED
    BY <1>5, <1>6, <2>1, <2>2
<1> QED
  BY <1>6
\* A set of integers with an upper bound has a greatest element.
LEMMA Greatest ==
  ASSUME NEW S, S \subseteq Int, S # {}, NEW high \in Int, \A x \in S : x <= high
  PROVE  \E x \in S : \A y \in S : y <= x
<1> DEFINE T == {-x : x \in S}
<1>1. T \subseteq Int /\ T # {} /\ -high \in Int /\ \A t \in T : -high <= t
  <2>1. \A x \in S : -x \in Int /\ -high <= -x
    OBVIOUS
  <2>2. T \subseteq Int /\ \A t \in T : -high <= t
    BY <2>1
  <2>3. T # {}
    OBVIOUS
  <2>4. -high \in Int
    OBVIOUS
  <2> QED
    BY <2>2, <2>3, <2>4
<1> HIDE DEF T
<1>2. PICK t \in T : \A u \in T : t <= u
  BY <1>1, Least
<1>3. PICK x \in S : t = -x
  BY DEF T
<1>4. \A y \in S : -x <= -y
  BY <1>2, <1>3 DEF T
<1> QED
  BY <1>4

\* The smaller of two.
LEMMA MinOfTwo ==
  ASSUME NEW a \in Int, NEW b \in Int
  PROVE  Samples!Min({a, b}) = IF a <= b THEN a ELSE b
BY DEF Samples!Min

\* The greater of two.
LEMMA MaxOfTwo ==
  ASSUME NEW a \in Int, NEW b \in Int
  PROVE  Samples!Max({a, b}) = IF a <= b THEN b ELSE a
BY DEF Samples!Max

\* One cardinality: of the instance and of the library.
LEMMA SamplesCardinality == \A S : Samples!Cardinality(S) = Cardinality(S)
BY DEF Samples!Cardinality, Cardinality

----------------------------------------------------------------------------
(* A page: the first so many of the candles that are listed.               *)

FirstOf(L, n) == {t \in L : Cardinality({u \in L : u < t}) < n}

\* The first n of a set are not more than n, and all of it if they are fewer.
LEMMA FirstMany ==
  ASSUME NEW L, L \subseteq Int, IsFiniteSet(L), NEW low \in Int, NEW high \in Int,
         \A t \in L : low <= t /\ t <= high, NEW n \in Nat \ {0}
  PROVE  /\ Cardinality(FirstOf(L, n)) \in 0..n
         /\ \A t \in L \ FirstOf(L, n), u \in FirstOf(L, n) : u < t
         /\ Cardinality(FirstOf(L, n)) < n => FirstOf(L, n) = L
<1> DEFINE P == FirstOf(L, n)
           Below(t) == {u \in L : u < t}
<1>0. \A t \in L : t \in Int
  OBVIOUS
<1>1. IsFiniteSet(P) /\ Cardinality(P) \in Nat /\ P \subseteq L
  BY FS_Subset, FS_CardinalityType DEF FirstOf
<1>2. \A t : IsFiniteSet(Below(t)) /\ Cardinality(Below(t)) \in Nat
  <2> TAKE t
  <2>1. Below(t) \in SUBSET L
    OBVIOUS
  <2> QED
    BY <2>1, FS_Subset, FS_CardinalityType
<1>3. ASSUME NEW t \in L, NEW u \in P, t <= u PROVE t \in P
  <2>1. u \in L /\ Below(t) \subseteq Below(u)
    <3>1. u \in L
      BY <1>1
    <3>2. \A x \in L : x < t => x < u
      BY <1>0, <1>3, <3>1
    <3> QED
      BY <3>1, <3>2
  <2>2. Cardinality(Below(t)) <= Cardinality(Below(u))
    BY <1>2, <2>1, FS_Subset
  <2>3. Cardinality(Below(u)) < n
    BY DEF FirstOf
  <2>4. Cardinality(Below(t)) < n
    BY <1>2, <2>2, <2>3
  <2> QED
    BY <2>4 DEF FirstOf
<1>4. \A t \in L \ P, u \in P : u < t
  <2> SUFFICES ASSUME NEW t \in L \ P, NEW u \in P PROVE u < t
    OBVIOUS
  <2>1. t \in Int /\ u \in Int
    BY <1>0, <1>1
  <2>2. ~(t <= u)
    BY <1>3
  <2> QED
    BY <2>1, <2>2
<1>5. Cardinality(P) <= n
  <2>1. CASE P = {}
    BY <2>1, FS_EmptySet
  <2>2. CASE P # {}
    <3>1. PICK m \in P : \A u \in P : u <= m
      BY <1>1, <2>2, Greatest
    <3>2. P \ {m} \subseteq Below(m)
      <4> SUFFICES ASSUME NEW u \in P, u # m PROVE u \in L /\ u < m
        OBVIOUS
      <4>1. u \in L /\ u \in Int /\ m \in Int /\ u <= m
        BY <1>0, <1>1, <3>1
      <4> QED
        BY <4>1
    <3>3. Cardinality(P \ {m}) = Cardinality(P) - 1
      BY <1>1, FS_RemoveElement
    <3>4. Cardinality(P \ {m}) <= Cardinality(Below(m))
      BY <1>2, <3>2, FS_Subset
    <3>5. Cardinality(Below(m)) < n
      BY DEF FirstOf
    <3> QED
      BY <1>1, <1>2, <3>3, <3>4, <3>5
  <2> QED
    BY <2>1, <2>2
<1>6. ASSUME Cardinality(P) < n, L \ P # {} PROVE FALSE
  <2>1. PICK t \in L \ P : \A u \in L \ P : t <= u
    BY <1>6, Least
  <2>2. Below(t) \subseteq P
    <3> SUFFICES ASSUME NEW u \in L, u < t, u \notin P PROVE FALSE
      OBVIOUS
    <3>1. t <= u /\ t \in Int /\ u \in Int
      BY <1>0, <2>1
    <3> QED
      BY <3>1
  <2>3. Cardinality(Below(t)) <= Cardinality(P)
    BY <1>1, <2>2, FS_Subset
  <2>4. ~(Cardinality(Below(t)) < n)
    BY <2>1 DEF FirstOf
  <2> QED
    BY <1>1, <1>2, <1>6, <2>3, <2>4
<1> QED
  BY <1>1, <1>4, <1>5, <1>6

\* A page from since on: it is full, or it is all that is listed; a full one goes
\* on by Limit candles at least, and has all that is listed before its end.
LEMMA PageReads ==
  ASSUME NEW since \in Int, now \in Int
  PROVE  LET page == Samples!Page(since) IN
         /\ page \subseteq {t \in Samples!Listed : t >= since}
         /\ Cardinality(page) # Limit => page = {t \in Samples!Listed : t >= since}
         /\ page # {} => /\ Samples!After(page) \in Int /\ since < Samples!After(page)
                         /\ \A t \in Samples!Listed :
                               since <= t /\ t < Samples!After(page) => t \in page
         /\ Cardinality(page) = Limit => page # {} /\ since + Limit <= Samples!After(page)
<1> DEFINE L == {t \in Samples!Listed : t >= since}
           page == Samples!Page(since)
<1>0. Start \in Int /\ Horizon \in Int /\ Limit \in Nat \ {0}
  BY SamplesAssumption
<1>1. L \subseteq Int /\ \A t \in L : since <= t /\ t <= Horizon
  BY <1>0 DEF Samples!Listed, Samples!Times
<1>2. IsFiniteSet(L)
  <2>1. L \subseteq Start..Horizon
    BY DEF Samples!Listed, Samples!Times
  <2> QED
    BY <1>0, <2>1, FS_Interval, FS_Subset
<1>3. page = FirstOf(L, Limit)
  <2>1. \A t : {u \in Samples!Listed : since <= u /\ u < t} = {u \in L : u < t}
    BY <1>0 DEF Samples!Listed, Samples!Times
  <2> QED
    BY <2>1, SamplesCardinality DEF Samples!Page, FirstOf
<1>4. /\ Cardinality(page) \in 0..Limit /\ page \subseteq L
      /\ \A t \in L \ page, u \in page : u < t
      /\ Cardinality(page) < Limit => page = L
  <2>1. page \subseteq L
    BY <1>3 DEF FirstOf
  <2> HIDE DEF L, page
  <2> QED
    BY <1>0, <1>1, <1>2, <1>3, <2>1, FirstMany
<1>5. ASSUME page # {}
      PROVE  /\ Samples!After(page) - 1 \in page
             /\ \A u \in page : u <= Samples!After(page) - 1
             /\ Samples!After(page) \in Int
  <2>1. PICK m \in page : \A u \in page : u <= m
    BY <1>0, <1>1, <1>4, <1>5, Greatest
  <2>2. Samples!Max(page) = m
    BY <1>1, <1>4, <2>1 DEF Samples!Max
  <2> QED
    BY <1>1, <1>4, <2>1, <2>2 DEF Samples!After
<1>6. ASSUME page # {}
      PROVE  /\ Samples!After(page) \in Int /\ since < Samples!After(page)
             /\ \A t \in Samples!Listed :
                    since <= t /\ t < Samples!After(page) => t \in page
  <2>1. since <= Samples!After(page) - 1
    BY <1>1, <1>4, <1>5, <1>6
  <2>2. ASSUME NEW t \in Samples!Listed, since <= t, t < Samples!After(page)
        PROVE  t \in page
    <3>1. t \in L /\ t \in Int
      BY <1>1, <2>2 DEF Samples!Listed, Samples!Times
    <3>2. ~(Samples!After(page) - 1 < t)
      BY <1>5, <1>6, <2>2, <3>1
    <3> QED
      BY <1>4, <1>5, <1>6, <3>1, <3>2
  <2> QED
    BY <1>5, <1>6, <2>1, <2>2
<1>7. ASSUME Cardinality(page) = Limit
      PROVE  page # {} /\ since + Limit <= Samples!After(page)
  <2>1. page # {}
    BY <1>0, <1>7, FS_EmptySet
  <2> DEFINE m == Samples!After(page) - 1
  <2>2. m \in Int /\ page \subseteq since..m /\ since <= m
    BY <1>1, <1>4, <1>5, <2>1
  <2>3. Cardinality(page) <= Cardinality(since..m) /\ Cardinality(since..m) = m - since + 1
    <3> HIDE DEF m
    <3> QED
      BY <2>2, FS_Interval, FS_Subset
  <2>4. Samples!After(page) \in Int
    BY <1>5, <2>1
  <2> HIDE DEF page
  <2> QED
    BY <1>0, <1>7, <2>1, <2>3, <2>4
<1> HIDE DEF page
<1>8. Cardinality(page) # Limit => page = L
  BY <1>0, <1>4
<1> QED
  BY <1>4, <1>6, <1>7, <1>8 DEF page

----------------------------------------------------------------------------
(* The ranks of a score.                                                   *)

Before(score, c) ==
    {d \in DOMAIN score : score[d] > score[c] \/ (score[d] = score[c] /\ d < c)}
RankOf(score, c) == 1 + Samples!Cardinality(Before(score, c))

\* Each has a rank of its own, and the ranks are all taken.
LEMMA RanksAreTaken ==
  ASSUME NEW n \in Nat, NEW score \in [1..n -> Nat]
  PROVE  /\ \A c \in 1..n : RankOf(score, c) \in 1..n
         /\ \A c \in 1..n : \A d \in Before(score, c) : RankOf(score, d) < RankOf(score, c)
         /\ \A c, d \in 1..n : c # d => c \in Before(score, d) \/ d \in Before(score, c)
         /\ \A i \in 1..n : \E c \in 1..n : RankOf(score, c) = i
<1>1. DOMAIN score = 1..n /\ \A c \in 1..n : score[c] \in Nat /\ c \in Nat
  OBVIOUS
<1>2. IsFiniteSet(1..n) /\ Cardinality(1..n) = n
  BY FS_Interval
<1>3. ASSUME NEW c \in 1..n
      PROVE  /\ Before(score, c) \subseteq (1..n) \ {c}
             /\ IsFiniteSet(Before(score, c)) /\ Cardinality(Before(score, c)) \in 0..(n - 1)
             /\ RankOf(score, c) = 1 + Cardinality(Before(score, c))
  <2>1. Before(score, c) \in SUBSET ((1..n) \ {c})
    BY <1>1 DEF Before
  <2>2. IsFiniteSet((1..n) \ {c}) /\ Cardinality((1..n) \ {c}) = n - 1
    BY <1>2, FS_RemoveElement
  <2>3. IsFiniteSet(Before(score, c)) /\ Cardinality(Before(score, c)) <= n - 1
    BY <2>1, <2>2, FS_Subset
  <2>4. Cardinality(Before(score, c)) \in Nat
    BY <2>3, FS_CardinalityType
  <2> QED
    BY <2>1, <2>3, <2>4, SamplesCardinality DEF RankOf
<1>4. \A c \in 1..n : RankOf(score, c) \in 1..n
  <2> TAKE c \in 1..n
  <2> DEFINE b == Cardinality(Before(score, c))
  <2>1. RankOf(score, c) = 1 + b /\ b \in 0..(n - 1)
    BY <1>3
  <2> HIDE DEF b
  <2> QED
    BY <2>1
<1>5. ASSUME NEW c \in 1..n, NEW d \in Before(score, c)
      PROVE  RankOf(score, d) < RankOf(score, c)
  <2>1. d \in 1..n
    BY <1>1 DEF Before
  <2>2. Before(score, d) \subseteq Before(score, c) \ {d}
    BY <1>1, <2>1 DEF Before
  <2> DEFINE B(x) == Before(score, x)
  <2>3. /\ IsFiniteSet(B(c)) /\ IsFiniteSet(B(d)) /\ Cardinality(B(c)) \in Nat
        /\ Cardinality(B(d)) \in Nat
        /\ RankOf(score, c) = 1 + Cardinality(B(c))
        /\ RankOf(score, d) = 1 + Cardinality(B(d))
    BY <1>3, <2>1
  <2>4. B(d) \in SUBSET B(c) /\ B(d) # B(c)
    BY <2>2
  <2>5. Cardinality(B(d)) <= Cardinality(B(c)) /\ Cardinality(B(c)) # Cardinality(B(d))
    <3> HIDE DEF B
    <3> QED
      BY <2>3, <2>4, FS_Subset
  <2> HIDE DEF B
  <2> QED
    BY <2>3, <2>5
<1>6. \A c, d \in 1..n : c # d => c \in Before(score, d) \/ d \in Before(score, c)
  BY <1>1 DEF Before
<1>7. \A i \in 1..n : \E c \in 1..n : RankOf(score, c) = i
  <2> DEFINE f == [c \in 1..n |-> RankOf(score, c)]
  <2>1. f \in [1..n -> 1..n]
    BY <1>4
  <2>2. \A c, d \in 1..n : f[c] = f[d] => c = d
    <3> SUFFICES ASSUME NEW c \in 1..n, NEW d \in 1..n, c # d PROVE f[c] # f[d]
      OBVIOUS
    <3>1. RankOf(score, c) \in 1..n /\ RankOf(score, d) \in 1..n
      BY <1>4
    <3>2. RankOf(score, c) < RankOf(score, d) \/ RankOf(score, d) < RankOf(score, c)
      BY <1>5, <1>6
    <3> QED
      BY <3>1, <3>2
  <2> HIDE DEF f
  <2>3. f \in Injection(1..n, 1..n)
    BY <2>1, <2>2 DEF Injection, IsInjective
  <2>4. f \in Surjection(1..n, 1..n)
    BY <1>2, <2>3, FS_Injection
  <2>5. \A i \in 1..n : \E c \in 1..n : f[c] = i
    BY <2>4 DEF Surjection
  <2> QED
    BY <2>5 DEF f
<1> QED
  BY <1>4, <1>5, <1>6, <1>7

\* The combination at each place has that rank; so the better is before the
\* worse, and every combination has a place.
LEMMA RanksAreInOrder ==
  ASSUME NEW n \in Nat, NEW score \in [1..n -> Nat]
  PROVE  LET R == Samples!RankBy(score) IN
         /\ R \in [1..n -> 1..n]
         /\ \A i \in 1..n : RankOf(score, R[i]) = i
         /\ \A c \in 1..n : R[RankOf(score, c)] = c /\ RankOf(score, c) \in 1..n
         /\ \A i, k \in 1..n : i < k => score[R[i]] >= score[R[k]]
<1> DEFINE R == Samples!RankBy(score)
<1>1. DOMAIN score = 1..n /\ \A c \in 1..n : score[c] \in Nat /\ c \in Nat
  OBVIOUS
<1>2. R = [i \in 1..n |-> CHOOSE c \in 1..n : RankOf(score, c) = i]
  BY <1>1 DEF Samples!RankBy, RankOf, Before
<1> HIDE DEF R
<1>3. \A i \in 1..n : R[i] \in 1..n /\ RankOf(score, R[i]) = i
  BY <1>2, RanksAreTaken
<1>4. R \in [1..n -> 1..n]
  BY <1>2, <1>3
<1>5. \A c \in 1..n : R[RankOf(score, c)] = c /\ RankOf(score, c) \in 1..n
  <2> TAKE c \in 1..n
  <2> DEFINE r == RankOf(score, c)
             d == R[r]
  <2>1. r \in 1..n /\ d \in 1..n /\ RankOf(score, d) = r
    BY <1>3, RanksAreTaken
  <2>2. d # c => RankOf(score, c) < RankOf(score, d) \/ RankOf(score, d) < RankOf(score, c)
    BY <2>1, RanksAreTaken
  <2> HIDE DEF d
  <2>3. d = c
    BY <2>1, <2>2
  <2> QED
    BY <2>1, <2>3 DEF d
<1>6. ASSUME NEW i \in 1..n, NEW k \in 1..n, i < k PROVE score[R[i]] >= score[R[k]]
  <2>1. /\ R[i] \in 1..n /\ R[k] \in 1..n
        /\ RankOf(score, R[i]) = i /\ RankOf(score, R[k]) = k
    BY <1>3
  <2>2. ~(R[k] \in Before(score, R[i]))
    <3>1. R[k] \in Before(score, R[i]) => RankOf(score, R[k]) < RankOf(score, R[i])
      BY <2>1, RanksAreTaken
    <3> QED
      BY <1>6, <2>1, <3>1
  <2>3. ~(score[R[k]] > score[R[i]])
    BY <1>1, <2>1, <2>2 DEF Before
  <2> QED
    BY <1>1, <2>1, <2>3
<1> QED
  BY <1>3, <1>4, <1>5, <1>6 DEF R

\* The first places hold as many combinations as there are places, and none that
\* is not there did better.
LEMMA TopIsBest ==
  ASSUME NEW n \in Nat, NEW score \in [1..n -> Nat], NEW top \in 0..n
  PROVE  LET R == Samples!RankBy(score)
             chosen == {R[i] : i \in 1..top}
         IN /\ Cardinality(chosen) = top
            /\ \A c \in (1..n) \ chosen, b \in chosen : score[c] <= score[b]
<1> DEFINE R == Samples!RankBy(score)
           chosen == {R[i] : i \in 1..top}
<1>1. /\ R \in [1..n -> 1..n]
      /\ \A i \in 1..n : RankOf(score, R[i]) = i
      /\ \A c \in 1..n : R[RankOf(score, c)] = c /\ RankOf(score, c) \in 1..n
      /\ \A i, k \in 1..n : i < k => score[R[i]] >= score[R[k]]
  BY RanksAreInOrder
<1> HIDE DEF R
<1>2. 1..top \subseteq 1..n /\ \A i \in 1..n : i \in Int
  OBVIOUS
<1>3. Cardinality(chosen) = top
  <2> DEFINE g == [i \in 1..top |-> R[i]]
  <2>1. g \in [1..top -> chosen] /\ \A i, k \in 1..top : g[i] = g[k] => i = k
    BY <1>1, <1>2
  <2>2. \A b \in chosen : \E i \in 1..top : g[i] = b
    OBVIOUS
  <2> HIDE DEF g, chosen
  <2>3. g \in Bijection(1..top, chosen)
    BY <2>1, <2>2 DEF Bijection, Injection, IsInjective, Surjection
  <2>4. IsFiniteSet(1..top) /\ Cardinality(1..top) = top
    BY FS_Interval
  <2> QED
    BY <2>3, <2>4, FS_Bijection DEF ExistsBijection
<1>4. ASSUME NEW c \in (1..n) \ chosen, NEW b \in chosen PROVE score[c] <= score[b]
  <2>1. PICK i \in 1..top : b = R[i]
    OBVIOUS
  <2> DEFINE k == RankOf(score, c)
  <2>2. k \in 1..n /\ R[k] = c
    BY <1>1
  <2> HIDE DEF k
  <2>3. k \notin 1..top
    BY <2>2
  <2>4. i < k /\ i \in 1..n
    BY <1>2, <2>2, <2>3
  <2>5. score[R[i]] >= score[R[k]]
    BY <1>1, <2>2, <2>4
  <2>6. score[R[i]] \in Nat /\ score[R[k]] \in Nat
    BY <1>1, <2>2, <2>4
  <2> QED
    BY <2>1, <2>2, <2>5, <2>6
<1> QED
  BY <1>3, <1>4 DEF R

----------------------------------------------------------------------------
(* Fetches and windows.                                                    *)

\* What was read of a range: all that was listed when the fetch began.
Whole(r, got, asOf) ==
    /\ {t \in Samples!InRange(r) \ Missing : t <= asOf} \subseteq got
    /\ got \subseteq Samples!InRange(r) \ Missing

SoundConfig(c) ==
    /\ \E end \in Int : c.range = <<Start, end>>
    /\ c.split # None =>
          c.split \in Int /\ Start < c.split /\ c.split < c.range[2]
    /\ c.grid # None => c.grid \in Nat /\ c.grid >= 2

FetchFields ==
    {"at", "config", "part", "since", "pages", "got", "asOf", "first", "inside", "score"}
DoneFields == {"at", "config", "asOf", "inside", "outside", "score", "reruns"}

\* A fetch that goes on: up to the page it is at nothing is missing, and it has
\* gone as far as so many full pages.
Reading(s, r, moment) ==
    /\ ~Samples!TooLong(r)
    /\ s.since \in Int /\ s.pages \in Nat /\ s.pages < MaxPages
    /\ s.asOf <= moment
    /\ r[1] + s.pages * Limit <= s.since
    /\ s.got \subseteq Samples!InRange(r) \ Missing
    /\ {t \in Samples!InRange(r) \ Missing : t <= s.asOf /\ t < s.since} \subseteq s.got

Fetching(s, moment) ==
    LET r == Samples!FetchRange(s.config, s.part) IN
    /\ s.at \in {"cache", "page", "kept"}
    /\ s = [f \in FetchFields |-> s[f]]
    /\ SoundConfig(s.config)
    /\ s.part \in {"whole", "in", "out"}
    /\ s.part = "whole" <=> ~(s.config.split # None /\ s.config.grid # None)
    /\ s.asOf \in Int
    /\ s.at = "cache" => s.got = {} /\ s.pages = 0
    /\ s.at = "page" => Reading(s, r, moment)
    /\ s.at = "kept" => Whole(r, s.got, s.asOf)
    /\ s.part = "out" => /\ s.first \in Int
                         /\ Whole(<<Start, s.config.split>>, s.inside, s.first)
                         /\ s.score \in [1..s.config.grid -> Nat]

\* The windows are apart and together they miss nothing.
Apart(s) ==
    /\ \A t \in s.inside, u \in s.outside : t < u
    /\ {t \in Samples!InRange(s.config.range) \ Missing : t <= s.asOf}
          \subseteq s.inside \cup s.outside

\* So many of the best have been run again; all that are asked for at the end.
Ranked(s) ==
    /\ s.score \in [1..s.config.grid -> Nat]
    /\ \E n \in 0..Samples!Top(s.config.grid) :
          /\ s.reruns = [i \in 1..n |-> Samples!RankBy(s.score)[i]]
          /\ s.at = "completed" <=> n = Samples!Top(s.config.grid)

Finishing(s) ==
    /\ s.at \in {"rerun", "completed"}
    /\ s = [f \in DoneFields |-> s[f]]
    /\ SoundConfig(s.config)
    /\ s.config.split # None => Apart(s)
    /\ s.at = "rerun" => s.config.split # None /\ s.config.grid # None
    /\ s.config.split # None /\ s.config.grid # None => Ranked(s)

SampleGood(s, moment) == s = Samples!IdleJob \/ Fetching(s, moment) \/ Finishing(s)

SamplesInv ==
    /\ now \in Int
    /\ job = [j \in SampleJobs |-> job[j]]
    /\ \A j \in SampleJobs : SampleGood(job[j], now)
    /\ \A r \in DOMAIN klines :
          klines[r].asOf \in Int /\ Whole(r, klines[r].got, klines[r].asOf)

\* The range of a fetch is one of moments.
LEMMA FetchesMoments ==
  ASSUME NEW s, NEW moment, Fetching(s, moment)
  PROVE  LET r == Samples!FetchRange(s.config, s.part) IN
         r = <<r[1], r[2]>> /\ r[1] \in Int /\ r[2] \in Int
BY SamplesAssumption DEF Fetching, SoundConfig, Samples!FetchRange

\* The number of the best is between one and all.
LEMMA TopCounts ==
  ASSUME NEW n \in Nat, n >= 1
  PROVE  Samples!Top(n) = Samples!Min({TopN, n}) /\ Samples!Top(n) \in 1..n
<1>1. TopN \in Nat /\ TopN >= 1
  BY SamplesAssumption
<1>2. Samples!Min({TopN, n}) = IF TopN <= n THEN TopN ELSE n
  BY <1>1, MinOfTwo
<1> DEFINE m == Samples!Min({TopN, n})
<1>3. m \in 1..n
  BY <1>1, <1>2
<1> HIDE DEF m
<1>4. Samples!Max({1, m}) = m
  BY <1>3, MaxOfTwo
<1> QED
  BY <1>3, <1>4 DEF Samples!Top, m

\* A job that goes on leaves the others as they are.
LEMMA GotoKeepsSamples ==
  ASSUME SamplesInv, NEW j \in SampleJobs, NEW state,
         SampleGood(state, now), Samples!JobGoto(j, state), UNCHANGED now,
         \A r \in DOMAIN klines' :
            (klines'[r]).asOf \in Int /\ Whole(r, (klines'[r]).got, (klines'[r]).asOf)
  PROVE  SamplesInv'
<1>1. job' = [job EXCEPT ![j] = state]
  BY DEF Samples!JobGoto
<1>2. \A k \in SampleJobs : job'[k] = IF k = j THEN state ELSE job[k]
  BY <1>1 DEF SamplesInv
<1>3. job' = [k \in SampleJobs |-> job'[k]]
  BY <1>1 DEF SamplesInv
<1>4. \A k \in SampleJobs : SampleGood(job'[k], now)
  BY <1>2 DEF SamplesInv
<1>5. \A k \in SampleJobs : SampleGood(job'[k], now')
  BY <1>4
<1> QED
  BY <1>3, <1>5 DEF SamplesInv, Whole, Samples!InRange, Samples!Times

\* Time may pass.
LEMMA LaterIsGood ==
  ASSUME NEW s, NEW m \in Int, SampleGood(s, m)
  PROVE  SampleGood(s, m + 1)
<1>1. CASE Fetching(s, m)
  <2>1. s.at = "page" => s.asOf <= m + 1
    BY <1>1 DEF Fetching, Reading
  <2> QED
    BY <1>1, <2>1 DEF SampleGood, Fetching, Reading
<1> QED
  BY <1>1 DEF SampleGood

\* A job that begins has a sound configuration, and its fetch has read nothing.
LEMMA BeginIsGood ==
  ASSUME SamplesInv, NEW j \in SampleJobs, NEW end \in Ends, NEW split \in Splits,
         NEW grid \in Grids,
         Samples!Begin(j, [range |-> <<Start, end>>, split |-> split, grid |-> grid])
  PROVE  SamplesInv'
<1> DEFINE c == [range |-> <<Start, end>>, split |-> split, grid |-> grid]
           p == IF c.grid # None /\ c.split # None THEN "in" ELSE "whole"
           s == Samples!Fetch(c, p, now, {}, None)
<1>1. SoundConfig(c)
  <2>1. c.split # None => Start < c.split /\ c.split < end /\ c.split \in Int
    BY SamplesAssumption DEF Samples!Begin
  <2>2. c.grid # None => c.grid \in Nat /\ c.grid >= 2
    BY SamplesAssumption DEF Samples!Begin, Samples!GridSizes, Samples!Combinations
  <2>3. c.range = <<Start, end>> /\ c.range[2] = end /\ end \in Int
    BY SamplesAssumption
  <2> HIDE DEF c
  <2> QED
    BY <2>1, <2>2, <2>3 DEF SoundConfig
<1> HIDE DEF c
<1>2. Fetching(s, now)
  <2>1. /\ s = [f \in FetchFields |-> s[f]]
        /\ s.at = "cache" /\ s.config = c /\ s.part = p /\ s.pages = 0 /\ s.got = {}
        /\ s.asOf = now
    BY DEF Samples!Fetch, FetchFields
  <2>2. now \in Int /\ p \in {"whole", "in"}
        /\ (p = "whole" <=> ~(c.split # None /\ c.grid # None))
    BY DEF SamplesInv
  <2> HIDE DEF s, p
  <2> QED
    BY <1>1, <2>1, <2>2 DEF Fetching
<1>3. Samples!JobGoto(j, s) /\ UNCHANGED <<now, klines>>
  BY DEF Samples!Begin, c
<1> QED
  BY <1>2, <1>3, GotoKeepsSamples DEF SampleGood, SamplesInv

\* The job's state when it is at a fetch.
LEMMA AtFetch ==
  ASSUME SamplesInv, NEW j \in SampleJobs, job[j].at \in {"cache", "page", "kept"}
  PROVE  Fetching(job[j], now)
BY DEF SamplesInv, SampleGood, Finishing, Samples!IdleJob

\* What Redis has is whole, and the first page begins where the range does.
LEMMA ReadCacheIsGood ==
  ASSUME SamplesInv, NEW j \in SampleJobs, Samples!ReadCache(j)
  PROVE  SamplesInv'
<1> DEFINE s == job[j]
           r == Samples!FetchRange(s.config, s.part)
           hit == [s EXCEPT !.at = "kept", !.got = klines[r].got, !.asOf = klines[r].asOf]
           read == [s EXCEPT !.at = "page", !.since = r[1], !.asOf = now]
<1>1. s.at = "cache" /\ Fetching(s, now) /\ now \in Int
  BY AtFetch DEF Samples!ReadCache, SamplesInv
<1>2. UNCHANGED <<now, klines>> /\ ~Samples!TooLong(r)
  BY DEF Samples!ReadCache
<1>3. r = <<r[1], r[2]>> /\ r[1] \in Int /\ r[2] \in Int
  BY <1>1, FetchesMoments
<1>4. /\ read = [f \in FetchFields |-> read[f]]
      /\ read.at = "page" /\ read.config = s.config /\ read.part = s.part
      /\ read.since = r[1] /\ read.pages = s.pages /\ read.got = s.got /\ read.asOf = now
      /\ read.first = s.first /\ read.inside = s.inside /\ read.score = s.score
  <2> HIDE DEF s, r
  <2> QED
    BY <1>1 DEF Fetching, FetchFields
<1>5. CASE r \in DOMAIN klines /\ Samples!JobGoto(j, hit)
  <2>1. klines[r].asOf \in Int /\ Whole(r, klines[r].got, klines[r].asOf)
    BY <1>5 DEF SamplesInv
  <2>2. Fetching(hit, now)
    <3> HIDE DEF s
    <3>1. /\ hit = [f \in FetchFields |-> hit[f]]
          /\ hit.at = "kept" /\ hit.config = s.config /\ hit.part = s.part
          /\ hit.got = klines[r].got /\ hit.asOf = klines[r].asOf
          /\ hit.first = s.first /\ hit.inside = s.inside /\ hit.score = s.score
      BY <1>1 DEF Fetching, FetchFields
    <3> HIDE DEF hit
    <3> QED
      BY <1>1, <2>1, <3>1 DEF Fetching
  <2> QED
    BY <1>2, <1>5, <2>2, GotoKeepsSamples DEF SampleGood, SamplesInv
<1>6. CASE Samples!JobGoto(j, read)
  <2>1. Reading(read, r, now) /\ read.asOf = now
    <3> HIDE DEF s, r, read
    <3>1. 0 < MaxPages
      BY SamplesAssumption
    <3>2. s.pages = 0 /\ s.got = {}
      BY <1>1 DEF Fetching
    <3>3. r[1] + 0 * Limit = r[1]
      BY <1>3, SamplesAssumption
    <3>4. \A t \in Samples!InRange(r) : ~(t < r[1])
      BY <1>3, SamplesAssumption DEF Samples!InRange, Samples!Times
    <3>5. /\ read.since \in Int /\ read.pages = 0 /\ read.got = {}
          /\ read.asOf <= now
      BY <1>1, <1>3, <1>4, <3>2
    <3>7. r[1] <= read.since
      BY <1>3, <1>4
    <3>8. r[1] + read.pages * Limit <= read.since
      BY <3>3, <3>5, <3>7
    <3>6. \A t \in Samples!InRange(r) \ Missing : ~(t < read.since)
      BY <1>4, <3>4
    <3>9. /\ 0 \in Nat /\ read.got \subseteq Samples!InRange(r) \ Missing
          /\ {t \in Samples!InRange(r) \ Missing : t <= read.asOf /\ t < read.since}
                \subseteq read.got
      BY <3>5, <3>6
    <3> QED
      BY <1>2, <1>4, <3>1, <3>5, <3>8, <3>9 DEF Reading
  <2>2. Fetching(read, now)
    <3> HIDE DEF s, read
    <3> QED
      BY <1>1, <1>4, <2>1 DEF Fetching
  <2> QED
    BY <1>2, <1>6, <2>2, GotoKeepsSamples DEF SampleGood, SamplesInv
<1> QED
  BY <1>5, <1>6 DEF Samples!ReadCache

\* A page that goes on leaves nothing out, and the last one makes the fetch whole:
\* the guard on pages is reached by none that is not refused as too long.
LEMMA ReadPageIsGood ==
  ASSUME SamplesInv, NEW j \in SampleJobs, Samples!ReadPage(j)
  PROVE  SamplesInv'
<1> DEFINE s == job[j]
           r == Samples!FetchRange(s.config, s.part)
           page == Samples!Page(s.since)
           next == IF page = {} THEN s.since ELSE Samples!After(page)
           more == /\ Samples!Cardinality(page) = Limit
                   /\ next > s.since /\ next < r[2]
                   /\ s.pages + 1 < MaxPages
           got == s.got \cup (page \cap Samples!InRange(r))
           state == [s EXCEPT !.at = IF more THEN "page" ELSE "kept",
                        !.since = next, !.pages = s.pages + 1, !.got = got]
<1>1. s.at = "page" /\ Fetching(s, now) /\ Reading(s, r, now) /\ now \in Int
  BY AtFetch DEF Samples!ReadPage, SamplesInv, Fetching
<1>2. r = <<r[1], r[2]>> /\ r[1] \in Int /\ r[2] \in Int
  BY <1>1, FetchesMoments
<1>3. UNCHANGED now /\ Samples!JobGoto(j, state)
  BY DEF Samples!ReadPage
<1>4. klines' = klines \/ (~more /\ Samples!Keep(r, got, s.asOf))
  BY DEF Samples!ReadPage
<1>5. /\ state = [f \in FetchFields |-> state[f]]
      /\ state.at = (IF more THEN "page" ELSE "kept") /\ state.config = s.config
      /\ state.part = s.part /\ state.since = next /\ state.pages = s.pages + 1
      /\ state.got = got /\ state.asOf = s.asOf /\ state.first = s.first
      /\ state.inside = s.inside /\ state.score = s.score
  <2> HIDE DEF s, r, page, next, more, got
  <2> QED
    BY <1>1 DEF Fetching, FetchFields
<1>6. /\ page \subseteq {t \in Samples!Listed : t >= s.since}
      /\ Cardinality(page) # Limit => page = {t \in Samples!Listed : t >= s.since}
      /\ page # {} => /\ Samples!After(page) \in Int /\ s.since < Samples!After(page)
                      /\ \A t \in Samples!Listed :
                            s.since <= t /\ t < Samples!After(page) => t \in page
      /\ Cardinality(page) = Limit =>
            page # {} /\ s.since + Limit <= Samples!After(page)
  BY <1>1, PageReads DEF Reading
<1>7. Samples!Cardinality(page) = Cardinality(page)
  BY SamplesCardinality
<1>8. /\ s.since \in Int /\ s.pages \in Nat /\ s.pages < MaxPages /\ s.asOf \in Int
      /\ s.asOf <= now /\ r[1] + s.pages * Limit <= s.since /\ ~Samples!TooLong(r)
      /\ s.got \subseteq Samples!InRange(r) \ Missing
      /\ {t \in Samples!InRange(r) \ Missing : t <= s.asOf /\ t < s.since} \subseteq s.got
  BY <1>1 DEF Reading, Fetching
<1>9. \A t \in Samples!InRange(r) : t \in Int /\ r[1] <= t /\ t < r[2]
  BY SamplesAssumption DEF Samples!InRange, Samples!Times
<1>10. \A t \in Samples!InRange(r) \ Missing : t <= s.asOf => t \in Samples!Listed
  <2> SUFFICES ASSUME NEW t \in Samples!InRange(r) \ Missing, t <= s.asOf
               PROVE  t \in Samples!Listed
    OBVIOUS
  <2>1. t <= now
    BY <1>1, <1>8, <1>9
  <2> QED
    BY <2>1 DEF Samples!Listed, Samples!InRange
<1>11. got \subseteq Samples!InRange(r) \ Missing
  BY <1>6, <1>8 DEF Samples!Listed
<1> HIDE DEF s, r, page
<1>12. ASSUME NEW t \in Samples!InRange(r) \ Missing, t <= s.asOf,
              t < next \/ Cardinality(page) # Limit
       PROVE  t \in got
  <2>1. t \in Int /\ t \in Samples!Listed
    BY <1>9, <1>10, <1>12
  <2>2. CASE t < s.since
    BY <1>8, <1>12, <2>2
  <2>3. CASE s.since <= t
    <3>1. t \in page
      BY <1>6, <1>8, <1>12, <2>1, <2>3
    <3> QED
      BY <1>12, <3>1
  <2> QED
    BY <1>8, <2>1, <2>2, <2>3
<1>13. Limit \in Nat \ {0} /\ MaxPages \in Nat \ {0} /\ MaxKlines \in Nat
       /\ MaxPages * Limit >= MaxKlines - 2
  BY SamplesAssumption
<1>14. Cardinality(page) = Limit =>
          next \in Int /\ s.since < next /\ r[1] + (s.pages + 1) * Limit <= next
  <2>1. (s.pages + 1) * Limit = s.pages * Limit + Limit /\ s.pages * Limit \in Int
    BY <1>8, <1>13
  <2>2. ASSUME Cardinality(page) = Limit
        PROVE  /\ next = Samples!After(page) /\ next \in Int /\ s.since < next
               /\ s.since + Limit <= next
    BY <1>6, <2>2
  <2> DEFINE a == s.pages * Limit
             b == (s.pages + 1) * Limit
  <2>3. a \in Int /\ b = a + Limit /\ r[1] + a <= s.since
    BY <1>8, <2>1
  <2> HIDE DEF a, b, next
  <2>4. Cardinality(page) = Limit => r[1] + b <= next
    BY <1>2, <1>8, <1>13, <2>2, <2>3
  <2> QED
    BY <2>2, <2>4 DEF b
<1>15. more => Reading(state, r, now)
  <2> SUFFICES ASSUME more PROVE Reading(state, r, now)
    OBVIOUS
  <2>1. Cardinality(page) = Limit /\ s.pages + 1 < MaxPages
    BY <1>7
  <2>2. {t \in Samples!InRange(r) \ Missing : t <= s.asOf /\ t < next} \subseteq got
    BY <1>12
  <2> DEFINE q == s.pages + 1
  <2>3. q \in Nat
    BY <1>8
  <2>4. /\ state.since = next /\ state.pages = q /\ state.asOf = s.asOf /\ state.got = got
    BY <1>5
  <2> HIDE DEF next, got, state, more
  <2>5. next \in Int /\ r[1] + q * Limit <= next /\ q < MaxPages
    BY <1>14, <2>1 DEF q
  <2> HIDE DEF q
  <2> QED
    BY <1>8, <1>11, <2>2, <2>3, <2>4, <2>5 DEF Reading
<1>16. ~more => Whole(r, got, s.asOf)
  <2> SUFFICES ASSUME ~more, NEW t \in Samples!InRange(r) \ Missing, t <= s.asOf
               PROVE  t \in got
    BY <1>11 DEF Whole
  <2>1. CASE Cardinality(page) # Limit
    BY <1>12, <2>1
  <2>2. CASE Cardinality(page) = Limit
    <3>1. next \in Int /\ s.since < next /\ r[1] + (s.pages + 1) * Limit <= next
      BY <1>14, <2>2
    <3>2. r[2] <= next
      <4>1. CASE s.pages + 1 < MaxPages
        <5> HIDE DEF next
        <5> QED
          BY <1>2, <1>7, <1>8, <2>2, <3>1, <4>1
      <4>2. CASE ~(s.pages + 1 < MaxPages)
        <5>1. s.pages + 1 = MaxPages
          BY <1>8, <1>13, <4>2
        <5> DEFINE b == MaxPages * Limit
        <5>2. r[1] + b <= next /\ b \in Int /\ b >= MaxKlines - 2
          BY <1>13, <3>1, <5>1
        <5>3. r[2] - r[1] + 2 <= MaxKlines
          BY <1>2, <1>8, <1>13 DEF Samples!TooLong
        <5> HIDE DEF b, next
        <5> QED
          BY <1>2, <1>13, <3>1, <5>2, <5>3
      <4> QED
        BY <4>1, <4>2
    <3>3. t \in Int /\ t < r[2]
      BY <1>9
    <3>4. t < next
      <4> HIDE DEF next
      <4> QED
        BY <1>2, <3>1, <3>2, <3>3
    <3> QED
      BY <1>12, <3>4
  <2> QED
    BY <2>1, <2>2
<1>17. Fetching(state, now)
  <2>1. /\ SoundConfig(s.config) /\ s.part \in {"whole", "in", "out"}
        /\ s.part = "whole" <=> ~(s.config.split # None /\ s.config.grid # None)
        /\ s.part = "out" => /\ s.first \in Int
                             /\ Whole(<<Start, s.config.split>>, s.inside, s.first)
                             /\ s.score \in [1..s.config.grid -> Nat]
    BY <1>1 DEF Fetching
  <2> HIDE DEF state, more, got, next
  <2>3. Samples!FetchRange(state.config, state.part) = r
    BY <1>5 DEF r
  <2> QED
    BY <1>8, <1>5, <1>15, <1>16, <2>1, <2>3 DEF Fetching
<1>18. ASSUME NEW k \in DOMAIN klines'
       PROVE  (klines'[k]).asOf \in Int /\ Whole(k, (klines'[k]).got, (klines'[k]).asOf)
  <2> HIDE DEF more, got, state, next
  <2>1. CASE klines' = klines
    BY <1>18, <2>1 DEF SamplesInv
  <2>2. CASE ~more /\ Samples!Keep(r, got, s.asOf)
    <3>1. CASE k = r
      <4>1. klines'[k].got = got /\ klines'[k].asOf = s.asOf
        BY <1>18, <2>2, <3>1 DEF Samples!Keep
      <4> QED
        BY <1>8, <1>16, <2>2, <3>1, <4>1
    <3>2. CASE k # r
      <4>1. k \in DOMAIN klines /\ klines'[k] = klines[k]
        BY <1>18, <2>2, <3>2 DEF Samples!Keep
      <4> QED
        BY <4>1 DEF SamplesInv
    <3> QED
      BY <3>1, <3>2
  <2> QED
    BY <1>4, <2>1, <2>2
<1> HIDE DEF state
<1> QED
  BY <1>3, <1>5, <1>17, <1>18, GotoKeepsSamples DEF SampleGood

\* A candle of a range that is sound is one of its moments.
LEMMA InRangeMoments ==
  ASSUME NEW a \in Int, NEW b \in Int
  PROVE  \A t : t \in Samples!InRange(<<a, b>>) <=>
                    t \in Samples!Times /\ t \in Int /\ a <= t /\ t < b
BY SamplesAssumption DEF Samples!InRange, Samples!Times

\* What a job is when it is done.
LEMMA DoneFieldsAre ==
  ASSUME NEW c, NEW asOf, NEW inside, NEW outside, NEW score, NEW at
  PROVE  LET s == Samples!Done(c, asOf, inside, outside, score, at) IN
         /\ s = [f \in DoneFields |-> s[f]]
         /\ s.at = at /\ s.config = c /\ s.asOf = asOf /\ s.inside = inside
         /\ s.outside = outside /\ s.score = score /\ s.reruns = <<>>
BY DEF Samples!Done, DoneFields

\* A fetch is whole when it is kept.
LEMMA KeptIsWhole ==
  ASSUME SamplesInv, NEW j \in SampleJobs, job[j].at = "kept"
  PROVE  /\ Fetching(job[j], now)
         /\ Whole(Samples!FetchRange(job[j].config, job[j].part), job[j].got, job[j].asOf)
BY AtFetch DEF Fetching

\* The job's state when it runs again, or is done.
LEMMA AtEnd ==
  ASSUME SamplesInv, NEW j \in SampleJobs, job[j].at \in {"rerun", "completed"}
  PROVE  Finishing(job[j])
<1>1. SampleGood(job[j], now)
  BY DEF SamplesInv
<1>2. job[j] # Samples!IdleJob
  BY DEF Samples!IdleJob
<1>3. ~Fetching(job[j], now)
  BY DEF Fetching
<1> QED
  BY <1>1, <1>2, <1>3 DEF SampleGood

\* A single run, over the range or over both windows cut from it.
LEMMA RunSingleIsGood ==
  ASSUME SamplesInv, NEW j \in SampleJobs, Samples!RunSingle(j)
  PROVE  SamplesInv'
<1> DEFINE s == job[j]
           split == s.config.split
           end == s.config.range[2]
           all == Samples!Done(s.config, s.asOf, s.got, {}, None, "completed")
           cut == Samples!Done(s.config, s.asOf, Samples!InSample(s.got, split),
                      Samples!OutSample(s.got, split, end), None, "completed")
<1>1. Fetching(s, now) /\ s.config.grid = None /\ SoundConfig(s.config)
  BY AtFetch DEF Samples!RunSingle, Fetching
<1>2. Whole(s.config.range, s.got, s.asOf)
  BY <1>1, KeptIsWhole DEF Samples!RunSingle, Fetching, Samples!FetchRange
<1>3. UNCHANGED <<now, klines>> /\ Samples!JobGoto(j, IF split = None THEN all ELSE cut)
  BY DEF Samples!RunSingle
<1>4. split = None => Finishing(all)
  <2> HIDE DEF s
  <2>1. /\ all = [f \in DoneFields |-> all[f]]
        /\ all.at = "completed" /\ all.config = s.config
    BY DoneFieldsAre
  <2> HIDE DEF all
  <2> QED
    BY <1>1, <2>1 DEF Finishing
<1>5. split # None => Finishing(cut)
  <2> SUFFICES ASSUME split # None PROVE Finishing(cut)
    OBVIOUS
  <2>1. split \in Int /\ end \in Int /\ s.config.range = <<Start, end>>
    BY <1>1 DEF SoundConfig
  <2> HIDE DEF s
  <2>2. /\ cut = [f \in DoneFields |-> cut[f]]
        /\ cut.at = "completed" /\ cut.config = s.config /\ cut.asOf = s.asOf
        /\ cut.inside = Samples!InSample(s.got, split)
        /\ cut.outside = Samples!OutSample(s.got, split, end)
    BY DoneFieldsAre
  <2> HIDE DEF cut
  <2>3. \A t \in Samples!InRange(s.config.range) : t \in Int /\ t < end
    BY <2>1, SamplesAssumption, InRangeMoments
  <2>4. \A t \in s.got : t \in Int /\ t < end
    BY <1>2, <2>3 DEF Whole
  <2>5. s.got \subseteq cut.inside \cup cut.outside
    BY <2>1, <2>2, <2>4 DEF Samples!InSample, Samples!OutSample
  <2>6. \A t \in cut.inside, u \in cut.outside : t < u
    BY <2>1, <2>2, <2>4 DEF Samples!InSample, Samples!OutSample
  <2>7. Apart(cut)
    BY <1>2, <2>2, <2>5, <2>6 DEF Apart, Whole
  <2> QED
    BY <1>1, <2>2, <2>7 DEF Finishing
<1> HIDE DEF all, cut, s
<1> QED
  BY <1>3, <1>4, <1>5, GotoKeepsSamples DEF SampleGood, SamplesInv

\* A grid over its candles; with windows the fetch outside begins.
LEMMA RunGridIsGood ==
  ASSUME SamplesInv, NEW j \in SampleJobs, Samples!RunGrid(j)
  PROVE  SamplesInv'
<1> DEFINE s == job[j]
<1>1. Fetching(s, now) /\ s.config.grid # None /\ SoundConfig(s.config) /\ s.part # "out"
  BY AtFetch DEF Samples!RunGrid, Fetching
<1>2. Whole(Samples!FetchRange(s.config, s.part), s.got, s.asOf) /\ s.asOf \in Int
  BY <1>1, KeptIsWhole DEF Samples!RunGrid, Fetching
<1>3. UNCHANGED <<now, klines>>
  BY DEF Samples!RunGrid
<1>4. PICK score \in [1..s.config.grid -> 0..MaxScore] :
         Samples!JobGoto(j, IF s.config.split = None
            THEN Samples!Done(s.config, s.asOf, s.got, {}, score, "completed")
            ELSE Samples!Fetch(s.config, "out", s.asOf, s.got, score))
  BY DEF Samples!RunGrid
<1> HIDE DEF s
<1> DEFINE all == Samples!Done(s.config, s.asOf, s.got, {}, score, "completed")
           out == Samples!Fetch(s.config, "out", s.asOf, s.got, score)
<1>5. score \in [1..s.config.grid -> Nat]
  BY <1>4, SamplesAssumption
<1>6. s.config.split = None => Finishing(all)
  <2>1. /\ all = [f \in DoneFields |-> all[f]]
        /\ all.at = "completed" /\ all.config = s.config
    BY DoneFieldsAre
  <2> HIDE DEF all
  <2> QED
    BY <1>1, <2>1 DEF Finishing
<1>7. s.config.split # None => Fetching(out, now)
  <2> SUFFICES ASSUME s.config.split # None PROVE Fetching(out, now)
    OBVIOUS
  <2>1. /\ out = [f \in FetchFields |-> out[f]]
        /\ out.at = "cache" /\ out.config = s.config /\ out.part = "out" /\ out.pages = 0
        /\ out.got = {} /\ out.asOf = now /\ out.first = s.asOf /\ out.inside = s.got
        /\ out.score = score
    BY DEF Samples!Fetch, FetchFields
  <2>2. s.part = "in"
    BY <1>1 DEF Fetching
  <2>3. Whole(<<Start, s.config.split>>, s.got, s.asOf)
    <3>1. s.config.range[1] = Start
      BY <1>1 DEF SoundConfig
    <3> QED
      BY <1>2, <2>2, <3>1 DEF Samples!FetchRange
  <2>4. now \in Int
    BY DEF SamplesInv
  <2> HIDE DEF out
  <2> QED
    BY <1>1, <1>2, <1>5, <2>1, <2>3, <2>4 DEF Fetching
<1> HIDE DEF all, out
<1> QED
  BY <1>3, <1>4, <1>6, <1>7, GotoKeepsSamples DEF SampleGood, SamplesInv, all, out

\* The windows of a grid were read by two fetches, whole and apart.
LEMMA RerunStartIsGood ==
  ASSUME SamplesInv, NEW j \in SampleJobs, Samples!RerunStart(j)
  PROVE  SamplesInv'
<1> DEFINE s == job[j]
           split == s.config.split
           end == s.config.range[2]
           m == Samples!Min({s.asOf, s.first})
           new == Samples!Done(s.config, m, s.inside,
                      Samples!OutSample(s.got, split, end), s.score, "rerun")
<1>1. Fetching(s, now) /\ s.part = "out" /\ SoundConfig(s.config)
  BY AtFetch DEF Samples!RerunStart, Fetching
<1>2. Whole(Samples!FetchRange(s.config, s.part), s.got, s.asOf)
  BY <1>1, KeptIsWhole DEF Samples!RerunStart
<1>3. UNCHANGED <<now, klines>> /\ Samples!JobGoto(j, new)
  BY DEF Samples!RerunStart
<1> HIDE DEF s
<1>4. /\ split # None /\ s.config.grid # None /\ s.asOf \in Int /\ s.first \in Int
      /\ Whole(<<Start, split>>, s.inside, s.first)
      /\ s.score \in [1..s.config.grid -> Nat]
  BY <1>1 DEF Fetching
<1>5. /\ split \in Int /\ end \in Int /\ s.config.range = <<Start, end>>
      /\ Start < split /\ split < end /\ Start \in Int
      /\ s.config.grid \in Nat /\ s.config.grid >= 2
  BY <1>1, <1>4, SamplesAssumption DEF SoundConfig
<1>6. Whole(<<split, end>>, s.got, s.asOf)
  BY <1>1, <1>2 DEF Samples!FetchRange
<1>7. m \in Int /\ m <= s.asOf /\ m <= s.first
  <2>1. m = IF s.asOf <= s.first THEN s.asOf ELSE s.first
    BY <1>4, MinOfTwo
  <2> QED
    BY <1>4, <2>1
<1> HIDE DEF m, split, end
<1>8. /\ new = [f \in DoneFields |-> new[f]]
      /\ new.at = "rerun" /\ new.config = s.config /\ new.asOf = m
      /\ new.inside = s.inside /\ new.outside = Samples!OutSample(s.got, split, end)
      /\ new.score = s.score /\ new.reruns = <<>>
  BY DoneFieldsAre
<1> HIDE DEF new
<1>9. \A t \in s.got : t \in Int /\ split <= t /\ t < end
  BY <1>5, <1>6, InRangeMoments DEF Whole
<1>10. new.outside = s.got
  <2>1. \A t \in s.got : split <= t /\ t <= end
    BY <1>5, <1>9
  <2> QED
    BY <1>8, <2>1 DEF Samples!OutSample
<1>11. \A t \in s.inside : t \in Int /\ t < split
  BY <1>4, <1>5, InRangeMoments DEF Whole
<1>12. \A t \in new.inside, u \in new.outside : t < u
  BY <1>5, <1>8, <1>9, <1>10, <1>11
<1>13. ASSUME NEW t \in Samples!InRange(<<Start, end>>) \ Missing, t <= m
       PROVE  t \in s.inside \cup s.got
  <2>1. t \in Samples!Times /\ t \in Int /\ Start <= t /\ t < end
    BY <1>5, InRangeMoments
  <2>2. t <= s.asOf /\ t <= s.first
    BY <1>4, <1>7, <1>13, <2>1
  <2>3. t \in Samples!InRange(<<Start, split>>) \/ t \in Samples!InRange(<<split, end>>)
    BY <1>5, <2>1, InRangeMoments
  <2> QED
    BY <1>4, <1>6, <2>2, <2>3 DEF Whole
<1>14. Apart(new)
  BY <1>5, <1>8, <1>10, <1>12, <1>13 DEF Apart
<1>15. Ranked(new)
  <2>1. Samples!Top(s.config.grid) \in 1..s.config.grid
    <3> DEFINE n == s.config.grid
    <3>1. n \in Nat /\ n >= 1
      BY <1>5
    <3> HIDE DEF n
    <3>2. Samples!Top(n) \in 1..n
      BY <3>1, TopCounts
    <3> QED
      BY <3>2 DEF n
  <2>2. new.reruns = [i \in 1..0 |-> Samples!RankBy(new.score)[i]]
    BY <1>8
  <2>3. 0 \in 0..Samples!Top(s.config.grid) /\ 0 # Samples!Top(s.config.grid)
    BY <1>5, <2>1
  <2> QED
    BY <1>4, <1>8, <2>2, <2>3 DEF Ranked
<1>16. Finishing(new)
  BY <1>1, <1>4, <1>8, <1>14, <1>15 DEF Finishing, split
<1> QED
  BY <1>3, <1>16, GotoKeepsSamples DEF SampleGood, SamplesInv

\* The next of the best is run again.
LEMMA RerunIsGood ==
  ASSUME SamplesInv, NEW j \in SampleJobs, Samples!Rerun(j)
  PROVE  SamplesInv'
<1> DEFINE s == job[j]
           R == Samples!RankBy(s.score)
           k == Samples!Cardinality(DOMAIN s.reruns)
           top == Samples!Top(Samples!Cardinality(DOMAIN s.score))
           new == [s EXCEPT !.reruns = [i \in 1..(k + 1) |-> R[i]],
                            !.at = IF k + 1 = top THEN "completed" ELSE "rerun"]
<1>1. s.at = "rerun" /\ Finishing(s)
  BY AtEnd DEF Samples!Rerun
<1>2. UNCHANGED <<now, klines>> /\ Samples!JobGoto(j, new)
  BY DEF Samples!Rerun
<1> HIDE DEF s
<1>3. /\ s.config.split # None /\ s.config.grid # None
      /\ SoundConfig(s.config) /\ Apart(s) /\ Ranked(s)
  BY <1>1 DEF Finishing
<1> DEFINE grid == s.config.grid
<1>4. grid \in Nat /\ grid >= 2 /\ s.score \in [1..grid -> Nat]
  BY <1>3 DEF SoundConfig, Ranked
<1>5. top = Samples!Top(grid) /\ top \in 1..grid
  <2>1. DOMAIN s.score = 1..grid
    BY <1>4
  <2>2. Cardinality(1..grid) = grid
    <3> HIDE DEF grid
    <3> QED
      BY <1>4, FS_Interval
  <2>3. Samples!Cardinality(DOMAIN s.score) = grid
    BY <2>1, <2>2, SamplesCardinality
  <2> HIDE DEF grid
  <2>4. grid \in Nat /\ grid >= 1
    BY <1>4
  <2>5. Samples!Top(grid) \in 1..grid
    BY <2>4, TopCounts
  <2> QED
    BY <2>3, <2>5
<1>6. PICK n \in 0..Samples!Top(grid) :
         /\ s.reruns = [i \in 1..n |-> R[i]]
         /\ s.at = "completed" <=> n = Samples!Top(grid)
  BY <1>3 DEF Ranked
<1>7. n \in Nat /\ n < top
  BY <1>1, <1>4, <1>5, <1>6
<1>8. k = n
  <2>1. DOMAIN s.reruns = 1..n
    BY <1>6
  <2>2. Cardinality(1..n) = n
    BY <1>7, FS_Interval
  <2> QED
    BY <2>1, <2>2, SamplesCardinality
<1> HIDE DEF R, k, top, grid
<1>9. /\ new = [f \in DoneFields |-> new[f]]
      /\ new.reruns = [i \in 1..(k + 1) |-> R[i]]
      /\ new.at = (IF k + 1 = top THEN "completed" ELSE "rerun")
      /\ new.config = s.config /\ new.score = s.score /\ new.asOf = s.asOf
      /\ new.inside = s.inside /\ new.outside = s.outside
  BY <1>1 DEF Finishing, DoneFields
<1> HIDE DEF new
<1>10. Apart(new)
  BY <1>3, <1>9 DEF Apart
<1>11. Ranked(new)
  <2>1. n + 1 \in 0..top
    BY <1>4, <1>5, <1>7
  <2>2. new.at = "completed" <=> n + 1 = top
    BY <1>8, <1>9
  <2>3. new.reruns = [i \in 1..(n + 1) |-> Samples!RankBy(new.score)[i]]
    BY <1>8, <1>9 DEF R
  <2> QED
    BY <1>4, <1>5, <1>9, <2>1, <2>2, <2>3 DEF Ranked, grid
<1>12. Finishing(new)
  BY <1>3, <1>9, <1>10, <1>11 DEF Finishing
<1> QED
  BY <1>2, <1>12, GotoKeepsSamples DEF SampleGood, SamplesInv

\* A fetch that fails leaves no trace.
LEMMA JobFailsIsGood ==
  ASSUME SamplesInv, NEW j \in SampleJobs, Samples!JobFails(j)
  PROVE  SamplesInv'
BY GotoKeepsSamples DEF Samples!JobFails, SampleGood, SamplesInv

\* What Redis keeps, and what is being read, stays whole as time passes.
LEMMA PassesIsGood == SamplesInv /\ Samples!Passes => SamplesInv'
<1> SUFFICES ASSUME SamplesInv, Samples!Passes PROVE SamplesInv'
  OBVIOUS
<1>1. now \in Int /\ now' = now + 1 /\ job' = job
  BY DEF Samples!Passes, SamplesInv
<1>2. \A j \in SampleJobs : SampleGood(job[j], now + 1)
  BY <1>1, LaterIsGood DEF SamplesInv
<1>3. \A j \in SampleJobs : SampleGood(job'[j], now')
  BY <1>1, <1>2
<1>4. \A r \in DOMAIN klines' : r \in DOMAIN klines /\ klines'[r] = klines[r]
  BY DEF Samples!Passes, Samples!Drop
<1>5. \A r \in DOMAIN klines' :
         (klines'[r]).asOf \in Int /\ Whole(r, (klines'[r]).got, (klines'[r]).asOf)
  BY <1>4 DEF SamplesInv
<1>6. now' \in Int /\ job' = [j \in SampleJobs |-> job'[j]]
  BY <1>1 DEF SamplesInv
<1> QED
  BY <1>3, <1>5, <1>6 DEF SamplesInv

\* The invariant of the samples holds in every state.
LEMMA SamplesInvStays == ComputeSpec => []SamplesInv
<1>1. ComputeInit => SamplesInv
  <2> SUFFICES ASSUME ComputeInit PROVE SamplesInv
    OBVIOUS
  <2>1. Samples!SamplesInit /\ (part # "samples" => now = Horizon)
    BY DEF ComputeInit
  <2>2. now \in Int
    BY <2>1, SamplesAssumption DEF Samples!SamplesInit, Samples!Times
  <2>3. klines = << >> /\ job = [j \in SampleJobs |-> Samples!IdleJob]
    BY <2>1 DEF Samples!SamplesInit
  <2> QED
    BY <2>2, <2>3 DEF SamplesInv, SampleGood
<1>2. SamplesInv /\ [Samples!SamplesNext]_(Samples!sampleVars) => SamplesInv'
  <2> SUFFICES ASSUME SamplesInv, [Samples!SamplesNext]_(Samples!sampleVars)
               PROVE  SamplesInv'
    OBVIOUS
  <2>1. CASE UNCHANGED Samples!sampleVars
    BY <2>1 DEF Samples!sampleVars, SamplesInv, Whole, Samples!InRange, Samples!Times
  <2>2. CASE Samples!Passes
    BY <2>2, PassesIsGood
  <2>3. ASSUME NEW j \in SampleJobs, NEW end \in Ends, NEW split \in Splits,
               NEW grid \in Grids,
               Samples!Begin(j, [range |-> <<Start, end>>, split |-> split, grid |-> grid])
        PROVE  SamplesInv'
    BY <2>3, BeginIsGood
  <2>4. ASSUME NEW j \in SampleJobs,
               \/ Samples!ReadCache(j) \/ Samples!ReadPage(j) \/ Samples!JobFails(j)
               \/ Samples!RunSingle(j) \/ Samples!RunGrid(j)
               \/ Samples!RerunStart(j) \/ Samples!Rerun(j)
        PROVE  SamplesInv'
    BY <2>4, ReadCacheIsGood, ReadPageIsGood, JobFailsIsGood, RunSingleIsGood,
       RunGridIsGood, RerunStartIsGood, RerunIsGood
  <2> QED
    BY <2>1, <2>2, <2>3, <2>4 DEF Samples!SamplesNext
<1> QED
  BY <1>1, <1>2, SamplesRun, PTL DEF ComputeSpec, Samples!SamplesSpec

\* The run of a job of both windows and a grid.
LEMMA RerunsAreBest ==
  ASSUME NEW s, Finishing(s), s.at = "completed",
         s.config.split # None, s.config.grid # None
  PROVE  LET chosen == {s.reruns[i] : i \in DOMAIN s.reruns} IN
         /\ Samples!Cardinality(chosen)
               = Samples!Min({TopN, Samples!Cardinality(DOMAIN s.score)})
         /\ \A i, k \in DOMAIN s.reruns :
               i < k => s.score[s.reruns[i]] >= s.score[s.reruns[k]]
         /\ \A c \in DOMAIN s.score \ chosen, b \in chosen : s.score[c] <= s.score[b]
<1> DEFINE grid == s.config.grid
           top == Samples!Top(grid)
           score == s.score
           R == Samples!RankBy(score)
<1>1. grid \in Nat /\ grid >= 2 /\ Ranked(s)
  BY DEF Finishing, SoundConfig
<1>2. score \in [1..grid -> Nat] /\ s.reruns = [i \in 1..top |-> R[i]]
  BY <1>1 DEF Ranked
<1> HIDE DEF R, grid, score, top
<1>3. top = Samples!Min({TopN, grid}) /\ top \in 1..grid /\ top \in 0..grid
  BY <1>1, TopCounts DEF top
<1>4. /\ DOMAIN score = 1..grid /\ DOMAIN s.reruns = 1..top
      /\ \A i \in 1..top : s.reruns[i] = R[i]
  BY <1>2
<1>5. Samples!Cardinality(DOMAIN score) = grid
  BY <1>1, <1>4, SamplesCardinality, FS_Interval
<1> DEFINE chosen == {R[i] : i \in 1..top}
<1>6. {s.reruns[i] : i \in DOMAIN s.reruns} = chosen
  BY <1>4
<1>7. /\ Cardinality(chosen) = top
      /\ \A c \in (1..grid) \ chosen, b \in chosen : score[c] <= score[b]
  BY <1>1, <1>2, <1>3, TopIsBest DEF R
<1>8. \A i, k \in 1..grid : i < k => score[R[i]] >= score[R[k]]
  BY <1>1, <1>2, RanksAreInOrder DEF R
<1>9. \A i \in 1..top : i \in 1..grid
  BY <1>1, <1>3
<1>10. Samples!Cardinality(chosen) = top
  BY <1>7, SamplesCardinality
<1> HIDE DEF chosen
<1> QED
  BY <1>3, <1>4, <1>5, <1>6, <1>7, <1>8, <1>9, <1>10 DEF score

\* What a job reports is fair.
THEOREM SamplesStayFair == ComputeSpec => []SamplesAreFair
<1>1. SamplesInv => SamplesAreFair
  <2> SUFFICES ASSUME SamplesInv PROVE SamplesAreFair
    OBVIOUS
  <2>1. Samples!CandlesAreWhole
    BY KeptIsWhole DEF Samples!CandlesAreWhole, Whole
  <2>2. \A j \in Samples!Completed : Finishing(job[j]) /\ job[j].at = "completed"
    BY AtEnd DEF Samples!Completed
  <2>3. Samples!NoLookAhead
    BY <2>2 DEF Samples!NoLookAhead, Finishing, Apart
  <2>4. Samples!BestAreRerun
    BY <2>2, RerunsAreBest DEF Samples!BestAreRerun
  <2> QED
    BY <2>1, <2>3, <2>4 DEF SamplesAreFair, Samples!SamplesAreFair
<1> QED
  BY <1>1, SamplesInvStays, PTL

----------------------------------------------------------------------------
(***************************************************************************)
(* Sums over finite sets.  A fold is a recursive function on the subsets of *)
(* the set; that there is one, and only one, is an induction on how many    *)
(* elements a subset has.                                                  *)
(***************************************************************************)
Total(f, S) == SumFunctionOnSet(f, S)

\* A set of natural numbers has a least element.
LEMMA LeastNat ==
  ASSUME NEW S, S \subseteq Nat, S # {}
  PROVE  \E x \in S : \A y \in S : x <= y
<1> DEFINE low == 0
<1>1. low \in Int /\ S \subseteq Int /\ \A x \in S : low <= x
  OBVIOUS
<1> HIDE DEF low
<1> QED
  BY <1>1, Least

\* Subsets built from the empty one by adding elements are all there are.
LEMMA SubsetInduction ==
  ASSUME NEW S, IsFiniteSet(S), NEW F \in SUBSET SUBSET S, {} \in F,
         \A T \in F : \A x \in S \ T : T \cup {x} \in F
  PROVE  \A T \in SUBSET S : T \in F
<1> DEFINE Bad == {Cardinality(T) : T \in (SUBSET S) \ F}
<1>1. \A T \in SUBSET S : IsFiniteSet(T) /\ Cardinality(T) \in Nat
  BY FS_Subset, FS_CardinalityType
<1>2. SUFFICES ASSUME Bad # {} PROVE FALSE
  OBVIOUS
<1>3. Bad \subseteq Nat
  BY <1>1
<1> HIDE DEF Bad
<1>4. PICK n \in Bad : \A m \in Bad : n <= m
  BY <1>2, <1>3, LeastNat
<1>5. PICK T \in (SUBSET S) \ F : n = Cardinality(T)
  BY DEF Bad
<1>6. PICK x \in T : TRUE
  BY <1>5
<1>7. Cardinality(T \ {x}) = n - 1 /\ n \in Nat
  BY <1>1, <1>5, <1>6, FS_RemoveElement
<1>8. T \ {x} \in F
  BY <1>4, <1>7, <1>5 DEF Bad
<1>9. T = (T \ {x}) \cup {x} /\ x \in S \ (T \ {x})
  BY <1>5, <1>6
<1> QED
  BY <1>5, <1>8, <1>9

\* pick chooses an element of every subset of S but the empty one.
Picks(pick, S) == \A s \in SUBSET S : s # {} => pick[s] \in s

\* g[s] is base with the elements of s stepped in, one after the other.
FoldsUp(g, S, base, pick, step) ==
    \A s \in SUBSET S :
        g[s] = IF s = {} THEN base ELSE step[<<pick[s], g[s \ {pick[s]}]>>]

\* A recursion that takes one element away at a time has a solution.
LEMMA FoldExists ==
  ASSUME NEW S, IsFiniteSet(S), NEW V, NEW base \in V,
         NEW pick, Picks(pick, S),
         NEW step \in [S \X V -> V]
  PROVE  \E g \in [SUBSET S -> V] : FoldsUp(g, S, base, pick, step)
<1> DEFINE Small(n) == {s \in SUBSET S : Cardinality(s) <= n}
           Good(n, g) == /\ g \in [Small(n) -> V]
                         /\ \A s \in Small(n) : g[s] = IF s = {} THEN base
                                    ELSE step[<<pick[s], g[s \ {pick[s]}]>>]
           Bad == {n \in Nat : ~ \E g : Good(n, g)}
<1>0. \A s \in SUBSET S : s # {} => pick[s] \in s
  BY DEF Picks
<1>1. \A s \in SUBSET S : IsFiniteSet(s) /\ Cardinality(s) \in Nat
  BY FS_Subset, FS_CardinalityType
<1>2. \A s \in SUBSET S : s # {} => /\ s \ {pick[s]} \in SUBSET S
                                    /\ Cardinality(s \ {pick[s]}) = Cardinality(s) - 1
  BY <1>0, <1>1, FS_RemoveElement
<1>3. \A s \in SUBSET S : Cardinality(s) <= 0 => s = {}
  BY <1>1, FS_EmptySet
<1>4. ASSUME Bad # {} PROVE FALSE
  <2>0. Bad \subseteq Nat
    OBVIOUS
  <2>1. PICK n \in Bad : \A m \in Bad : n <= m
    <3> HIDE DEF Bad
    <3> QED
      BY <1>4, <2>0, LeastNat
  <2>2. CASE n = 0
    <3> DEFINE g == [s \in Small(0) |-> base]
    <3>1. Good(0, g)
      BY <1>3
    <3> QED
      BY <2>2, <3>1
  <2>3. CASE n # 0
    <3>1. n - 1 \in Nat /\ n - 1 \notin Bad
      <4>1. Bad \subseteq Nat
        OBVIOUS
      <4> HIDE DEF Bad
      <4> QED
        BY <2>1, <2>3, <4>1
    <3>2. PICK g : Good(n - 1, g)
      BY <3>1
    <3> DEFINE h == [s \in Small(n) |-> IF s = {} THEN base
                                       ELSE step[<<pick[s], g[s \ {pick[s]}]>>]]
    <3>3. \A s \in Small(n) : s # {} => s \ {pick[s]} \in Small(n - 1) /\ pick[s] \in S
      BY <1>0, <1>1, <1>2
    <3>4. Small(n - 1) \subseteq Small(n)
      BY <1>1
    <3>5. h \in [Small(n) -> V]
      <4> SUFFICES ASSUME NEW s \in Small(n), s # {}
                   PROVE  step[<<pick[s], g[s \ {pick[s]}]>>] \in V
        OBVIOUS
      <4>1. g[s \ {pick[s]}] \in V /\ pick[s] \in S
        BY <3>2, <3>3
      <4> QED
        BY <4>1
    <3>6. \A u \in Small(n - 1) : h[u] = g[u]
      BY <3>2, <3>4
    <3>7. Good(n, h)
      BY <3>3, <3>5, <3>6
    <3> QED
      BY <2>1, <3>7
  <2> QED
    BY <2>2, <2>3
<1>5. Cardinality(S) \in Nat /\ Small(Cardinality(S)) = SUBSET S
  BY <1>1, FS_CardinalityType, FS_Subset
<1>6. PICK g : Good(Cardinality(S), g)
  BY <1>4, <1>5
<1>7. /\ g \in [SUBSET S -> V]
      /\ \A s \in SUBSET S : g[s] = IF s = {} THEN base
                                    ELSE step[<<pick[s], g[s \ {pick[s]}]>>]
  BY <1>5, <1>6
<1> HIDE DEF Small, Good, Bad
<1> QED
  BY <1>7 DEF FoldsUp

\* The recursion that adds up f over the subsets of S.
Adds(f, S, g) ==
    g = [s \in SUBSET S |->
           IF s = {} THEN 0
           ELSE f[CHOOSE x \in s : TRUE] + g[s \ {CHOOSE x \in s : TRUE}]]

\* The sum of a set is the value of some such recursion at the set.
LEMMA TotalIsFold ==
  ASSUME NEW f, NEW S
  PROVE  Total(f, S) = (CHOOSE g : Adds(f, S, g))[S]
BY Zenon DEF Total, SumFunctionOnSet, FoldFunctionOnSet, MapThenFoldSet, Adds

\* There is one, of whole numbers if those of f are.
LEMMA AddsExists ==
  ASSUME NEW S, IsFiniteSet(S), NEW f, \A x \in S : f[x] \in Int
  PROVE  \E g : g \in [SUBSET S -> Int] /\ Adds(f, S, g)
<1> DEFINE pick == [s \in SUBSET S |-> CHOOSE x \in s : TRUE]
           step == [p \in S \X Int |-> f[p[1]] + p[2]]
<1>1. \A s \in SUBSET S : s # {} => pick[s] \in s
  OBVIOUS
<1>2. step \in [S \X Int -> Int]
  OBVIOUS
<1>3. \A y \in S, v \in Int : step[<<y, v>>] = f[y] + v
  OBVIOUS
<1>4. PICK g \in [SUBSET S -> Int] : \A s \in SUBSET S :
         g[s] = IF s = {} THEN 0 ELSE step[<<pick[s], g[s \ {pick[s]}]>>]
  <2> DEFINE zero == 0
             V == Int
  <2>0. Picks(pick, S)
    BY <1>1 DEF Picks
  <2>1. zero \in V /\ step \in [S \X V -> V]
    BY <1>2
  <2> HIDE DEF pick, step, zero, V
  <2>2. \E g \in [SUBSET S -> V] : FoldsUp(g, S, zero, pick, step)
    BY <2>0, <2>1, FoldExists
  <2> QED
    BY <2>2 DEF zero, V, FoldsUp
<1>5. \A s \in SUBSET S : g[s] = IF s = {} THEN 0
           ELSE f[CHOOSE x \in s : TRUE] + g[s \ {CHOOSE x \in s : TRUE}]
  <2> TAKE s \in SUBSET S
  <2>1. CASE s = {}
    BY <1>4, <2>1
  <2>2. CASE s # {}
    <3>1. pick[s] \in S /\ s \ {pick[s]} \in SUBSET S
      BY <1>1, <2>2
    <3>2. g[s \ {pick[s]}] \in Int
      BY <1>4, <3>1
    <3>3. step[<<pick[s], g[s \ {pick[s]}]>>] = f[pick[s]] + g[s \ {pick[s]}]
      <4> HIDE DEF step, pick
      <4> QED
        BY <1>3, <3>1, <3>2
    <3>4. g[s] = step[<<pick[s], g[s \ {pick[s]}]>>]
      BY <1>4, <2>2
    <3>5. pick[s] = CHOOSE x \in s : TRUE
      OBVIOUS
    <3> QED
      BY <2>2, <3>3, <3>4, <3>5
  <2> QED
    BY <2>1, <2>2
<1>6. Adds(f, S, g)
  <2>1. g = [s \in SUBSET S |-> g[s]]
    BY <1>4
  <2> QED
    BY <1>5, <2>1 DEF Adds
<1> QED
  BY <1>4, <1>6

\* Over the subsets two of them have in common they agree.
LEMMA AddsAgree ==
  ASSUME NEW S, IsFiniteSet(S), NEW f, NEW T, T \subseteq S,
         NEW g, Adds(f, S, g), NEW h, Adds(f, T, h)
  PROVE  \A s \in SUBSET T : g[s] = h[s]
<1> DEFINE Bad == {Cardinality(s) : s \in {u \in SUBSET T : g[u] # h[u]}}
<1>1. \A s \in SUBSET T : IsFiniteSet(s) /\ Cardinality(s) \in Nat
  BY FS_Subset, FS_CardinalityType
<1>2. SUFFICES ASSUME Bad # {} PROVE FALSE
  OBVIOUS
<1>3. Bad \subseteq Nat
  BY <1>1
<1>4. PICK n \in Bad : \A m \in Bad : n <= m
  <2> HIDE DEF Bad
  <2> QED
    BY <1>2, <1>3, LeastNat
<1>5. PICK s \in SUBSET T : g[s] # h[s] /\ n = Cardinality(s)
  OBVIOUS
<1> DEFINE x == CHOOSE x \in s : TRUE
<1>6. s # {}
  <2>1. SUFFICES ASSUME s = {} PROVE g[s] = h[s]
    BY <1>5
  <2>2. {} \in SUBSET S /\ {} \in SUBSET T
    OBVIOUS
  <2> QED
    BY <2>1, <2>2 DEF Adds
<1>7. x \in s
  BY <1>6
<1> HIDE DEF x
<1>8. Cardinality(s \ {x}) = n - 1 /\ n \in Nat /\ s \ {x} \in SUBSET T
  BY <1>1, <1>5, <1>7, FS_RemoveElement
<1>9. g[s \ {x}] = h[s \ {x}]
  <2>1. n - 1 \notin Bad
    <3> HIDE DEF Bad
    <3> QED
      BY <1>4, <1>8
  <2> QED
    BY <1>8, <2>1
<1>10. g[s] = f[x] + g[s \ {x}] /\ h[s] = f[x] + h[s \ {x}]
  BY <1>5, <1>6 DEF Adds, x
<1> QED
  BY <1>5, <1>9, <1>10

\* What can be added up.
Summable(f, S) == IsFiniteSet(S) /\ \A x \in S : f[x] \in Int

\* A sum of nothing is 0; the sum of a set is that of what is left without one
\* of its elements, and this element.
LEMMA TotalUnfolds ==
  ASSUME NEW S, NEW f, Summable(f, S)
  PROVE  /\ Total(f, S) \in Int
         /\ S = {} => Total(f, S) = 0
         /\ S # {} => \E x \in S : Total(f, S) = f[x] + Total(f, S \ {x})
<1> DEFINE g == CHOOSE g : Adds(f, S, g)
<1>1. PICK h : h \in [SUBSET S -> Int] /\ Adds(f, S, h)
  BY AddsExists DEF Summable
<1>2. Adds(f, S, g)
  BY <1>1
<1> HIDE DEF g
<1>3. Total(f, S) = g[S]
  BY TotalIsFold DEF g
<1>4. \A s \in SUBSET S : g[s] = h[s]
  BY <1>1, <1>2, AddsAgree DEF Summable
<1>5. Total(f, S) \in Int
  BY <1>1, <1>3, <1>4
<1>6. S = {} => Total(f, S) = 0
  BY <1>2, <1>3 DEF Adds
<1>7. ASSUME S # {}
      PROVE  \E x \in S : Total(f, S) = f[x] + Total(f, S \ {x})
  <2> DEFINE x == CHOOSE x \in S : TRUE
             k == CHOOSE k : Adds(f, S \ {x}, k)
  <2>1. x \in S
    BY <1>7
  <2>2. g[S] = f[x] + g[S \ {x}]
    BY <1>2, <1>7 DEF Adds
  <2> HIDE DEF x
  <2>3. IsFiniteSet(S \ {x}) /\ \A y \in S \ {x} : f[y] \in Int
    BY FS_Subset DEF Summable
  <2>4. \E j : Adds(f, S \ {x}, j)
    BY <2>3, AddsExists
  <2>5. Adds(f, S \ {x}, k)
    BY <2>4
  <2> HIDE DEF k
  <2>6. g[S \ {x}] = k[S \ {x}]
    BY <1>2, <2>5, AddsAgree DEF Summable
  <2>7. Total(f, S \ {x}) = k[S \ {x}]
    BY TotalIsFold DEF k
  <2> QED
    BY <1>3, <2>1, <2>2, <2>6, <2>7
<1> QED
  BY <1>5, <1>6, <1>7

\* So it is with the subsets of what can be added up.
LEMMA SubsetsSum ==
  ASSUME NEW S, NEW f, Summable(f, S), NEW T, T \subseteq S
  PROVE  Summable(f, T) /\ Total(f, T) \in Int
BY FS_Subset, TotalUnfolds DEF Summable

\* Nothing sums up to 0.
LEMMA TotalOfNone == \A f : Total(f, {}) = 0
<1> TAKE f
<1>1. Summable(f, {})
  BY FS_EmptySet DEF Summable
<1> QED
  BY <1>1, TotalUnfolds

\* Any element may be taken out of a sum.
LEMMA TotalWithout ==
  ASSUME NEW S, NEW f, Summable(f, S), NEW x \in S
  PROVE  Total(f, S) = f[x] + Total(f, S \ {x})
<1> DEFINE Bad == {Cardinality(T) : T \in {U \in SUBSET S :
                     \E y \in U : Total(f, U) # f[y] + Total(f, U \ {y})}}
<1>1. \A T \in SUBSET S : Summable(f, T) /\ IsFiniteSet(T) /\ Cardinality(T) \in Nat
  BY SubsetsSum, FS_CardinalityType DEF Summable
<1>2. SUFFICES ASSUME Bad # {} PROVE FALSE
  OBVIOUS
<1>3. Bad \subseteq Nat
  BY <1>1
<1>4. PICK n \in Bad : \A m \in Bad : n <= m
  <2> HIDE DEF Bad
  <2> QED
    BY <1>2, <1>3, LeastNat
<1>14. PICK T \in SUBSET S :
         n = Cardinality(T) /\ \E y \in T : Total(f, T) # f[y] + Total(f, T \ {y})
  OBVIOUS
<1>5. PICK y \in T : n = Cardinality(T) /\ Total(f, T) # f[y] + Total(f, T \ {y})
  BY <1>14
<1>6. PICK c \in T : Total(f, T) = f[c] + Total(f, T \ {c})
  BY <1>1, <1>5, TotalUnfolds
<1>7. c # y
  BY <1>5, <1>6
<1>8. ASSUME NEW U \in SUBSET S, Cardinality(U) = n - 1, NEW z \in U
      PROVE  Total(f, U) = f[z] + Total(f, U \ {z})
  <2>1. n \in Nat /\ n - 1 \notin Bad
    <3> HIDE DEF Bad
    <3> QED
      BY <1>3, <1>4
  <2> QED
    BY <1>8, <2>1
<1> HIDE DEF Bad
<1>9. Cardinality(T \ {c}) = n - 1 /\ Cardinality(T \ {y}) = n - 1
  BY <1>1, <1>5, FS_RemoveElement
<1>10. (T \ {c}) \ {y} = (T \ {y}) \ {c}
  OBVIOUS
<1>11. Total(f, T \ {c}) = f[y] + Total(f, (T \ {y}) \ {c})
  BY <1>7, <1>8, <1>9, <1>10
<1>12. Total(f, T \ {y}) = f[c] + Total(f, (T \ {y}) \ {c})
  BY <1>7, <1>8, <1>9
<1>13. /\ f[c] \in Int /\ f[y] \in Int
       /\ Total(f, (T \ {y}) \ {c}) \in Int
  <2>1. (T \ {y}) \ {c} \in SUBSET S
    OBVIOUS
  <2> QED
    BY <1>1, <2>1, TotalUnfolds DEF Summable
<1> QED
  BY <1>5, <1>6, <1>11, <1>12, <1>13

\* An element more adds to the sum.
LEMMA TotalWith ==
  ASSUME NEW S, NEW f, NEW x, x \notin S, Summable(f, S \cup {x})
  PROVE  Total(f, S \cup {x}) = f[x] + Total(f, S)
<1>1. (S \cup {x}) \ {x} = S
  OBVIOUS
<1> QED
  BY <1>1, TotalWithout

\* Sums of sets apart are added.
LEMMA TotalOfUnion ==
  ASSUME NEW S, NEW T, S \cap T = {}, NEW f, Summable(f, S), Summable(f, T)
  PROVE  /\ Summable(f, S \cup T)
         /\ Total(f, S \cup T) = Total(f, S) + Total(f, T)
<1>1. Summable(f, S \cup T)
  BY FS_Union DEF Summable
<1> DEFINE F == {U \in SUBSET T : Total(f, S \cup U) = Total(f, S) + Total(f, U)}
<1>2. {} \in F
  <2>1. S \cup {} = S /\ Total(f, S) \in Int
    BY SubsetsSum
  <2> QED
    BY <2>1, TotalOfNone
<1>3. ASSUME NEW U \in F, NEW x \in T \ U PROVE U \cup {x} \in F
  <2>1. /\ Summable(f, S \cup U) /\ Total(f, S \cup U) \in Int
        /\ Summable(f, U) /\ Total(f, U) \in Int
        /\ Summable(f, U \cup {x}) /\ Total(f, S) \in Int /\ f[x] \in Int
    BY <1>1, SubsetsSum DEF Summable
  <2>2. Summable(f, (S \cup U) \cup {x})
    BY <1>1, SubsetsSum
  <2>3. Total(f, (S \cup U) \cup {x}) = f[x] + Total(f, S \cup U)
    BY <2>2, TotalWith
  <2>4. Total(f, U \cup {x}) = f[x] + Total(f, U)
    BY <2>1, TotalWith
  <2>5. S \cup (U \cup {x}) = (S \cup U) \cup {x}
    OBVIOUS
  <2>6. Total(f, S \cup U) = Total(f, S) + Total(f, U)
    OBVIOUS
  <2> HIDE DEF F
  <2>7. Total(f, S \cup (U \cup {x})) = f[x] + Total(f, S \cup U)
    BY <2>3, <2>5, Zenon
  <2>8. Total(f, S \cup (U \cup {x})) = Total(f, S) + Total(f, U \cup {x})
    BY <2>1, <2>4, <2>6, <2>7
  <2> QED
    BY <2>8 DEF F
<1>4. F \in SUBSET SUBSET T /\ IsFiniteSet(T)
  BY DEF Summable
<1> HIDE DEF F
<1>5. T \in F
  BY <1>2, <1>3, <1>4, SubsetInduction
<1> QED
  BY <1>1, <1>5 DEF F

\* The sum of the sums of two, of what is counted by a third.
LEMMA TotalOfSum ==
  ASSUME NEW S, NEW f, NEW g, NEW h, Summable(f, S), Summable(g, S),
         \A x \in S : h[x] = f[x] + g[x]
  PROVE  /\ Summable(h, S)
         /\ Total(h, S) = Total(f, S) + Total(g, S)
<1>1. Summable(h, S)
  BY DEF Summable
<1> DEFINE F == {U \in SUBSET S : Total(h, U) = Total(f, U) + Total(g, U)}
<1>2. {} \in F
  BY TotalOfNone
<1>3. ASSUME NEW U \in F, NEW x \in S \ U PROVE U \cup {x} \in F
  <2>1. /\ Total(f, U) \in Int /\ Total(g, U) \in Int
        /\ f[x] \in Int /\ g[x] \in Int
    BY SubsetsSum DEF Summable
  <2>2. Summable(f, U \cup {x}) /\ Summable(g, U \cup {x}) /\ Summable(h, U \cup {x})
    BY <1>1, SubsetsSum
  <2>3. /\ Total(f, U \cup {x}) = f[x] + Total(f, U)
        /\ Total(g, U \cup {x}) = g[x] + Total(g, U)
        /\ Total(h, U \cup {x}) = h[x] + Total(h, U)
    BY <2>2, TotalWith
  <2>4. Total(h, U) = Total(f, U) + Total(g, U)
    OBVIOUS
  <2> HIDE DEF F
  <2>5. Total(h, U \cup {x}) = Total(f, U \cup {x}) + Total(g, U \cup {x})
    BY <2>1, <2>3, <2>4
  <2> QED
    BY <2>5 DEF F
<1>4. F \in SUBSET SUBSET S /\ IsFiniteSet(S)
  BY DEF Summable
<1> HIDE DEF F
<1>5. S \in F
  BY <1>2, <1>3, <1>4, SubsetInduction
<1> QED
  BY <1>1, <1>5 DEF F

\* What is counted alike sums up alike, also under other names: m gives each
\* element of S one of its own.
LEMMA TotalOfImage ==
  ASSUME NEW S, NEW m, \A x, y \in S : m[x] = m[y] => x = y,
         NEW f, NEW g, Summable(f, S), \A x \in S : g[m[x]] = f[x],
         NEW T, T = {m[x] : x \in S}
  PROVE  Summable(g, T) /\ Total(g, T) = Total(f, S)
<1> DEFINE Image(U) == {m[x] : x \in U}
           F == {U \in SUBSET S : /\ Summable(g, Image(U))
                                  /\ Total(g, Image(U)) = Total(f, U)}
<1>1. {} \in F
  <2>1. Image({}) = {} /\ Summable(g, {})
    BY FS_EmptySet DEF Summable
  <2> QED
    BY <2>1, TotalOfNone
<1>2. ASSUME NEW U \in F, NEW x \in S \ U PROVE U \cup {x} \in F
  <2>1. Image(U \cup {x}) = Image(U) \cup {m[x]} /\ m[x] \notin Image(U)
    OBVIOUS
  <2>2. Summable(g, Image(U)) /\ Total(g, Image(U)) = Total(f, U)
    OBVIOUS
  <2>3. Summable(f, U \cup {x}) /\ f[x] \in Int /\ g[m[x]] = f[x]
    BY SubsetsSum DEF Summable
  <2> HIDE DEF F, Image
  <2>4. Summable(g, Image(U) \cup {m[x]})
    BY <2>2, <2>3, FS_AddElement DEF Summable
  <2>5. Total(g, Image(U) \cup {m[x]}) = g[m[x]] + Total(g, Image(U))
    BY <2>1, <2>4, TotalWith
  <2>6. Total(f, U \cup {x}) = f[x] + Total(f, U)
    BY <2>3, TotalWith
  <2>7. /\ Summable(g, Image(U \cup {x}))
        /\ Total(g, Image(U \cup {x})) = Total(f, U \cup {x})
    BY <2>1, <2>2, <2>3, <2>4, <2>5, <2>6
  <2>8. U \cup {x} \in SUBSET S
    BY DEF F
  <2> QED
    BY <2>7, <2>8 DEF F
<1>3. F \in SUBSET SUBSET S /\ IsFiniteSet(S)
  BY DEF Summable
<1> HIDE DEF F
<1>4. S \in F
  BY <1>1, <1>2, <1>3, SubsetInduction
<1>5. T = Image(S)
  OBVIOUS
<1> HIDE DEF Image
<1> QED
  BY <1>4, <1>5 DEF F

\* A sum of what is never negative is not.
LEMMA TotalOfNats ==
  ASSUME NEW S, NEW f, IsFiniteSet(S), \A x \in S : f[x] \in Nat
  PROVE  Total(f, S) \in Nat
<1>1. Summable(f, S)
  BY DEF Summable
<1> DEFINE F == {U \in SUBSET S : Total(f, U) \in Nat}
<1>2. {} \in F
  BY TotalOfNone
<1>3. ASSUME NEW U \in F, NEW x \in S \ U PROVE U \cup {x} \in F
  <2>1. Summable(f, U \cup {x}) /\ f[x] \in Nat
    BY <1>1, SubsetsSum
  <2>2. Total(f, U \cup {x}) = f[x] + Total(f, U)
    BY <2>1, TotalWith
  <2> QED
    BY <2>1, <2>2
<1>4. F \in SUBSET SUBSET S
  OBVIOUS
<1> HIDE DEF F
<1>5. S \in F
  BY <1>2, <1>3, <1>4, SubsetInduction
<1> QED
  BY <1>5 DEF F

----------------------------------------------------------------------------
(***************************************************************************)
(* The books of a replay.                                                  *)
(***************************************************************************)

\* The sums of the engine are sums of functions.
LEMMA EngineSums ==
  ASSUME NEW D, NEW S, S \subseteq D
  PROVE  /\ MapThenSumSet(OpenFee, S) = Total([p \in D |-> OpenFee(p)], S)
         /\ MapThenSumSet(CloseFee, S) = Total([t \in D |-> CloseFee(t)], S)
         /\ MapThenSumSet(GrossPnl, S) = Total([t \in D |-> GrossPnl(t)], S)
         /\ MapThenSumSet(NetPnl, S) = Total([t \in D |-> NetPnl(t)], S)
<1> USE DEF Total, MapThenSumSet, MapThenFoldSet, SumFunctionOnSet, FoldFunctionOnSet
<1>1. MapThenSumSet(OpenFee, S) = Total([p \in D |-> OpenFee(p)], S)
  BY Zenon
<1>2. MapThenSumSet(CloseFee, S) = Total([t \in D |-> CloseFee(t)], S)
  BY Zenon
<1>3. MapThenSumSet(GrossPnl, S) = Total([t \in D |-> GrossPnl(t)], S)
  BY Zenon
<1>4. MapThenSumSet(NetPnl, S) = Total([t \in D |-> NetPnl(t)], S)
  BY Zenon
<1> QED
  BY <1>1, <1>2, <1>3, <1>4

\* Opens have whole fees, trades whole results.
Priced(p) == OpenFee(p) \in Int
Settled(t) == Priced(t.leg) /\ GrossPnl(t) \in Int /\ CloseFee(t) \in Int

\* Fees of opens add up.
LEMMA OpenFeesOfUnion ==
  ASSUME NEW S, NEW T, S \cap T = {}, IsFiniteSet(S), IsFiniteSet(T),
         \A p \in S \cup T : Priced(p)
  PROVE  /\ MapThenSumSet(OpenFee, S) \in Int /\ MapThenSumSet(OpenFee, T) \in Int
         /\ MapThenSumSet(OpenFee, S \cup T)
              = MapThenSumSet(OpenFee, S) + MapThenSumSet(OpenFee, T)
<1> DEFINE f == [p \in S \cup T |-> OpenFee(p)]
<1>1. Summable(f, S) /\ Summable(f, T)
  BY DEF Summable, Priced
<1>2. /\ MapThenSumSet(OpenFee, S) = Total(f, S)
      /\ MapThenSumSet(OpenFee, T) = Total(f, T)
      /\ MapThenSumSet(OpenFee, S \cup T) = Total(f, S \cup T)
  <2>1. S \subseteq S \cup T /\ T \subseteq S \cup T /\ S \cup T \subseteq S \cup T
    OBVIOUS
  <2> QED
    BY <2>1, EngineSums
<1> HIDE DEF f
<1>3. Total(f, S \cup T) = Total(f, S) + Total(f, T)
  BY <1>1, TotalOfUnion
<1>4. Total(f, S) \in Int /\ Total(f, T) \in Int
  BY <1>1, TotalUnfolds
<1> QED
  BY <1>2, <1>3, <1>4

\* So do the results of trades.
LEMMA ResultsOfUnion ==
  ASSUME NEW S, NEW T, S \cap T = {}, IsFiniteSet(S), IsFiniteSet(T),
         \A t \in S \cup T : Settled(t)
  PROVE  /\ MapThenSumSet(NetPnl, S) \in Int /\ MapThenSumSet(NetPnl, T) \in Int
         /\ MapThenSumSet(NetPnl, S \cup T)
              = MapThenSumSet(NetPnl, S) + MapThenSumSet(NetPnl, T)
<1> DEFINE f == [t \in S \cup T |-> NetPnl(t)]
<1>1. Summable(f, S) /\ Summable(f, T)
  BY DEF Summable, Settled, Priced, NetPnl
<1>2. /\ MapThenSumSet(NetPnl, S) = Total(f, S)
      /\ MapThenSumSet(NetPnl, T) = Total(f, T)
      /\ MapThenSumSet(NetPnl, S \cup T) = Total(f, S \cup T)
  <2>1. S \subseteq S \cup T /\ T \subseteq S \cup T /\ S \cup T \subseteq S \cup T
    OBVIOUS
  <2> QED
    BY <2>1, EngineSums
<1> HIDE DEF f
<1>3. Total(f, S \cup T) = Total(f, S) + Total(f, T)
  BY <1>1, TotalOfUnion
<1>4. Total(f, S) \in Int /\ Total(f, T) \in Int
  BY <1>1, TotalUnfolds
<1> QED
  BY <1>2, <1>3, <1>4

\* What closing the legs of gone by the trades m adds to the accumulators.
LEMMA SumsOfClosing ==
  ASSUME NEW gone, IsFiniteSet(gone), NEW m, \A p \in gone : m[p].leg = p /\ Settled(m[p]),
         NEW done, done = {m[p] : p \in gone}
  PROVE  /\ IsFiniteSet(done)
         /\ MapThenSumSet(GrossPnl, done) \in Int /\ MapThenSumSet(CloseFee, done) \in Int
         /\ MapThenSumSet(OpenFee, gone) \in Int
         /\ MapThenSumSet(NetPnl, done)
              = MapThenSumSet(GrossPnl, done) - MapThenSumSet(CloseFee, done)
                  - MapThenSumSet(OpenFee, gone)
<1> DEFINE g == [t \in done |-> GrossPnl(t)]
           c == [t \in done |-> CloseFee(t)]
           n == [t \in done |-> NetPnl(t)]
           o == [p \in gone |-> OpenFee(p)]
           oc == [t \in done |-> OpenFee(t.leg) + CloseFee(t)]
           ol == [t \in done |-> OpenFee(t.leg)]
<1>1. \A p \in gone : /\ OpenFee(p) \in Int /\ GrossPnl(m[p]) \in Int
                      /\ CloseFee(m[p]) \in Int /\ m[p].leg = p
  BY DEF Settled, Priced
<1>2. Summable(o, gone) /\ \A p \in gone : ol[m[p]] = o[p]
  BY <1>1 DEF Summable
<1>3. \A p, q \in gone : m[p] = m[q] => p = q
  BY <1>1
<1>4. Summable(ol, done) /\ Total(ol, done) = Total(o, gone)
  <2> HIDE DEF ol, o
  <2> QED
    BY <1>2, <1>3, TotalOfImage
<1>5. IsFiniteSet(done)
  BY <1>4 DEF Summable
<1>6. \A t \in done : GrossPnl(t) \in Int /\ CloseFee(t) \in Int /\ OpenFee(t.leg) \in Int
  BY <1>1
<1>7. /\ Summable(g, done) /\ Summable(c, done) /\ Summable(n, done)
      /\ Summable(oc, done)
  BY <1>5, <1>6 DEF Summable, NetPnl
<1>8. /\ \A t \in done : oc[t] = ol[t] + c[t]
      /\ \A t \in done : g[t] = n[t] + oc[t]
  BY <1>6 DEF NetPnl
<1>9. /\ MapThenSumSet(GrossPnl, done) = Total(g, done)
      /\ MapThenSumSet(CloseFee, done) = Total(c, done)
      /\ MapThenSumSet(NetPnl, done) = Total(n, done)
      /\ MapThenSumSet(OpenFee, gone) = Total(o, gone)
  <2>1. done \subseteq done /\ gone \subseteq gone
    OBVIOUS
  <2> QED
    BY <2>1, EngineSums
<1> HIDE DEF g, c, n, o, oc, ol
<1>10. Total(oc, done) = Total(ol, done) + Total(c, done)
  BY <1>4, <1>7, <1>8, TotalOfSum
<1>11. Total(g, done) = Total(n, done) + Total(oc, done)
  BY <1>7, <1>8, TotalOfSum
<1>12. /\ Total(g, done) \in Int /\ Total(c, done) \in Int /\ Total(n, done) \in Int
       /\ Total(o, gone) \in Int
  BY <1>2, <1>7, TotalUnfolds
<1> QED
  BY <1>4, <1>5, <1>9, <1>10, <1>11, <1>12

\* No legs cost no fees.
LEMMA NoFees == MapThenSumSet(OpenFee, {}) = 0
<1> DEFINE none == {}
<1>1. none \subseteq none
  OBVIOUS
<1>2. MapThenSumSet(OpenFee, none) = Total([p \in none |-> OpenFee(p)], none)
  <2> HIDE DEF none
  <2> QED
    BY <1>1, EngineSums
<1>3. Total([p \in none |-> OpenFee(p)], {}) = 0
  BY TotalOfNone
<1> QED
  BY <1>2, <1>3

\* A share of whole numbers is one.
LEMMA PercentIsInt ==
  ASSUME NEW rate \in Int, NEW x \in Int
  PROVE  Percent(rate, x) \in Int
<1> DEFINE a == x * rate
<1>1. a \in Int
  OBVIOUS
<1> HIDE DEF a
<1>2. a \div 100 \in Int
  BY <1>1
<1> QED
  BY <1>2 DEF Percent, a

\* A leg of a fair ledger has whole prices.
LEMMA LegIsPriced ==
  ASSUME NEW bs \in Seq(Candles), NEW p, LegOf(p, bs, FALSE)
  PROVE  /\ p.price \in Nat /\ p.fill \in Nat /\ p.qty \in Nat /\ p.side \in Sides
         /\ p.fill = FillPrice(p.price, p.side, "OPEN")
         /\ Priced(p)
<1>1. p.price \in Nat /\ p.qty \in Nat /\ p.side \in Sides
  <2>1. p.price \in Nat /\ p.qty \in Int /\ p.qty > 0
    BY PricesAre
  <2> QED
    BY <2>1 DEF LegOf
<1>2. p.fill = FillPrice(p.price, p.side, "OPEN")
  BY DEF LegOf, Filled
<1>3. p.fill \in Nat
  BY <1>1, <1>2, FillIsWorse
<1>4. p.fill * p.qty \in Int
  BY <1>1, <1>3
<1>5. OpenFee(p) \in Int
  BY <1>4, PercentIsInt, CostAssumption DEF OpenFee
<1> QED
  BY <1>1, <1>2, <1>3, <1>5 DEF Priced

\* And a trade a whole result.
LEMMA TradeIsSettled ==
  ASSUME NEW bs \in Seq(Candles), NEW t, TradeOf(t, bs, FALSE)
  PROVE  /\ t.price \in Nat /\ t.fill \in Nat
         /\ t.fill = FillPrice(t.price, t.leg.side, "CLOSE")
         /\ Settled(t) /\ NetPnl(t) \in Int
<1>1. /\ t.leg.price \in Nat /\ t.leg.fill \in Nat /\ t.leg.qty \in Nat
      /\ t.leg.side \in Sides /\ Priced(t.leg)
  BY LegIsPriced DEF TradeOf
<1>2. t.price \in Nat
  BY TradePriceIs
<1>3. t.fill = FillPrice(t.price, t.leg.side, "CLOSE")
  BY DEF TradeOf, ClosedBy, Filled
<1>4. t.fill \in Nat
  BY <1>1, <1>2, <1>3, FillIsWorse
<1>5. CloseFee(t) \in Int
  <2>1. t.fill * t.leg.qty \in Int
    BY <1>1, <1>4
  <2> QED
    BY <2>1, PercentIsInt, CostAssumption DEF CloseFee
<1>6. GrossPnl(t) \in Int
  <2>1. Gain(t.leg.side, t.leg.fill, t.fill) \in Int
    BY <1>1, <1>4 DEF Gain
  <2> QED
    BY <1>1, <2>1 DEF GrossPnl
<1> QED
  BY <1>1, <1>2, <1>3, <1>4, <1>5, <1>6 DEF Settled, Priced, NetPnl

\* The ledger of the replay is fair.
FairInv == bars \in Seq(Candles) /\ Fair(open, trades, bars, pc, FALSE)

\* It stays fair, whatever the replay without costs does.
LEMMA FairInvStays == Spec => []FairInv
<1>1. Init => FairInv
  <2> SUFFICES ASSUME Init PROVE FairInv
    OBVIOUS
  <2>1. bars = <<>> /\ open = {} /\ trades = {} /\ pc = "bar"
    BY DEF Init
  <2> QED
    BY <2>1 DEF FairInv, Fair
<1>2. FairInv /\ [Next]_vars => FairInv'
  <2> SUFFICES ASSUME FairInv, [Next]_vars PROVE FairInv'
    OBVIOUS
  <2>1. CASE Next
    <3>1. bars' \in Seq(Candles)
      BY <2>1 DEF FairInv, Next, ReadBar, Exits, OpenCycle, SkipCycle, Sample,
                  CloseRest, NoBars, Finish
    <3>2. Fair(open', trades', bars', pc', FALSE)
      BY <2>1, StepOfLedger, LedgerStaysFair DEF FairInv
    <3>3. Fair(open, trades, bars, pc, FALSE)'
      BY <3>2
    <3> QED
      BY <3>1, <3>3 DEF FairInv
  <2>2. CASE UNCHANGED vars
    BY <2>2 DEF vars, FairInv, Fair, TradeOf, LegOf, Quiet, Exited
  <2> QED
    BY <2>1, <2>2
<1> QED
  BY <1>1, <1>2, PTL DEF Spec

\* What the accumulators are.
BookInv ==
    /\ IsFiniteSet(open) /\ IsFiniteSet(trades)
    /\ fees \in Int /\ gross \in Int /\ net \in Int
    /\ BooksBalance

\* Legs open, the new ones included, that are closed by the trades m are booked.
LEMMA ClosingIsBooked ==
  ASSUME FairInv, FairInv', BookInv,
         NEW new, IsFiniteSet(new), \A p \in new : Priced(p), open \cap new = {},
         NEW gone, gone \subseteq open \cup new, open' = (open \cup new) \ gone,
         \A p \in gone : \A t \in trades : t.leg # p,
         NEW m, \A p \in gone : m[p].leg = p,
         Book(MapThenSumSet(OpenFee, new), {m[p] : p \in gone})
  PROVE  BookInv'
<1> DEFINE done == {m[p] : p \in gone}
           G == MapThenSumSet(GrossPnl, done)
           C == MapThenSumSet(CloseFee, done)
           N == MapThenSumSet(NetPnl, done)
           paid == MapThenSumSet(OpenFee, new)
<1>1. /\ trades' = trades \cup done /\ gross' = gross + G /\ net' = net + N
      /\ fees' = fees + paid + C
  BY DEF Book
<1>2. \A p \in open : Priced(p)
  BY LegIsPriced DEF FairInv, Fair
<1>3. \A t \in trades' : Settled(t)
  BY TradeIsSettled DEF FairInv, Fair
<1>4. IsFiniteSet(open \cup new) /\ IsFiniteSet(gone) /\ IsFiniteSet(open')
  <2>1. IsFiniteSet(open \cup new)
    BY FS_Union DEF BookInv
  <2> QED
    BY <2>1, FS_Subset
<1>5. \A p \in gone : Settled(m[p])
  BY <1>1, <1>3
<1>6. /\ IsFiniteSet(done) /\ G \in Int /\ C \in Int
      /\ MapThenSumSet(OpenFee, gone) \in Int
      /\ N = G - C - MapThenSumSet(OpenFee, gone)
  BY <1>4, <1>5, SumsOfClosing
<1>7. done \cap trades = {}
  OBVIOUS
<1> HIDE DEF done
<1>8. /\ MapThenSumSet(OpenFee, open) \in Int /\ paid \in Int
      /\ MapThenSumSet(OpenFee, open \cup new) = MapThenSumSet(OpenFee, open) + paid
  BY <1>2, OpenFeesOfUnion DEF BookInv
<1>9. /\ MapThenSumSet(OpenFee, open') \in Int
      /\ MapThenSumSet(OpenFee, open \cup new)
           = MapThenSumSet(OpenFee, open') + MapThenSumSet(OpenFee, gone)
  <2>1. open' \cap gone = {} /\ open \cup new = open' \cup gone
    OBVIOUS
  <2>2. \A p \in open' \cup gone : Priced(p)
    BY <1>2, <2>1
  <2>3. /\ MapThenSumSet(OpenFee, open') \in Int
        /\ MapThenSumSet(OpenFee, open' \cup gone)
             = MapThenSumSet(OpenFee, open') + MapThenSumSet(OpenFee, gone)
    BY <1>4, <2>1, <2>2, OpenFeesOfUnion
  <2> QED
    BY <2>1, <2>3
<1>10. /\ N \in Int
       /\ MapThenSumSet(NetPnl, trades') = MapThenSumSet(NetPnl, trades) + N
  <2>1. trades \cap done = {} /\ IsFiniteSet(trades) /\ \A t \in trades \cup done : Settled(t)
    BY <1>1, <1>3, <1>7 DEF BookInv
  <2>2. MapThenSumSet(NetPnl, trades \cup done) = MapThenSumSet(NetPnl, trades) + N
    BY <1>6, <2>1, ResultsOfUnion
  <2>3. N \in Int
    BY <1>6, <2>1, ResultsOfUnion
  <2> QED
    BY <1>1, <2>2, <2>3
<1> HIDE DEF G, C, N, paid
<1>11. /\ gross \in Int /\ fees \in Int /\ net \in Int
       /\ net = gross - fees + MapThenSumSet(OpenFee, open)
       /\ net = MapThenSumSet(NetPnl, trades)
  BY DEF BookInv, BooksBalance
<1>12. /\ gross' \in Int /\ net' \in Int /\ fees' \in Int
       /\ net' = gross' - fees' + MapThenSumSet(OpenFee, open')
       /\ net' = MapThenSumSet(NetPnl, trades')
  BY <1>1, <1>6, <1>8, <1>9, <1>10, <1>11
<1>13. IsFiniteSet(trades')
  BY <1>1, <1>6, FS_Union DEF BookInv
<1> QED
  BY <1>4, <1>12, <1>13 DEF BookInv, BooksBalance

\* The books are balanced from bar to bar.
LEMMA BooksStayBalanced == Spec => []BookInv
<1>1. Init => BookInv
  <2> SUFFICES ASSUME Init PROVE BookInv
    OBVIOUS
  <2>1. /\ open = {} /\ trades = {} /\ fees = 0 /\ gross = 0 /\ net = 0
    BY DEF Init
  <2>2. MapThenSumSet(NetPnl, {}) = 0
    <3> DEFINE none == {}
    <3>1. none \subseteq none
      OBVIOUS
    <3>2. MapThenSumSet(NetPnl, none) = Total([t \in none |-> NetPnl(t)], none)
      <4> HIDE DEF none
      <4> QED
        BY <3>1, EngineSums
    <3>3. Total([t \in none |-> NetPnl(t)], {}) = 0
      BY TotalOfNone
    <3> QED
      BY <3>2, <3>3
  <2>3. MapThenSumSet(NetPnl, trades) = 0 /\ MapThenSumSet(OpenFee, open) = 0
    BY <2>1, <2>2, NoFees, Zenon
  <2> QED
    BY <2>1, <2>3, FS_EmptySet DEF BookInv, BooksBalance
<1>2. FairInv /\ FairInv' /\ AccountInv /\ AccountInv' /\ BookInv /\ [Next]_vars
        => BookInv'
  <2> SUFFICES ASSUME FairInv, FairInv', AccountInv, AccountInv', BookInv, [Next]_vars
               PROVE  BookInv'
    OBVIOUS
  <2>0. \A p \in open, t \in trades : t.leg # p
    BY DEF AccountInv, LegsAccounted, Accounted, Traded
  <2>1. CASE Exits
    <3> DEFINE gone == {p \in open : Touched(p, Bar)}
               m == [p \in gone |-> Exit(p)]
               new == {}
    <3>1. /\ open' = (open \cup new) \ gone /\ gone \subseteq open \cup new
          /\ Book(0, {m[p] : p \in gone})
      BY <2>1 DEF Exits
    <3>2. \A p \in gone : m[p].leg = p
      BY LegOfExit
    <3>3. \A p \in gone : \A t \in trades : t.leg # p
      BY <2>0
    <3> HIDE DEF gone, m
    <3>4. Book(MapThenSumSet(OpenFee, new), {m[p] : p \in gone})
      BY <3>1, NoFees
    <3>5. IsFiniteSet(new) /\ open \cap new = {} /\ \A p \in new : Priced(p)
      BY FS_EmptySet
    <3> HIDE DEF new
    <3> QED
      BY <3>1, <3>2, <3>3, <3>4, <3>5, ClosingIsBooked
  <2>2. CASE OpenCycle
    <3> DEFINE new == {NewLeg(side) : side \in Sides}
               gone == {p \in open \cup new : Touched(p, Bar)}
               m == [p \in gone |-> Exit(p)]
    <3>1. /\ open' = (open \cup new) \ gone /\ gone \subseteq open \cup new
          /\ Book(MapThenSumSet(OpenFee, new), {m[p] : p \in gone})
      BY <2>2 DEF OpenCycle
    <3>2. \A p \in gone : m[p].leg = p
      BY LegOfExit
    <3>3. IsFiniteSet(new)
      <4>1. \A a, b : IsFiniteSet({a} \cup {b})
        BY FS_Singleton, FS_Union
      <4>2. new = {NewLeg("LONG")} \cup {NewLeg("SHORT")}
        BY DEF Sides
      <4> HIDE DEF new
      <4> QED
        BY <4>1, <4>2
    <3>4. \A p \in open \cup Traded(trades) : p.cycle # Now
      <4>1. pc = "cycle" /\ Now \in Nat
        BY <2>2 DEF OpenCycle, AccountInv, Now
      <4> QED
        BY <4>1 DEF AccountInv, Decided
    <3>5. \A p \in new : p.cycle = Now
      BY NewLegIsOfTheBar
    <3>6. \A p \in new : LegOf(p, bars, FALSE)
      <4>1. pc = "cycle" /\ Quantity(Bar.open) > 0
        BY <2>2 DEF OpenCycle
      <4>2. Len(bars) \in 1..Len(bars)
        BY <4>1 DEF FairInv, Fair
      <4> QED
        BY <4>1, <4>2 DEF NewLeg, LegOf, Filled, Bar, Now
    <3>7. \A p \in new : Priced(p)
      <4> HIDE DEF new
      <4> QED
        BY <3>6, LegIsPriced DEF FairInv
    <3>8. open \cap new = {}
      BY <3>4, <3>5
    <3>9. \A p \in gone : \A t \in trades : t.leg # p
      BY <2>0, <3>4, <3>5 DEF Traded
    <3> HIDE DEF new, gone, m
    <3> QED
      BY <3>1, <3>2, <3>3, <3>7, <3>8, <3>9, ClosingIsBooked
  <2>3. CASE CloseRest
    <3> DEFINE gone == open
               m == [p \in gone |-> Trade(p, "EOD", Bar.close)]
               new == {}
    <3>1. /\ open' = (open \cup new) \ gone /\ gone \subseteq open \cup new
          /\ Book(0, {m[p] : p \in gone})
      BY <2>3 DEF CloseRest
    <3>2. \A p \in gone : m[p].leg = p
      BY LegOfTrade
    <3>3. \A p \in gone : \A t \in trades : t.leg # p
      BY <2>0
    <3> HIDE DEF gone, m
    <3>4. Book(MapThenSumSet(OpenFee, new), {m[p] : p \in gone})
      BY <3>1, NoFees
    <3>5. IsFiniteSet(new) /\ open \cap new = {} /\ \A p \in new : Priced(p)
      BY FS_EmptySet
    <3> HIDE DEF new
    <3> QED
      BY <3>1, <3>2, <3>3, <3>4, <3>5, ClosingIsBooked
  <2>4. CASE \/ \E b \in Candles : ReadBar(b)
             \/ SkipCycle \/ Sample \/ NoBars \/ Finish \/ UNCHANGED vars
    <3>1. /\ open' = open /\ trades' = trades
          /\ fees' = fees /\ gross' = gross /\ net' = net
      BY <2>4 DEF ReadBar, SkipCycle, Sample, NoBars, Finish, vars
    <3> QED
      BY <3>1 DEF BookInv, BooksBalance
  <2> QED
    BY <2>1, <2>2, <2>3, <2>4 DEF Next
<1> QED
  BY <1>1, <1>2, FairInvStays, AccountInvariant, PTL DEF Spec

----------------------------------------------------------------------------
(* Costs explain the difference between a result and that at its prices.   *)
\* Gains over a price in between add up.
LEMMA GainsAdd ==
  ASSUME NEW side, NEW x \in Int, NEW f \in Int, NEW g \in Int, NEW y \in Int
  PROVE  /\ Gain(side, f, g) \in Int /\ Gain(side, x, f) \in Int /\ Gain(side, g, y) \in Int
         /\ Gain(side, x, y) = Gain(side, f, g) + Gain(side, x, f) + Gain(side, g, y)
<1>1. CASE side = "LONG"
  BY <1>1 DEF Gain
<1>2. CASE side # "LONG"
  BY <1>2 DEF Gain
<1> QED
  BY <1>1, <1>2

\* The result of a trade at its fills and what the fills cost make up its result
\* at the assumed prices.
LEMMA TradeIsExplained ==
  ASSUME NEW bs \in Seq(Candles), NEW t, TradeOf(t, bs, FALSE)
  PROVE  GrossPnl(t) + SlippageCost(t.leg.price, t.leg.fill, t.leg.qty)
                     + SlippageCost(t.price, t.fill, t.leg.qty)
           = Gain(t.leg.side, t.leg.price, t.price) * t.leg.qty
<1> DEFINE p == t.leg
           side == p.side
           x == p.price
           y == t.price
           qty == p.qty
           f == p.fill
           g == t.fill
<1>1. /\ x \in Nat /\ f \in Nat /\ qty \in Nat /\ side \in Sides
      /\ f = FillPrice(x, side, "OPEN")
  BY LegIsPriced DEF TradeOf
<1>2. y \in Nat /\ g \in Nat /\ g = FillPrice(y, side, "CLOSE")
  BY TradeIsSettled
<1>3. GrossPnl(t) = Gain(side, f, g) * qty
  BY DEF GrossPnl
<1> HIDE DEF p, side, x, y, qty, f, g
<1>4. /\ side = "LONG" => f >= x /\ g <= y
      /\ side # "LONG" => f <= x /\ g >= y
  BY <1>1, <1>2, FillIsWorse
<1>5. SlippageCost(x, f, qty) = Gain(side, x, f) * qty
  BY <1>1, <1>4 DEF SlippageCost, Gain
<1>6. SlippageCost(y, g, qty) = Gain(side, g, y) * qty
  BY <1>2, <1>4 DEF SlippageCost, Gain
<1>7. /\ Gain(side, f, g) \in Int /\ Gain(side, x, f) \in Int /\ Gain(side, g, y) \in Int
      /\ Gain(side, x, y) = Gain(side, f, g) + Gain(side, x, f) + Gain(side, g, y)
  BY <1>1, <1>2, GainsAdd
<1>8. \A a, b, c \in Int : a * qty + b * qty + c * qty = (a + b + c) * qty
  BY <1>1
<1>9. Gain(side, f, g) * qty + SlippageCost(x, f, qty) + SlippageCost(y, g, qty)
        = Gain(side, x, y) * qty
  BY <1>5, <1>6, <1>7, <1>8
<1> QED
  BY <1>3, <1>9 DEF p, side, x, y, qty, f, g

\* So all costs are explained, in every fair ledger.
LEMMA FairIsExplained == FairInv => CostsExplained
BY TradeIsExplained DEF FairInv, Fair, CostsExplained

----------------------------------------------------------------------------
(* The margin of what is open, and what a new cycle takes of the equity.   *)
\* What open legs hold as margin and have gained.
Margin(S) == MapThenSumSet(LAMBDA p : p.qty * p.fill, S)
Held(p) == p.qty * p.fill
Gained(p, mark) == Gain(p.side, p.fill, mark) * p.qty

\* The sum of gains is a sum of a function.
LEMMA GainSums ==
  ASSUME NEW D, NEW S, S \subseteq D, NEW mark
  PROVE  Unrealized(S, mark) = Total([p \in D |-> Gained(p, mark)], S)
BY Zenon DEF Total, MapThenSumSet, MapThenFoldSet, SumFunctionOnSet, FoldFunctionOnSet,
             Unrealized, Gained

\* The sum of margins is a sum of a function.
LEMMA MarginSums ==
  ASSUME NEW D, NEW S, S \subseteq D
  PROVE  Margin(S) = Total([p \in D |-> Held(p)], S)
BY Zenon DEF Total, MapThenSumSet, MapThenFoldSet, SumFunctionOnSet, FoldFunctionOnSet,
             Margin, Held

\* A sum of one, and of two.
LEMMA TotalOfFew ==
  ASSUME NEW f, NEW a, NEW b, f[a] \in Int, f[b] \in Int
  PROVE  /\ Total(f, {a}) = f[a]
         /\ a # b => Total(f, {a, b}) = f[a] + f[b]
<1>1. Summable(f, {a}) /\ Summable(f, {a, b})
  <2>1. IsFiniteSet({a}) /\ IsFiniteSet({a} \cup {b}) /\ {a} \cup {b} = {a, b}
    BY FS_Singleton, FS_Union
  <2> QED
    BY <2>1 DEF Summable
<1>2. Total(f, {a}) = f[a]
  <2>1. {a} \ {a} = {}
    OBVIOUS
  <2>2. Total(f, {a}) = f[a] + Total(f, {a} \ {a})
    BY <1>1, TotalWithout
  <2>3. Total(f, {a} \ {a}) = 0
    BY <2>1, TotalOfNone, Zenon
  <2> QED
    BY <2>2, <2>3
<1>3. ASSUME a # b PROVE Total(f, {a, b}) = f[a] + f[b]
  <2>1. {a, b} \ {a} = {b}
    BY <1>3
  <2>2. Total(f, {a, b}) = f[a] + Total(f, {a, b} \ {a})
    BY <1>1, TotalWithout
  <2>3. {b} \ {b} = {} /\ Summable(f, {b})
    BY <1>1, SubsetsSum
  <2>4. Total(f, {b}) = f[b] + Total(f, {b} \ {b})
    BY <2>3, TotalWithout
  <2>5. Total(f, {b} \ {b}) = 0
    BY <2>3, TotalOfNone, Zenon
  <2>6. Total(f, {a, b} \ {a}) = Total(f, {b})
    BY <2>1, Zenon
  <2> QED
    BY <2>2, <2>4, <2>5, <2>6
<1> QED
  BY <1>2, <1>3

\* A leg's quantity and fill are numbers.
Valued(p) == p.qty \in Nat /\ p.fill \in Nat

\* What legs are worth and hold adds up.
LEMMA WorthOfUnion ==
  ASSUME NEW S, NEW T, S \cap T = {}, IsFiniteSet(S), IsFiniteSet(T), NEW mark \in Int,
         \A p \in S \cup T : Valued(p)
  PROVE  /\ Unrealized(S, mark) \in Int /\ Unrealized(T, mark) \in Int
         /\ Unrealized(S \cup T, mark) = Unrealized(S, mark) + Unrealized(T, mark)
         /\ Margin(S) \in Int /\ Margin(T) \in Int
         /\ Margin(S \cup T) = Margin(S) + Margin(T)
<1> DEFINE f == [p \in S \cup T |-> Gained(p, mark)]
           g == [p \in S \cup T |-> Held(p)]
<1>1. \A p \in S \cup T : f[p] \in Int /\ g[p] \in Int
  <2> TAKE p \in S \cup T
  <2>1. p.qty \in Nat /\ p.fill \in Nat
    BY DEF Valued
  <2>2. Gain(p.side, p.fill, mark) \in Int
    BY <2>1 DEF Gain
  <2> QED
    BY <2>1, <2>2 DEF Gained, Held
<1>2. S \subseteq S \cup T /\ T \subseteq S \cup T /\ S \cup T \subseteq S \cup T
  OBVIOUS
<1>3. /\ Unrealized(S, mark) = Total(f, S) /\ Unrealized(T, mark) = Total(f, T)
      /\ Unrealized(S \cup T, mark) = Total(f, S \cup T)
  BY <1>2, GainSums
<1>7. /\ Margin(S) = Total(g, S) /\ Margin(T) = Total(g, T)
      /\ Margin(S \cup T) = Total(g, S \cup T)
  BY <1>2, MarginSums
<1> HIDE DEF f, g
<1>4. Summable(f, S) /\ Summable(f, T) /\ Summable(g, S) /\ Summable(g, T)
  BY <1>1 DEF Summable
<1>5. /\ Total(f, S \cup T) = Total(f, S) + Total(f, T)
      /\ Total(g, S \cup T) = Total(g, S) + Total(g, T)
  BY <1>4, TotalOfUnion
<1>6. /\ Total(f, S) \in Int /\ Total(f, T) \in Int
      /\ Total(g, S) \in Int /\ Total(g, T) \in Int
  BY <1>4, TotalUnfolds
<1> QED
  BY <1>3, <1>5, <1>6, <1>7

\* A leg alone, and a pair.
LEMMA WorthOfFew ==
  ASSUME NEW a, NEW b, Valued(a), Valued(b), Priced(a), Priced(b), NEW mark \in Int
  PROVE  /\ Unrealized({a}, mark) = Gained(a, mark)
         /\ Margin({a}) = Held(a)
         /\ MapThenSumSet(OpenFee, {a}) = OpenFee(a)
         /\ a # b =>
              /\ Unrealized({a, b}, mark) = Gained(a, mark)
                                              + Gained(b, mark)
              /\ Margin({a, b}) = Held(a) + Held(b)
              /\ MapThenSumSet(OpenFee, {a, b}) = OpenFee(a) + OpenFee(b)
<1> DEFINE D == {a, b}
           f == [p \in D |-> Gained(p, mark)]
           g == [p \in D |-> Held(p)]
           h == [p \in D |-> OpenFee(p)]
<1>1. /\ f[a] \in Int /\ f[b] \in Int /\ g[a] \in Int /\ g[b] \in Int
      /\ h[a] \in Int /\ h[b] \in Int
  <2>1. \A p \in D : /\ Gained(p, mark) \in Int
                     /\ Held(p) \in Int /\ OpenFee(p) \in Int
    <3> TAKE p \in D
    <3>1. p.qty \in Nat /\ p.fill \in Nat /\ OpenFee(p) \in Int
      BY DEF Valued, Priced
    <3>2. Gain(p.side, p.fill, mark) \in Int
      BY <3>1 DEF Gain
    <3> QED
      BY <3>1, <3>2 DEF Gained, Held
  <2> QED
    BY <2>1
<1>2. {a} \subseteq D /\ {a, b} \subseteq D
  OBVIOUS
<1>3. /\ Unrealized({a}, mark) = Total(f, {a}) /\ Unrealized({a, b}, mark) = Total(f, {a, b})
      /\ Margin({a}) = Total(g, {a}) /\ Margin({a, b}) = Total(g, {a, b})
  <2> HIDE DEF D
  <2> QED
    BY <1>2, GainSums, MarginSums
<1>4. /\ MapThenSumSet(OpenFee, {a}) = Total(h, {a})
      /\ MapThenSumSet(OpenFee, {a, b}) = Total(h, {a, b})
  <2> HIDE DEF D
  <2> QED
    BY <1>2, EngineSums
<1>5. /\ f[a] = Gained(a, mark) /\ f[b] = Gained(b, mark)
      /\ g[a] = Held(a) /\ g[b] = Held(b)
      /\ h[a] = OpenFee(a) /\ h[b] = OpenFee(b)
  OBVIOUS
<1> HIDE DEF f, g, h
<1>6. /\ Total(f, {a}) = f[a] /\ (a # b => Total(f, {a, b}) = f[a] + f[b])
      /\ Total(g, {a}) = g[a] /\ (a # b => Total(g, {a, b}) = g[a] + g[b])
      /\ Total(h, {a}) = h[a] /\ (a # b => Total(h, {a, b}) = h[a] + h[b])
  BY <1>1, TotalOfFew
<1> QED
  BY <1>3, <1>4, <1>5, <1>6

\* No trades have no result, one has its own.
LEMMA ResultOfFew ==
  /\ MapThenSumSet(NetPnl, {}) = 0
  /\ \A t : NetPnl(t) \in Int => MapThenSumSet(NetPnl, {t}) = NetPnl(t)
<1>1. MapThenSumSet(NetPnl, {}) = 0
  <2> DEFINE none == {}
  <2>1. none \subseteq none
    OBVIOUS
  <2>2. MapThenSumSet(NetPnl, none) = Total([t \in none |-> NetPnl(t)], none)
    <3> HIDE DEF none
    <3> QED
      BY <2>1, EngineSums
  <2>3. Total([t \in none |-> NetPnl(t)], {}) = 0
    BY TotalOfNone
  <2> QED
    BY <2>2, <2>3
<1>2. ASSUME NEW t, NetPnl(t) \in Int PROVE MapThenSumSet(NetPnl, {t}) = NetPnl(t)
  <2> DEFINE D == {t}
             f == [u \in D |-> NetPnl(u)]
  <2>1. f[t] = NetPnl(t)
    OBVIOUS
  <2>2. MapThenSumSet(NetPnl, D) = Total(f, D)
    <3>1. D \subseteq D
      OBVIOUS
    <3> HIDE DEF D
    <3> QED
      BY <3>1, EngineSums
  <2> HIDE DEF f
  <2>3. Total(f, {t}) = f[t]
    BY <1>2, <2>1, TotalOfFew
  <2> QED
    BY <2>1, <2>2, <2>3
<1> QED
  BY <1>1, <1>2

\* What was left free, less what a cycle takes, is not negative.
LEMMA BufferCovers ==
  ASSUME NEW L \in Nat, NEW E \in Int, NEW used \in Int, NEW need \in Int,
         NEW o \in Int, NEW u \in Int, NEW m \in Int, NEW n \in Int,
         (E * L - used) * 10 >= need, (L * (o - u) + m - L * n) * 10 <= need
  PROVE  (E - o + u + n) * L >= used + m
<1> DEFINE x == E * L
           y == L * (o - u)
           z == L * n
<1>1. x \in Int /\ y \in Int /\ z \in Int
  OBVIOUS
<1>2. (E - o + u + n) * L = x - y + z
  OBVIOUS
<1>3. (x - used) * 10 >= need /\ (y + m - z) * 10 <= need
  OBVIOUS
<1> HIDE DEF x, y, z
<1> QED
  BY <1>1, <1>2, <1>3

\* What Taken says of a side is what its new leg takes.
LEMMA TakenIsTaken ==
  ASSUME NEW side \in Sides
  PROVE  LET p == NewLeg(side)
             k == Taken(side, Bar)
         IN /\ k.stays = ~Touched(p, Bar)
            /\ Touched(p, Bar) => k.sum = -(Leverage * NetPnl(Exit(p)))
            /\ ~Touched(p, Bar) =>
                  k.sum = Leverage * (OpenFee(p) - Gained(p, Bar.open)) + Held(p)
<1> DEFINE b == Bar
           p == NewLeg(side)
           q == [side |-> side, qty |-> Quantity(b.open), price |-> b.open,
                 fill |-> FillPrice(b.open, side, "OPEN")]
           price == IF HitSl(q, b) THEN StopLossPrice(q) ELSE TakeProfitPrice(q)
           t == [leg |-> q, fill |-> FillPrice(price, side, "CLOSE")]
<1>1. p.side = q.side /\ p.qty = q.qty /\ p.price = q.price /\ p.fill = q.fill
  BY DEF NewLeg
<1>2. q.side = side /\ q.price = b.open
  OBVIOUS
<1>3. Taken(side, b).stays = ~Touched(q, b)
      /\ (Touched(q, b) => Taken(side, b).sum = -(Leverage * NetPnl(t)))
      /\ (~Touched(q, b) => Taken(side, b).sum =
            Leverage * (OpenFee(q) - Gain(side, q.fill, b.open) * q.qty) + q.qty * q.fill)
  <2> DEFINE h == Touched(q, b)
             v == Leverage * NetPnl(t)
             w == Leverage * (OpenFee(q) - Gain(side, q.fill, b.open) * q.qty) + q.qty * q.fill
  <2>1. Taken(side, b) = [stays |-> ~h, sum |-> IF h THEN -v ELSE w]
    BY Zenon DEF Taken
  <2> HIDE DEF h, v, w
  <2> QED
    BY <2>1 DEF h, v, w
<1> HIDE DEF p, q, b
<1>4. StopLossPrice(p) = StopLossPrice(q) /\ TakeProfitPrice(p) = TakeProfitPrice(q)
  BY <1>1, Zenon DEF StopLossPrice, TakeProfitPrice
<1>5. HitSl(p, b) = HitSl(q, b) /\ HitTp(p, b) = HitTp(q, b)
  BY <1>1, <1>4, Zenon DEF HitSl, HitTp
<1>6. Touched(p, b) = Touched(q, b)
  BY <1>5, Zenon DEF Touched
<1>7. OpenFee(p) = OpenFee(q)
  BY <1>1, Zenon DEF OpenFee
<1>8. Gained(p, b.open) = Gain(side, q.fill, b.open) * q.qty /\ Held(p) = q.qty * q.fill
  BY <1>1, <1>2, Zenon DEF Gained, Held
<1>9. NetPnl(Exit(p)) = NetPnl(t)
  <2> DEFINE x == Exit(p)
  <2>1. x.leg = p /\ x.fill = t.fill /\ t.leg = q
    <3>1. CASE HitSl(p, b)
      <4>1. x = Trade(p, "SL", StopLossPrice(p))
        BY <3>1 DEF Exit, b
      <4>2. price = StopLossPrice(q)
        BY <3>1, <1>5
      <4> QED
        BY <4>1, <4>2, <1>1, <1>2, <1>4 DEF Trade
    <3>2. CASE ~HitSl(p, b)
      <4>1. x = Trade(p, "TP", TakeProfitPrice(p))
        BY <3>2 DEF Exit, b
      <4>2. price = TakeProfitPrice(q)
        BY <3>2, <1>5
      <4> QED
        BY <4>1, <4>2, <1>1, <1>2, <1>4 DEF Trade
    <3> QED
      BY <3>1, <3>2
  <2> HIDE DEF x, t
  <2>2. GrossPnl(x) = GrossPnl(t) /\ CloseFee(x) = CloseFee(t)
    BY <2>1, <1>1, Zenon DEF GrossPnl, CloseFee
  <2> QED
    BY <2>1, <2>2, <1>7, Zenon DEF NetPnl, x
<1> HIDE DEF t
<1> QED
  BY <1>3, <1>6, <1>7, <1>8, <1>9 DEF p, b

\* The accumulators after a cycle: kept are the new legs that outlast their
\* opening bar.
LEMMA CycleMoves ==
  ASSUME FairInv, FairInv', AccountInv, BookInv, OpenCycle
  PROVE  LET new == {NewLeg("LONG"), NewLeg("SHORT")}
             gone == {p \in new : Touched(p, Bar)}
             kept == new \ gone
             mark == Bar.open
             o == MapThenSumSet(OpenFee, kept)
             u == Unrealized(kept, mark)
             n == MapThenSumSet(NetPnl, {Exit(p) : p \in gone})
         IN /\ NewLeg("LONG") # NewLeg("SHORT") /\ mark \in Nat
            /\ \A p \in new : Valued(p) /\ Priced(p)
            /\ \A p \in gone : NetPnl(Exit(p)) \in Int
            /\ open' = open \cup kept /\ \A p \in open : p.cycle # Now
            /\ o \in Int /\ u \in Int /\ n \in Int /\ Margin(kept) \in Int
            /\ Equity(open, mark) \in Int /\ Margin(open) \in Int
            /\ Equity(open, mark)' = Equity(open, mark) - o + u + n
            /\ Margin(open') = Margin(open) + Margin(kept)
<1> DEFINE new == {NewLeg("LONG"), NewLeg("SHORT")}
           gone == {p \in new : Touched(p, Bar)}
           kept == new \ gone
           mark == Bar.open
           m == [p \in gone |-> Exit(p)]
           done == {m[p] : p \in gone}
<1>1. /\ pc = "cycle" /\ Quantity(Bar.open) > 0 /\ bars' = bars
      /\ Len(bars) \in 1..Len(bars) /\ bars \in Seq(Candles)
  BY DEF OpenCycle, FairInv, Fair
<1>2. mark \in Nat
  <2>1. Bar \in Candles
    BY <1>1 DEF Bar, Now
  <2> QED
    BY <2>1, CandleAssumption
<1>3. \A p \in open : p.cycle # Now /\ ~Touched(p, Bar) /\ LegOf(p, bars, FALSE)
  <2> TAKE p \in open
  <2>1. LegOf(p, bars, FALSE) /\ Quiet(p, bars, Exited(bars, pc))
    BY DEF FairInv, Fair
  <2>2. Exited(bars, pc) = Len(bars) /\ p.cycle \in 1..Len(bars)
    BY <1>1, <2>1 DEF Exited, LegOf
  <2>3. ~Touched(p, bars[Len(bars)])
    BY <1>1, <2>1, <2>2 DEF Quiet
  <2>4. p.cycle # Now
    BY <1>1 DEF AccountInv, Decided, Now
  <2> QED
    BY <2>1, <2>3, <2>4 DEF Bar, Now
<1>4. new = {NewLeg(side) : side \in Sides}
  BY DEF Sides
<1>5. \A p \in new : p.cycle = Now /\ LegOf(p, bars, FALSE)
  <2>1. \A side \in Sides : NewLeg(side).cycle = Now /\ LegOf(NewLeg(side), bars, FALSE)
    BY <1>1 DEF NewLeg, LegOf, Filled, Bar, Now
  <2> QED
    BY <1>4, <2>1
<1>6. NewLeg("LONG") # NewLeg("SHORT")
  BY DEF NewLeg
<1> HIDE DEF new
<1>7. \A p \in open \cup new : Valued(p) /\ Priced(p)
  BY <1>1, <1>3, <1>5, LegIsPriced DEF Valued
<1>8. IsFiniteSet(open) /\ IsFiniteSet(new) /\ IsFiniteSet(gone) /\ IsFiniteSet(kept)
  <2>1. \A a, b : IsFiniteSet({a, b})
    <3> TAKE a, b
    <3>1. IsFiniteSet({a} \cup {b}) /\ {a} \cup {b} = {a, b}
      BY FS_Singleton, FS_Union
    <3> QED
      BY <3>1, Zenon
  <2>2. IsFiniteSet(new)
    BY <2>1, Zenon DEF new
  <2> QED
    BY <2>2, FS_Subset DEF BookInv
<1>9. gone = {p \in open \cup new : Touched(p, Bar)} /\ open \cap new = {}
  BY <1>3, <1>5
<1>10. /\ open' = open \cup kept
       /\ Book(MapThenSumSet(OpenFee, new), {Exit(p) : p \in gone})
  <2>1. /\ open' = (open \cup new) \ gone
        /\ Book(MapThenSumSet(OpenFee, new), {Exit(p) : p \in gone})
    <3> DEFINE gone0 == {p \in open \cup new : Touched(p, Bar)}
    <3>1. /\ open' = (open \cup new) \ gone0
          /\ Book(MapThenSumSet(OpenFee, new), {Exit(p) : p \in gone0})
      BY <1>4, Zenon DEF OpenCycle
    <3>2. gone0 = gone
      BY <1>9
    <3> HIDE DEF gone0, gone
    <3> QED
      BY <3>1, <3>2
  <2>2. (open \cup new) \ gone = open \cup kept
    BY <1>9
  <2> QED
    BY <2>1, <2>2
<1>11. done = {Exit(p) : p \in gone}
  OBVIOUS
<1>12. \A p \in gone : m[p].leg = p
  BY LegOfExit
<1>13. kept \cap gone = {} /\ new = kept \cup gone /\ open \cap kept = {}
       /\ kept \subseteq new /\ gone \subseteq new
  BY <1>9
<1> HIDE DEF gone, kept, m, done, mark
<1>14. \A p \in gone : Settled(m[p]) /\ NetPnl(m[p]) \in Int
  <2>1. trades' = trades \cup done
    BY <1>10, <1>11 DEF Book
  <2>2. \A p \in gone : m[p] \in trades'
    BY <2>1 DEF done
  <2> QED
    BY <2>2, TradeIsSettled DEF FairInv, Fair
<1> DEFINE G == MapThenSumSet(GrossPnl, done)
           C == MapThenSumSet(CloseFee, done)
           n == MapThenSumSet(NetPnl, done)
           o == MapThenSumSet(OpenFee, kept)
           og == MapThenSumSet(OpenFee, gone)
<1>15. /\ G \in Int /\ C \in Int /\ og \in Int /\ n = G - C - og
  <2>1. \A p \in gone : m[p].leg = p /\ Settled(m[p])
    BY <1>12, <1>14
  <2>2. IsFiniteSet(gone)
    BY <1>8
  <2> HIDE DEF G, C, n, o, og
  <2>3. G \in Int /\ C \in Int /\ og \in Int /\ n = G - C - og
    BY <2>1, <2>2, SumsOfClosing DEF done, G, C, n, og
  <2> QED
    BY <2>3
<1>16. o \in Int /\ MapThenSumSet(OpenFee, new) = o + og
  <2>1. \A p \in kept \cup gone : Priced(p)
    BY <1>7, <1>13
  <2>2. o \in Int /\ MapThenSumSet(OpenFee, kept \cup gone) = o + og
    BY <1>8, <1>13, <2>1, OpenFeesOfUnion
  <2> QED
    BY <1>13, <2>2
<1>17. fees' = fees + (o + og) + C /\ gross' = gross + G
  BY <1>10, <1>11, <1>16 DEF Book
<1>18. /\ Unrealized(open, mark) \in Int /\ Unrealized(kept, mark) \in Int
       /\ Unrealized(open', mark) = Unrealized(open, mark) + Unrealized(kept, mark)
       /\ Margin(open) \in Int /\ Margin(kept) \in Int
       /\ Margin(open') = Margin(open) + Margin(kept)
  <2> HIDE DEF G, C, n, o, og
  <2>1. \A p \in open \cup kept : Valued(p)
    BY <1>7, <1>13
  <2>2. /\ Unrealized(open, mark) \in Int /\ Unrealized(kept, mark) \in Int
        /\ Unrealized(open \cup kept, mark) = Unrealized(open, mark) + Unrealized(kept, mark)
        /\ Margin(open) \in Int /\ Margin(kept) \in Int
        /\ Margin(open \cup kept) = Margin(open) + Margin(kept)
    <3>1. IsFiniteSet(open) /\ IsFiniteSet(kept) /\ open \cap kept = {} /\ mark \in Int
      BY <1>2, <1>8, <1>13
    <3> QED
      BY <2>1, <3>1, WorthOfUnion
  <2> QED
    BY <1>10, <2>2
<1> HIDE DEF G, C, o, og, n
<1>19. Equity(open, mark)' = Balance - fees' + gross' + Unrealized(open', mark)
  <2>1. mark' = mark
    BY <1>1 DEF mark, Bar, Now
  <2>2. Equity(open, mark)' = Balance - fees' + gross' + Unrealized(open, mark)'
    BY Zenon DEF Equity
  <2>3. Unrealized(open, mark)' = Unrealized(open', mark')
    OBVIOUS
  <2> QED
    BY <2>1, <2>2, <2>3
<1>20. /\ Equity(open, mark) \in Int
       /\ Equity(open, mark)' = Equity(open, mark) - o + Unrealized(kept, mark) + n
  <2>1. Equity(open, mark) = Balance - fees + gross + Unrealized(open, mark)
    BY DEF Equity
  <2>2. fees \in Int /\ gross \in Int /\ Balance \in Int
    BY AccountAssumption DEF BookInv
  <2> QED
    BY <1>15, <1>16, <1>17, <1>18, <1>19, <2>1, <2>2
<1>21. n \in Int
  BY <1>15
<1> QED
  BY <1>2, <1>3, <1>6, <1>7, <1>10, <1>11, <1>12, <1>14, <1>16, <1>18, <1>20, <1>21
  DEF n, o, mark, kept, gone, new, m, done

\* What a new leg takes, in the terms of the replay.
Takes(p, gone, mark) ==
    IF p \in gone THEN -(Leverage * NetPnl(Exit(p)))
    ELSE Leverage * (OpenFee(p) - Gained(p, mark)) + Held(p)

\* It adds up for a pair.
LEMMA PairTakes ==
  ASSUME NEW l \in Int, NEW i \in Int, NEW j \in Int, NEW v \in Int, NEW w \in Int,
         NEW r \in Int, NEW s \in Int
  PROVE  (l * (i - v) + r) + (l * (j - w) + s)
           = l * ((i + j) - (v + w)) + (r + s) - l * 0
OBVIOUS

\* A pair of new legs, of which some are gone and closed by the trades done, and
\* some are kept.
PairOf(a, b, mark, gone, kept, done) ==
    /\ a # b /\ mark \in Int /\ \A p \in {a, b} : Valued(p) /\ Priced(p)
    /\ gone \subseteq {a, b} /\ gone # {a, b} /\ kept = {a, b} \ gone
    /\ done = {Exit(p) : p \in gone} /\ \A p \in gone : NetPnl(Exit(p)) \in Int

\* A cycle takes what its legs take, those that stay and those that do not.
LEMMA CycleTakes ==
  ASSUME NEW a, NEW b, NEW mark, NEW gone, NEW kept, NEW done,
         PairOf(a, b, mark, gone, kept, done)
  PROVE  Takes(a, gone, mark) + Takes(b, gone, mark)
           = Leverage * (MapThenSumSet(OpenFee, kept) - Unrealized(kept, mark))
                   + Margin(kept)
                   - Leverage * MapThenSumSet(NetPnl, done)
<1> DEFINE o == MapThenSumSet(OpenFee, kept)
           u == Unrealized(kept, mark)
           m == Margin(kept)
           n == MapThenSumSet(NetPnl, done)
           g(p) == Gained(p, mark)
           k(p) == NetPnl(Exit(p))
<1>0. /\ a # b /\ mark \in Int /\ \A p \in {a, b} : Valued(p) /\ Priced(p)
      /\ gone \subseteq {a, b} /\ gone # {a, b} /\ kept = {a, b} \ gone
      /\ done = {Exit(p) : p \in gone} /\ \A p \in gone : NetPnl(Exit(p)) \in Int
  BY DEF PairOf
<1>1. \A p \in {a, b} : g(p) \in Int /\ Held(p) \in Int /\ OpenFee(p) \in Int
  <2> TAKE p \in {a, b}
  <2>1. p.qty \in Nat /\ p.fill \in Nat /\ OpenFee(p) \in Int
    BY <1>0 DEF Valued, Priced
  <2>2. Gain(p.side, p.fill, mark) \in Int
    BY <1>0, <2>1 DEF Gain
  <2> QED
    BY <2>1, <2>2 DEF Gained, Held
<1>2. Leverage \in Int
  BY AccountAssumption
<1>3. ASSUME NEW c \in {a, b}, NEW d \in {a, b}, c # d, gone = {d}
      PROVE  /\ o = OpenFee(c) /\ u = g(c) /\ m = Held(c) /\ n = k(d)
             /\ k(d) \in Int
  <2>1. kept = {c} /\ done = {Exit(d)} /\ d \in gone
    BY <1>0, <1>3
  <2>2. /\ Unrealized({c}, mark) = Gained(c, mark) /\ Margin({c}) = Held(c)
        /\ MapThenSumSet(OpenFee, {c}) = OpenFee(c)
    BY <1>0, WorthOfFew
  <2>3. MapThenSumSet(NetPnl, {Exit(d)}) = NetPnl(Exit(d)) /\ k(d) \in Int
    BY <1>0, <2>1, ResultOfFew
  <2> QED
    BY <2>1, <2>2, <2>3
<1>4. CASE gone = {}
  <2>1. kept = {a, b} /\ done = {}
    BY <1>0, <1>4
  <2>2. Valued(a) /\ Valued(b) /\ Priced(a) /\ Priced(b)
    BY <1>0
  <2>3. /\ Unrealized({a, b}, mark) = Gained(a, mark) + Gained(b, mark)
        /\ Margin({a, b}) = Held(a) + Held(b)
        /\ MapThenSumSet(OpenFee, {a, b}) = OpenFee(a) + OpenFee(b)
    BY <1>0, <2>2, WorthOfFew
  <2>4. o = OpenFee(a) + OpenFee(b) /\ u = g(a) + g(b) /\ m = Held(a) + Held(b) /\ n = 0
    <3> QED
      BY <2>1, <2>3, ResultOfFew
  <2>5. /\ Takes(a, gone, mark) = Leverage * (OpenFee(a) - g(a)) + Held(a)
        /\ Takes(b, gone, mark) = Leverage * (OpenFee(b) - g(b)) + Held(b)
    BY <1>4 DEF Takes
  <2> HIDE DEF o, u, m, n, g
  <2>6. /\ OpenFee(a) \in Int /\ OpenFee(b) \in Int /\ g(a) \in Int /\ g(b) \in Int
        /\ Held(a) \in Int /\ Held(b) \in Int
    BY <1>1
  <2>7. (Leverage * (OpenFee(a) - g(a)) + Held(a)) + (Leverage * (OpenFee(b) - g(b)) + Held(b))
          = Leverage * ((OpenFee(a) + OpenFee(b)) - (g(a) + g(b))) + (Held(a) + Held(b))
              - Leverage * 0
    BY <1>2, <2>6, PairTakes
  <2>8. Takes(a, gone, mark) + Takes(b, gone, mark) = Leverage * (o - u) + m - Leverage * n
    BY <2>4, <2>5, <2>7, Zenon
  <2> QED
    BY <2>8 DEF o, u, m, n
<1>5. CASE gone = {b}
  <2>1. o = OpenFee(a) /\ u = g(a) /\ m = Held(a) /\ n = k(b) /\ k(b) \in Int
    BY <1>0, <1>3, <1>5
  <2>2. /\ Takes(a, gone, mark) = Leverage * (OpenFee(a) - g(a)) + Held(a)
        /\ Takes(b, gone, mark) = -(Leverage * k(b))
    BY <1>0, <1>5 DEF Takes
  <2> HIDE DEF o, u, m, n, g, k
  <2>3. OpenFee(a) \in Int /\ g(a) \in Int /\ Held(a) \in Int
    BY <1>1
  <2>4. Takes(a, gone, mark) + Takes(b, gone, mark)
          = Leverage * (OpenFee(a) - g(a)) + Held(a) - Leverage * k(b)
    <3> DEFINE i == Leverage * (OpenFee(a) - g(a))
               j == Leverage * k(b)
    <3>1. i \in Int /\ j \in Int
      BY <1>2, <2>1, <2>3
    <3>2. Takes(a, gone, mark) = i + Held(a) /\ Takes(b, gone, mark) = -j
      BY <2>2
    <3> HIDE DEF i, j
    <3>3. Takes(a, gone, mark) + Takes(b, gone, mark) = i + Held(a) - j
      BY <2>3, <3>1, <3>2
    <3> QED
      BY <3>3 DEF i, j
  <2>5. Takes(a, gone, mark) + Takes(b, gone, mark) = Leverage * (o - u) + m - Leverage * n
    BY <2>1, <2>4, Zenon
  <2> QED
    BY <2>5 DEF o, u, m, n
<1>6. CASE gone = {a}
  <2>1. o = OpenFee(b) /\ u = g(b) /\ m = Held(b) /\ n = k(a) /\ k(a) \in Int
    BY <1>0, <1>3, <1>6
  <2>2. /\ Takes(b, gone, mark) = Leverage * (OpenFee(b) - g(b)) + Held(b)
        /\ Takes(a, gone, mark) = -(Leverage * k(a))
    BY <1>0, <1>6 DEF Takes
  <2> HIDE DEF o, u, m, n, g, k
  <2>3. OpenFee(b) \in Int /\ g(b) \in Int /\ Held(b) \in Int
    BY <1>1
  <2>4. Takes(a, gone, mark) + Takes(b, gone, mark)
          = Leverage * (OpenFee(b) - g(b)) + Held(b) - Leverage * k(a)
    <3> DEFINE i == Leverage * (OpenFee(b) - g(b))
               j == Leverage * k(a)
    <3>1. i \in Int /\ j \in Int
      BY <1>2, <2>1, <2>3
    <3>2. Takes(b, gone, mark) = i + Held(b) /\ Takes(a, gone, mark) = -j
      BY <2>2
    <3> HIDE DEF i, j
    <3>3. Takes(a, gone, mark) + Takes(b, gone, mark) = i + Held(b) - j
      BY <2>3, <3>1, <3>2
    <3> QED
      BY <3>3 DEF i, j
  <2>5. Takes(a, gone, mark) + Takes(b, gone, mark) = Leverage * (o - u) + m - Leverage * n
    BY <2>1, <2>4, Zenon
  <2> QED
    BY <2>5 DEF o, u, m, n
<1> QED
  BY <1>0, <1>4, <1>5, <1>6

\* A cycle that is opened is covered, if the buffer is enough for its first bar.
LEMMA CycleIsCovered ==
  ASSUME Buffered, FairInv, FairInv', AccountInv, BookInv, OpenCycle
  PROVE  MarginCovered'
<1> DEFINE a == NewLeg("LONG")
           b == NewLeg("SHORT")
           gone == {p \in {a, b} : Touched(p, Bar)}
           kept == {a, b} \ gone
           mark == Bar.open
           o == MapThenSumSet(OpenFee, kept)
           u == Unrealized(kept, mark)
           done == {Exit(p) : p \in gone}
           n == MapThenSumSet(NetPnl, done)
           long == Taken("LONG", Bar)
           short == Taken("SHORT", Bar)
           need == SideNotional(mark) * 2 * 12
<1>1. /\ a # b /\ mark \in Nat
      /\ \A p \in {a, b} : Valued(p) /\ Priced(p)
      /\ \A p \in gone : NetPnl(Exit(p)) \in Int
      /\ open' = open \cup kept /\ \A p \in open : p.cycle # Now
      /\ o \in Int /\ u \in Int /\ n \in Int /\ Margin(kept) \in Int
      /\ Equity(open, mark) \in Int /\ Margin(open) \in Int
      /\ Equity(open, mark)' = Equity(open, mark) - o + u + n
      /\ Margin(open') = Margin(open) + Margin(kept)
  BY CycleMoves
<1>2. /\ long.stays = ~Touched(a, Bar) /\ short.stays = ~Touched(b, Bar)
      /\ long.sum = Takes(a, gone, mark) /\ short.sum = Takes(b, gone, mark)
  <2>1. "LONG" \in Sides /\ "SHORT" \in Sides
    BY DEF Sides
  <2>2. (a \in gone <=> Touched(a, Bar)) /\ (b \in gone <=> Touched(b, Bar))
    OBVIOUS
  <2>3. /\ long.stays = ~Touched(a, Bar)
        /\ Touched(a, Bar) => long.sum = -(Leverage * NetPnl(Exit(a)))
        /\ ~Touched(a, Bar) =>
              long.sum = Leverage * (OpenFee(a) - Gained(a, mark)) + Held(a)
    BY <2>1, TakenIsTaken
  <2>4. /\ short.stays = ~Touched(b, Bar)
        /\ Touched(b, Bar) => short.sum = -(Leverage * NetPnl(Exit(b)))
        /\ ~Touched(b, Bar) =>
              short.sum = Leverage * (OpenFee(b) - Gained(b, mark)) + Held(b)
    BY <2>1, TakenIsTaken
  <2> HIDE DEF a, b, gone, long, short, mark
  <2> QED
    BY <2>2, <2>3, <2>4 DEF Takes
<1>3. /\ pc' = "sample" /\ bars' = bars /\ Now' = Now /\ Bar' = Bar /\ Bar \in Candles
      /\ Quantity(mark) > 0
      /\ (Equity(open, mark) * Leverage - Margin(open)) * 10 >= need
  <2>1. bars' = bars /\ pc' = "sample" /\ Quantity(Bar.open) > 0 /\ Funded
    BY DEF OpenCycle
  <2>2. Bar \in Candles
    BY DEF OpenCycle, FairInv, Fair, Bar, Now
  <2>3. (Equity(open, mark) * Leverage - Margin(open)) * 10 >= need
    BY <2>1, Zenon DEF Funded, Margin
  <2> QED
    BY <2>1, <2>2, <2>3 DEF Now, Bar
<1>4. kept # {} => (long.sum + short.sum) * 10 <= need
  <2>1. kept # {} => long.stays \/ short.stays
    BY <1>2
  <2> QED
    BY <1>3, <2>1 DEF Buffered
<1>5. kept # {} => long.sum + short.sum
                     = Leverage * (o - u) + Margin(kept) - Leverage * n
  <2> SUFFICES ASSUME kept # {}
               PROVE  long.sum + short.sum
                        = Leverage * (o - u) + Margin(kept) - Leverage * n
    OBVIOUS
  <2>1. gone # {a, b} /\ gone \subseteq {a, b} /\ mark \in Int
    BY <1>1
  <2> HIDE DEF gone, done, a, b, mark, long, short
  <2>2. Takes(a, gone, mark) + Takes(b, gone, mark)
          = Leverage * (o - u) + Margin(kept) - Leverage * n
    <3>1. PairOf(a, b, mark, gone, kept, done)
      BY <1>1, <2>1 DEF PairOf, done
    <3> HIDE DEF kept
    <3> QED
      BY <3>1, CycleTakes
  <2> QED
    BY <1>2, <2>2
<1>6. need \in Int /\ Leverage \in Nat
  <2>1. SideNotional(mark) \in Int
    BY <1>1, CostAssumption DEF SideNotional
  <2> QED
    BY <2>1, AccountAssumption
<1>7. Now' \in OpenCycles' => kept # {}
  BY <1>1, <1>3 DEF OpenCycles
<1> HIDE DEF a, b, gone, done, kept, o, u, n, long, short, need, mark
<1>8. kept # {} => (Equity(open, mark) - o + u + n) * Leverage >= Margin(open) + Margin(kept)
  BY <1>1, <1>3, <1>4, <1>5, <1>6, BufferCovers
<1>9. Now' \in OpenCycles' => Equity(open, mark)' * Leverage >= Margin(open')
  BY <1>1, <1>7, <1>8
<1>10. mark' = Bar'.open
  BY DEF mark
<1>11. (Now \in OpenCycles => Equity(open, Bar.open) * Leverage >= Margin(open))'
  BY <1>9 DEF mark
<1> QED
  BY <1>11, Zenon DEF MarginCovered, Margin

----------------------------------------------------------------------------
(* The curve, thinned out.                                                 *)

\* A point is kept unless it has the time of the one kept before it.
With(kept, p) == IF kept # <<>> /\ Last(kept).t = p.t THEN kept ELSE Append(kept, p)

PickedOf(points) == [i \in 1..MaxPoints |-> Picked(points, i - 1)]

Thins(seq, g) ==
    g = [s \in SUBSET (DOMAIN seq) |->
           IF s = {} THEN <<>> ELSE With(g[s \ {Max(s)}], seq[Max(s)])]

\* What downsampleCurve returns is the value of such a recursion.
LEMMA DownsampleIsFold ==
  ASSUME NEW points, ~(Len(points) <= MaxPoints)
  PROVE  Downsample(points)
           = (CHOOSE g : Thins(PickedOf(points), g))[DOMAIN PickedOf(points)]
BY Zenon DEF Downsample, FoldLeft, MapThenFoldSet, Thins, With, PickedOf

\* Counting up from 0 reaches every number up to n.
LEMMA CountUp ==
  ASSUME NEW n \in Nat, NEW F \in SUBSET (0..n), 0 \in F,
         \A k \in F : k < n => k + 1 \in F
  PROVE  F = 0..n
<1> DEFINE Bad == (0..n) \ F
<1>1. SUFFICES ASSUME Bad # {} PROVE FALSE
  OBVIOUS
<1>2. PICK k \in Bad : \A m \in Bad : k <= m
  <2>1. Bad \subseteq Nat
    OBVIOUS
  <2> HIDE DEF Bad
  <2> QED
    BY <1>1, <2>1, LeastNat
<1>3. k \in 1..n /\ k - 1 \notin Bad
  <2>1. k \in 0..n /\ k # 0 /\ k \in Int
    OBVIOUS
  <2>2. ~(k <= k - 1)
    BY <2>1
  <2> HIDE DEF Bad
  <2> QED
    BY <1>2, <2>1, <2>2
<1>4. k - 1 \in F /\ k - 1 < n /\ (k - 1) + 1 = k
  BY <1>3
<1> QED
  BY <1>4

\* The greatest of the first n numbers, and of some of them.
LEMMA MaxOfFirst ==
  ASSUME NEW n \in Nat
  PROVE  /\ \A s \in SUBSET (1..n) : s # {} => Max(s) \in s
         /\ n > 0 => Max(1..n) = n
<1>1. ASSUME NEW s \in SUBSET (1..n), s # {} PROVE Max(s) \in s
  <2>1. s \subseteq Int /\ n \in Int /\ \A x \in s : x <= n
    OBVIOUS
  <2>2. \E x \in s : \A y \in s : y <= x
    BY <1>1, <2>1, Greatest
  <2>3. \E x \in s : \A y \in s : x >= y
    BY <2>1, <2>2
  <2> QED
    BY <2>3 DEF Max
<1>2. ASSUME n > 0 PROVE Max(1..n) = n
  <2>1. \E x \in 1..n : \A y \in 1..n : x >= y
    BY <1>2
  <2>2. Max(1..n) \in 1..n /\ \A y \in 1..n : Max(1..n) >= y
    BY <2>1, Zenon DEF Max
  <2> QED
    BY <1>2, <2>2
<1> QED
  BY <1>1, <1>2

\* The recursion has a solution, a sequence of points at each step.
LEMMA ThinsExists ==
  ASSUME NEW n \in Nat, NEW V, NEW seq \in [1..n -> V]
  PROVE  \E g : g \in [SUBSET (1..n) -> Seq(V)] /\ Thins(seq, g)
<1> DEFINE S == 1..n
           base == <<>>
           pick == [s \in SUBSET S |-> Max(s)]
           W == Seq(V)
           step == [p \in S \X W |-> With(p[2], seq[p[1]])]
<1>1. IsFiniteSet(S)
  BY FS_Interval
<1>2. \A s \in SUBSET S : s # {} => pick[s] \in s
  BY MaxOfFirst
<1>3. base \in W
  OBVIOUS
<1>4. \A y \in S, v \in W : With(v, seq[y]) \in W
  BY DEF With
<1>5. step \in [S \X W -> W] /\ \A y \in S, v \in W : step[<<y, v>>] = With(v, seq[y])
  <2> HIDE DEF W
  <2> QED
    BY <1>4
<1> HIDE DEF step, base, W
<1>6. PICK g \in [SUBSET S -> W] : FoldsUp(g, S, base, pick, step)
  <2>1. Picks(pick, S)
    BY <1>2 DEF Picks
  <2> HIDE DEF pick, S
  <2> QED
    BY <1>1, <1>3, <1>5, <2>1, FoldExists
<1>7. \A s \in SUBSET S : g[s] = IF s = {} THEN <<>> ELSE With(g[s \ {Max(s)}], seq[Max(s)])
  <2> TAKE s \in SUBSET S
  <2>1. CASE s = {}
    BY <1>6, <2>1 DEF FoldsUp, base
  <2>2. CASE s # {}
    <3>1. pick[s] = Max(s) /\ pick[s] \in S /\ s \ {pick[s]} \in SUBSET S
      BY <1>2, <2>2
    <3>2. g[s] = step[<<pick[s], g[s \ {pick[s]}]>>]
      BY <1>6, <2>2 DEF FoldsUp
    <3>3. g[s \ {pick[s]}] \in W
      BY <3>1
    <3> HIDE DEF pick, S
    <3>4. g[s] = With(g[s \ {pick[s]}], seq[pick[s]])
      BY <1>5, <3>1, <3>2, <3>3
    <3> QED
      BY <2>2, <3>1, <3>4
  <2> QED
    BY <2>1, <2>2
<1>8. Thins(seq, g)
  <2>1. DOMAIN seq = S
    OBVIOUS
  <2>2. g = [s \in SUBSET S |-> g[s]]
    OBVIOUS
  <2> HIDE DEF S
  <2> QED
    BY <1>7, <2>1, <2>2 DEF Thins
<1> QED
  BY <1>6, <1>8 DEF W

\* It takes one point after the other.
LEMMA ThinsUp ==
  ASSUME NEW n \in Nat, NEW seq, DOMAIN seq = 1..n, NEW g, Thins(seq, g)
  PROVE  /\ g[1..0] = <<>>
         /\ \A k \in 1..n : g[1..k] = With(g[1..(k - 1)], seq[k])
<1>1. \A s \in SUBSET (1..n) :
        g[s] = IF s = {} THEN <<>> ELSE With(g[s \ {Max(s)}], seq[Max(s)])
  BY DEF Thins
<1>2. 1..0 = {} /\ 1..0 \in SUBSET (1..n)
  OBVIOUS
<1>3. ASSUME NEW k \in 1..n PROVE g[1..k] = With(g[1..(k - 1)], seq[k])
  <2>1. Max(1..k) = k
    BY MaxOfFirst
  <2>2. 1..k \in SUBSET (1..n) /\ 1..k # {} /\ (1..k) \ {k} = 1..(k - 1)
    OBVIOUS
  <2>3. g[1..k] = With(g[(1..k) \ {Max(1..k)}], seq[Max(1..k)])
    BY <1>1, <2>2
  <2> QED
    BY <2>1, <2>2, <2>3, Zenon
<1> QED
  BY <1>1, <1>2, <1>3

\* The index of the i-th of the points picked.
Idx(len, i) ==
    1 + IF i = MaxPoints - 1 THEN len - 1
        ELSE (2 * i * (len - 1) + MaxPoints - 1) \div (2 * (MaxPoints - 1))

\* A quotient by what it is between.
LEMMA Quotient ==
  ASSUME NEW a \in Int, NEW d \in Nat, d > 0
  PROVE  /\ a \div d \in Int
         /\ \A q \in Int : d * q <= a => q <= a \div d
         /\ \A q \in Int : a < d * (q + 1) => a \div d <= q
OBVIOUS

\* Indices are in order, from the first to the last.
LEMMA PickedInOrder ==
  ASSUME NEW len \in Nat, len > MaxPoints
  PROVE  /\ Idx(len, 0) = 1 /\ Idx(len, MaxPoints - 1) = len
         /\ \A i \in 0..(MaxPoints - 1) : Idx(len, i) \in 1..len
         /\ \A i \in 1..(MaxPoints - 1) : Idx(len, i - 1) <= Idx(len, i)
<1> DEFINE d == 2 * (MaxPoints - 1)
           a(i) == 2 * i * (len - 1) + MaxPoints - 1
           M == MaxPoints
<1>1. M \in Nat /\ M >= 2 /\ d \in Nat /\ d > 0
  BY AccountAssumption
<1>2. \A i \in 0..(M - 1) : a(i) \in Int /\ a(i) \div d \in Int
  BY <1>1
<1>3. a(0) \div d = 0
  <2>1. a(0) = M - 1 /\ d = 2 * (M - 1)
    BY <1>1
  <2> HIDE DEF a, d
  <2> QED
    BY <1>1, <2>1
<1>4. \A i \in 1..(M - 1) : a(i - 1) <= a(i)
  <2> TAKE i \in 1..(M - 1)
  <2>1. 2 * i * (len - 1) = 2 * (i - 1) * (len - 1) + 2 * (len - 1)
    BY <1>1
  <2>2. 2 * (i - 1) * (len - 1) \in Int /\ 2 * (len - 1) >= 0
    BY <1>1
  <2> DEFINE x == 2 * (i - 1) * (len - 1)
             y == 2 * i * (len - 1)
  <2> HIDE DEF x, y
  <2> QED
    BY <1>1, <2>1, <2>2 DEF x, y
<1>5. \A i \in 0..(M - 2) : 0 <= a(i) /\ a(i) < d * len
  <2> TAKE i \in 0..(M - 2)
  <2> DEFINE x == i * (len - 1)
             z == (M - 2) * (len - 1)
  <2>1. x \in Int /\ z \in Int /\ x >= 0 /\ x <= z
    <3>1. \A j, k \in Int : j >= 0 /\ k >= 0 => j * k >= 0
      OBVIOUS
    <3>2. z - x = (M - 2 - i) * (len - 1) /\ M - 2 - i >= 0 /\ len - 1 >= 0
      BY <1>1
    <3> QED
      BY <1>1, <3>1, <3>2
  <2>2. a(i) = 2 * x + M - 1
    BY <1>1
  <2>3. d * len = 2 * z + 2 * len + 2 * (M - 2)
    BY <1>1
  <2> HIDE DEF a, d, x, z
  <2> QED
    BY <1>1, <2>1, <2>2, <2>3
<1>6. \A i \in 0..(M - 2) : Idx(len, i) = 1 + (a(i) \div d)
  BY <1>1 DEF Idx
<1>7. Idx(len, M - 1) = len
  BY <1>1 DEF Idx
<1> HIDE DEF a, d
<1>8. \A i \in 0..(M - 2) : a(i) \div d >= 0 /\ a(i) \div d <= len - 1
  <2> TAKE i \in 0..(M - 2)
  <2>1. a(i) \in Int /\ d * 0 <= a(i) /\ a(i) < d * ((len - 1) + 1)
    BY <1>1, <1>2, <1>5
  <2> QED
    BY <1>1, <2>1, Quotient
<1>9. \A i \in 1..(M - 2) : a(i - 1) \div d <= a(i) \div d
  <2> TAKE i \in 1..(M - 2)
  <2>1. a(i - 1) \in Int /\ a(i) \in Int /\ a(i - 1) <= a(i)
    BY <1>1, <1>2, <1>4
  <2>2. \A x, y \in Int : x <= y => x \div d <= y \div d
    BY <1>1
  <2> QED
    BY <2>1, <2>2
<1>10. \A i \in 0..(M - 1) : Idx(len, i) \in 1..len
  <2> TAKE i \in 0..(M - 1)
  <2>1. CASE i = M - 1
    BY <1>1, <1>7, <2>1
  <2>2. CASE i # M - 1
    BY <1>1, <1>2, <1>6, <1>8, <2>2
  <2> QED
    BY <2>1, <2>2
<1>11. \A i \in 1..(M - 1) : Idx(len, i - 1) <= Idx(len, i)
  <2> TAKE i \in 1..(M - 1)
  <2>1. CASE i = M - 1
    BY <1>1, <1>7, <1>10, <2>1
  <2>2. CASE i # M - 1
    BY <1>1, <1>2, <1>6, <1>9, <2>2
  <2> QED
    BY <2>1, <2>2
<1> QED
  BY <1>1, <1>3, <1>6, <1>7, <1>10, <1>11

\* What a curve of n bars and the final sample is.
Sampled(points, n) ==
    /\ n \in Nat /\ n >= 1 /\ Len(points) = n + 1
    /\ \A k \in 1..n : points[k].t = k
    /\ points[n + 1].t = n

\* What thinning it out leaves, down to the point picked with index i.
Spans(kept, points, i) ==
    /\ Len(kept) >= 1
    /\ kept[1] = points[1]
    /\ \A k \in 1..Len(kept) : \E j \in 1..Len(points) : kept[k] = points[j]
    /\ \A k \in 2..Len(kept) : kept[k - 1].t <= kept[k].t
    /\ kept[Len(kept)].t = points[i].t

\* One more point keeps it so.
LEMMA SpansOn ==
  ASSUME NEW V, NEW points \in Seq(V), NEW n, Sampled(points, n),
         NEW kept \in Seq(V), NEW i \in 1..Len(points), Spans(kept, points, i),
         NEW j \in 1..Len(points), i <= j
  PROVE  /\ With(kept, points[j]) \in Seq(V)
         /\ Spans(With(kept, points[j]), points, j)
         /\ Len(With(kept, points[j])) <= Len(kept) + 1
<1> DEFINE p == points[j]
           m == Len(kept)
<1>1. m \in Nat /\ m >= 1 /\ kept # <<>> /\ Last(kept) = kept[m] /\ p \in V
  BY DEF Spans, Last
<1>2. points[i].t <= p.t
  BY DEF Sampled
<1>3. CASE kept[m].t = p.t
  <2>1. With(kept, p) = kept
    BY <1>1, <1>3 DEF With
  <2> QED
    BY <1>1, <1>3, <2>1 DEF Spans
<1>4. CASE kept[m].t # p.t
  <2>1. With(kept, p) = Append(kept, p)
    BY <1>1, <1>4 DEF With
  <2> DEFINE k2 == Append(kept, p)
  <2>2. /\ k2 \in Seq(V) /\ Len(k2) = m + 1 /\ k2[m + 1] = p
        /\ \A k \in 1..m : k2[k] = kept[k]
    BY <1>1
  <2> HIDE DEF k2
  <2>3. \A k \in 1..(m + 1) : k \in 1..m \/ k = m + 1
    BY <1>1
  <2>4. k2[1] = points[1]
    BY <1>1, <2>2 DEF Spans
  <2>5. \A k \in 1..(m + 1) : \E l \in 1..Len(points) : k2[k] = points[l]
    BY <2>2, <2>3 DEF Spans
  <2>6. \A k \in 2..(m + 1) : k2[k - 1].t <= k2[k].t
    <3> TAKE k \in 2..(m + 1)
    <3>1. CASE k = m + 1
      BY <1>1, <1>2, <2>2, <3>1 DEF Spans
    <3>2. CASE k # m + 1
      <4>1. k \in 2..m /\ k - 1 \in 1..m /\ k \in 1..m
        BY <1>1, <3>2
      <4>2. kept[k - 1].t <= kept[k].t
        BY <4>1 DEF Spans
      <4> QED
        BY <2>2, <4>1, <4>2
    <3> QED
      BY <3>1, <3>2
  <2>7. Spans(k2, points, j)
    BY <1>1, <2>2, <2>4, <2>5, <2>6 DEF Spans
  <2> QED
    BY <1>1, <2>1, <2>2, <2>7 DEF k2
<1> QED
  BY <1>3, <1>4

\* Thinned out, the curve still spans the run, in at most MaxPoints points.
LEMMA DownsampleSpans ==
  ASSUME NEW V, NEW points \in Seq(V), NEW n, Sampled(points, n)
  PROVE  /\ Downsample(points) \in Seq(V)
         /\ Spans(Downsample(points), points, n + 1)
         /\ Len(Downsample(points)) <= MaxPoints
<1> DEFINE len == Len(points)
           M == MaxPoints
           seq == PickedOf(points)
           g == CHOOSE g : Thins(seq, g)
<1>1. n \in Nat /\ n >= 1 /\ len = n + 1 /\ len \in Nat /\ M \in Nat /\ M >= 2
  BY AccountAssumption DEF Sampled
<1>2. CASE len <= M
  <2>1. Downsample(points) = points
    BY <1>2 DEF Downsample
  <2>2. \A k \in 2..len : points[k - 1].t <= points[k].t
    <3> TAKE k \in 2..len
    <3>1. k - 1 \in 1..n /\ (k \in 1..n \/ k = n + 1)
      BY <1>1
    <3> QED
      BY <1>1, <3>1 DEF Sampled
  <2> QED
    BY <1>1, <1>2, <2>1, <2>2 DEF Spans
<1>3. CASE ~(len <= M)
  <2>1. /\ Idx(len, 0) = 1 /\ Idx(len, M - 1) = len
        /\ \A i \in 0..(M - 1) : Idx(len, i) \in 1..len
        /\ \A i \in 1..(M - 1) : Idx(len, i - 1) <= Idx(len, i)
    BY <1>1, <1>3, PickedInOrder
  <2>2. \A i : Picked(points, i) = points[Idx(len, i)]
    BY Zenon DEF Picked, Idx
  <2>3. seq \in [1..M -> V] /\ \A k \in 1..M : seq[k] = points[Idx(len, k - 1)]
    <3>1. seq = [k \in 1..M |-> points[Idx(len, k - 1)]]
      BY <2>2 DEF PickedOf
    <3>2. \A k \in 1..M : points[Idx(len, k - 1)] \in V
      <4> TAKE k \in 1..M
      <4>1. k - 1 \in 0..(M - 1)
        BY <1>1
      <4> QED
        BY <2>1, <4>1
    <3> HIDE DEF seq
    <3> QED
      BY <3>1, <3>2
  <2> HIDE DEF seq
  <2>4. \E h : Thins(seq, h)
    BY <1>1, <2>3, ThinsExists
  <2>5. Thins(seq, g)
    BY <2>4
  <2> HIDE DEF g
  <2>6. /\ g[1..0] = <<>>
        /\ \A k \in 1..M : g[1..k] = With(g[1..(k - 1)], seq[k])
    BY <1>1, <2>3, <2>5, ThinsUp
  <2>7. Downsample(points) = g[1..M]
    <3>1. Downsample(points) = g[DOMAIN seq]
      BY <1>3, DownsampleIsFold DEF g, seq
    <3>2. DOMAIN seq = 1..M
      BY <2>3
    <3> QED
      BY <3>1, <3>2, Zenon
  <2> DEFINE Good(k) == /\ g[1..k] \in Seq(V) /\ Len(g[1..k]) <= k
                        /\ Spans(g[1..k], points, Idx(len, k - 1))
             F == {k \in 0..(M - 1) : Good(k + 1)}
  <2>8. Good(1)
    <3>1. g[1..1] = With(<<>>, points[1])
      <4>1. 1 \in 1..M /\ 1 - 1 = 0
        BY <1>1
      <4>2. seq[1] = points[1]
        BY <2>1, <2>3, <4>1
      <4>3. g[1..1] = With(g[1..(1 - 1)], seq[1])
        BY <2>6, <4>1
      <4> QED
        BY <2>6, <4>1, <4>2, <4>3, Zenon
    <3>2. With(<<>>, points[1]) = <<points[1]>>
      BY DEF With
    <3>3. Spans(<<points[1]>>, points, 1)
      BY <1>1 DEF Spans
    <3>4. points[1] \in V /\ Idx(len, 1 - 1) = 1
      BY <1>1, <2>1
    <3>5. g[1..1] = <<points[1]>>
      BY <3>1, <3>2, Zenon
    <3>6. <<points[1]>> \in Seq(V) /\ Len(<<points[1]>>) <= 1
      BY <3>4
    <3>7. Spans(<<points[1]>>, points, Idx(len, 1 - 1))
      BY <3>3, <3>4, Zenon
    <3> QED
      BY <3>5, <3>6, <3>7, Zenon
  <2>9. ASSUME NEW k \in 1..(M - 1), Good(k) PROVE Good(k + 1)
    <3> DEFINE i == Idx(len, k - 1)
               j == Idx(len, k)
               kept == g[1..k]
    <3>1. i \in 1..len /\ j \in 1..len /\ i <= j
      BY <1>1, <2>1
    <3>2. g[1..(k + 1)] = With(kept, points[j])
      <4>1. k + 1 \in 1..M /\ (k + 1) - 1 = k
        BY <1>1
      <4>2. g[1..(k + 1)] = With(g[1..((k + 1) - 1)], seq[k + 1])
        BY <2>6, <4>1
      <4>3. seq[k + 1] = points[j]
        BY <2>3, <4>1
      <4> QED
        BY <4>1, <4>2, <4>3, Zenon
    <3>3. kept \in Seq(V) /\ Spans(kept, points, i) /\ Len(kept) <= k
      BY <2>9
    <3> HIDE DEF i, j, kept
    <3>4. /\ With(kept, points[j]) \in Seq(V)
          /\ Spans(With(kept, points[j]), points, j)
          /\ Len(With(kept, points[j])) <= Len(kept) + 1
      BY <3>1, <3>3, SpansOn
    <3>5. Len(kept) \in Nat /\ Len(With(kept, points[j])) \in Nat
      BY <3>3, <3>4
    <3>6. (k + 1) - 1 = k
      OBVIOUS
    <3>7. Len(g[1..(k + 1)]) <= k + 1
      BY <3>2, <3>3, <3>4, <3>5
    <3> QED
      BY <3>2, <3>4, <3>6, <3>7 DEF j
  <2> HIDE DEF Good
  <2>10. F = 0..(M - 1)
    <3>1. M - 1 \in Nat /\ 0 \in F /\ F \in SUBSET (0..(M - 1))
      BY <1>1, <2>8
    <3>2. \A k \in F : k < M - 1 => k + 1 \in F
      <4> TAKE k \in F
      <4> HAVE k < M - 1
      <4>1. k + 1 \in 1..(M - 1) /\ k + 1 \in 0..(M - 1) /\ Good(k + 1)
        BY <1>1
      <4> QED
        BY <2>9, <4>1
    <3> HIDE DEF F
    <3> QED
      BY <3>1, <3>2, CountUp
  <2>11. Good(M)
    <3>1. M - 1 \in F /\ (M - 1) + 1 = M
      BY <1>1, <2>10
    <3> QED
      BY <3>1
  <2> QED
    BY <1>1, <2>1, <2>7, <2>11 DEF Good
<1> QED
  BY <1>2, <1>3

----------------------------------------------------------------------------
(* What the forced closes cost.                                            *)
Cost(t) == SlippageCost(t.price, t.fill, t.leg.qty) + CloseFee(t)
Forced(ts) == {t \in ts : t.reason = "EOD"}
CostOf(S) == MapThenSumSet(Cost, S)

\* The sum of costs is a sum of a function.
LEMMA CostSums ==
  ASSUME NEW D, NEW S, S \subseteq D
  PROVE  CostOf(S) = Total([t \in D |-> Cost(t)], S)
BY Zenon DEF CostOf, Total, MapThenSumSet, MapThenFoldSet, SumFunctionOnSet, FoldFunctionOnSet

\* The curve of a run that is over, with these costs.
RunSpanned ==
    pc = "done" /\ Now > 0 =>
        /\ Len(curve) <= MaxPoints /\ curve[1].t = 1 /\ Last(curve).t = Now
        /\ \A n \in 2..Len(curve) : curve[n - 1].t <= curve[n].t
        /\ Last(curve).equity - (Balance + net) \in 0..CostOf(Forced(trades))

\* It is what the property says of the curve.
LEMMA SpansRunIs == CurveSpansRun <=> RunSpanned
BY Zenon DEF CurveSpansRun, RunSpanned, CostOf, Cost, Forced

\* A close costs what its fill is worse than the price, and its fee; it is never
\* negative.
LEMMA CostIs ==
  ASSUME NEW bs \in Seq(Candles), NEW t, TradeOf(t, bs, FALSE)
  PROVE  /\ Cost(t) \in Nat /\ CloseFee(t) \in Nat /\ Gained(t.leg, t.price) \in Int
         /\ Gained(t.leg, t.price) = GrossPnl(t) + SlippageCost(t.price, t.fill, t.leg.qty)
         /\ SlippageCost(t.price, t.fill, t.leg.qty) \in Nat
<1> DEFINE p == t.leg
           side == p.side
           y == t.price
           qty == p.qty
           f == p.fill
           g == t.fill
<1>1. /\ f \in Nat /\ qty \in Nat /\ side \in Sides
  BY LegIsPriced DEF TradeOf
<1>2. y \in Nat /\ g \in Nat /\ g = FillPrice(y, side, "CLOSE")
  BY TradeIsSettled
<1>3. GrossPnl(t) = Gain(side, f, g) * qty /\ Gained(p, y) = Gain(side, f, y) * qty
      /\ CloseFee(t) = Percent(CloseFeePct, g * qty)
      /\ Cost(t) = SlippageCost(y, g, qty) + CloseFee(t)
  BY DEF GrossPnl, Gained, CloseFee, Cost
<1> HIDE DEF p, side, y, qty, f, g
<1>4. /\ side = "LONG" => g <= y
      /\ side # "LONG" => g >= y
  BY <1>1, <1>2, FillIsWorse
<1>5. SlippageCost(y, g, qty) = Gain(side, g, y) * qty /\ Gain(side, g, y) \in Nat
  BY <1>2, <1>4 DEF SlippageCost, Gain
<1>6. /\ Gain(side, f, g) \in Int /\ Gain(side, g, y) \in Int /\ Gain(side, f, y) \in Int
      /\ Gain(side, f, y) = Gain(side, f, g) + Gain(side, g, y)
  <2>1. /\ Gain(side, f, g) \in Int /\ Gain(side, f, f) \in Int /\ Gain(side, g, y) \in Int
        /\ Gain(side, f, y) = Gain(side, f, g) + Gain(side, f, f) + Gain(side, g, y)
    BY <1>1, <1>2, GainsAdd
  <2>2. Gain(side, f, f) = 0
    BY <1>1 DEF Gain
  <2> QED
    BY <2>1, <2>2
<1>7. \A a, b \in Int : (a + b) * qty = a * qty + b * qty /\ a * qty \in Int
  BY <1>1
<1>8. SlippageCost(y, g, qty) \in Nat
  <2>1. \A k \in Nat : k * qty \in Nat
    BY <1>1
  <2> QED
    BY <1>5, <2>1
<1>9. CloseFee(t) \in Nat
  <2> DEFINE k == g * qty
  <2>1. k \in Nat
    BY <1>1, <1>2
  <2> HIDE DEF k
  <2>2. CloseFeePct \in Int /\ CloseFeePct >= 0
    BY CostAssumption
  <2>3. Percent(CloseFeePct, k) \in Int /\ Percent(CloseFeePct, k) >= 0
    BY <2>1, <2>2, PercentIs
  <2> QED
    BY <1>3, <2>3 DEF k
<1>10. Gained(p, y) = GrossPnl(t) + SlippageCost(y, g, qty) /\ Gained(p, y) \in Int
  BY <1>3, <1>5, <1>6, <1>7
<1> QED
  BY <1>3, <1>8, <1>9, <1>10 DEF p, y, g, qty

\* All legs of S are closed at the price mark, p by the trade m[p].
ClosedAt(S, mark, m, done, bs) ==
    /\ IsFiniteSet(S) /\ bs \in Seq(Candles) /\ done = {m[p] : p \in S}
    /\ \A p \in S : m[p].leg = p /\ m[p].price = mark /\ TradeOf(m[p], bs, FALSE)

\* What is left at the last close is worth its trades and what they cost.
LEMMA ForcedCloses ==
  ASSUME NEW S, NEW mark, NEW m, NEW done, NEW bs, ClosedAt(S, mark, m, done, bs)
  PROVE  /\ CostOf(done) \in Nat
         /\ Unrealized(S, mark)
              = MapThenSumSet(GrossPnl, done) - MapThenSumSet(CloseFee, done) + CostOf(done)
<1> DEFINE u == [p \in S |-> Gained(p, mark)]
           v == [t \in done |-> Gained(t.leg, t.price)]
           g == [t \in done |-> GrossPnl(t)]
           c == [t \in done |-> CloseFee(t)]
           x == [t \in done |-> Cost(t)]
           s == [t \in done |-> SlippageCost(t.price, t.fill, t.leg.qty)]
<1>1. bs \in Seq(Candles) /\ \A t \in done : TradeOf(t, bs, FALSE)
  BY DEF ClosedAt
<1>2. \A t \in done : /\ x[t] \in Nat /\ c[t] \in Nat /\ v[t] \in Int /\ s[t] \in Nat
                      /\ g[t] \in Int /\ v[t] = g[t] + s[t] /\ x[t] = s[t] + c[t]
  <2> TAKE t \in done
  <2>1. /\ Cost(t) \in Nat /\ CloseFee(t) \in Nat /\ Gained(t.leg, t.price) \in Int
        /\ Gained(t.leg, t.price) = GrossPnl(t) + SlippageCost(t.price, t.fill, t.leg.qty)
        /\ SlippageCost(t.price, t.fill, t.leg.qty) \in Nat
    BY <1>1, CostIs
  <2>2. GrossPnl(t) \in Int
    BY <1>1, TradeIsSettled DEF Settled
  <2> QED
    BY <2>1, <2>2 DEF Cost
<1>3. \A p \in S : m[p] \in done /\ m[p].leg = p /\ m[p].price = mark
  BY DEF ClosedAt
<1>4. \A p \in S : v[m[p]] = u[p] /\ u[p] \in Int
  BY <1>2, <1>3
<1>5. /\ Unrealized(S, mark) = Total(u, S)
      /\ MapThenSumSet(GrossPnl, done) = Total(g, done)
      /\ MapThenSumSet(CloseFee, done) = Total(c, done)
      /\ CostOf(done) = Total(x, done)
  <2>1. done \subseteq done /\ S \subseteq S
    OBVIOUS
  <2>2. Unrealized(S, mark) = Total(u, S)
    BY <2>1, GainSums
  <2>3. /\ MapThenSumSet(GrossPnl, done) = Total(g, done)
        /\ MapThenSumSet(CloseFee, done) = Total(c, done)
    BY <2>1, EngineSums
  <2>4. CostOf(done) = Total(x, done)
    BY <2>1, CostSums
  <2> QED
    BY <2>2, <2>3, <2>4
<1>6. \A p, q \in S : m[p] = m[q] => p = q
  BY <1>3
<1> HIDE DEF u, v, g, c, x, s
<1>7. Summable(v, done) /\ Total(v, done) = Total(u, S)
  <2>1. Summable(u, S)
    BY <1>4 DEF Summable, ClosedAt
  <2>2. done = {m[p] : p \in S}
    BY DEF ClosedAt
  <2>3. \A p \in S : v[m[p]] = u[p]
    BY <1>4
  <2> QED
    BY <1>6, <2>1, <2>2, <2>3, TotalOfImage
<1>8. /\ Summable(g, done) /\ Summable(c, done) /\ Summable(s, done) /\ IsFiniteSet(done)
  BY <1>2, <1>7 DEF Summable
<1>9. Total(v, done) = Total(g, done) + Total(s, done)
  BY <1>2, <1>8, TotalOfSum
<1>10. Total(x, done) = Total(s, done) + Total(c, done)
  BY <1>2, <1>8, TotalOfSum
<1>11. Total(x, done) \in Nat
  BY <1>2, <1>8, TotalOfNats
<1>12. Total(g, done) \in Int /\ Total(s, done) \in Int /\ Total(c, done) \in Int
  BY <1>8, TotalUnfolds
<1> QED
  BY <1>5, <1>7, <1>9, <1>10, <1>11, <1>12

----------------------------------------------------------------------------
(* The curve of a replay, from sample to sample.                           *)
\* What a sample holds.
Points == [t : 1..MaxBars, equity : Int, realized : Int, fees : Int, openCount : Nat]

\* A sample a bar, the last one telling what is open at its close; after the
\* forced closes it is off by what they cost.
CurveInv ==
    /\ curve \in Seq(Points) /\ Now <= MaxBars
    /\ pc \in {"bar", "exits", "cycle", "sample", "eod", "done"}
    /\ pc # "done" =>
          /\ Len(curve) = IF pc \in {"bar", "eod"} THEN Now ELSE Now - 1
          /\ \A k \in 1..Len(curve) : curve[k].t = k
    /\ pc = "bar" /\ Now > 0 => curve[Now].equity = Equity(open, Bar.close)
    /\ pc = "eod" =>
          /\ CostOf(Forced(trades)) \in Nat
          /\ curve[Now].equity - (Balance + net) = CostOf(Forced(trades))
    /\ RunSpanned

\* A sample is one, whatever is open.
LEMMA SnapshotIs ==
  ASSUME FairInv, BookInv, Now \in 1..MaxBars,
         NEW ps, ps \subseteq open, NEW mark \in Nat
  PROVE  /\ Snapshot(ps, mark) \in Points /\ Snapshot(ps, mark).t = Now
         /\ Snapshot(ps, mark).equity = Equity(ps, mark)
         /\ Equity(ps, mark) = Balance - fees + gross + Unrealized(ps, mark)
         /\ Unrealized(ps, mark) \in Int
<1>1. IsFiniteSet(ps) /\ Cardinality(ps) \in Nat
  BY FS_Subset, FS_CardinalityType DEF BookInv
<1>2. \A p \in ps : Valued(p)
  BY LegIsPriced DEF FairInv, Fair, Valued
<1>3. Unrealized(ps, mark) \in Int
  <2> DEFINE none == {}
  <2>1. IsFiniteSet(none) /\ none \cap ps = {} /\ \A p \in none \cup ps : Valued(p)
    BY <1>2, FS_EmptySet
  <2>2. mark \in Int
    OBVIOUS
  <2> HIDE DEF none
  <2> QED
    BY <1>1, <2>1, <2>2, WorthOfUnion
<1>4. Equity(ps, mark) = Balance - fees + gross + Unrealized(ps, mark)
  BY DEF Equity
<1>5. Equity(ps, mark) \in Int
  BY <1>3, <1>4, AccountAssumption DEF BookInv
<1>6. net \in Int /\ fees \in Int
  BY DEF BookInv
<1> QED
  BY <1>1, <1>3, <1>4, <1>5, <1>6 DEF Snapshot, Points

\* Nothing open is worth nothing.
LEMMA NothingIsWorth == \A mark : Unrealized({}, mark) = 0
<1> TAKE mark
<1> DEFINE none == {}
<1>1. none \subseteq none
  OBVIOUS
<1>2. Unrealized(none, mark) = Total([p \in none |-> Gained(p, mark)], none)
  <2> HIDE DEF none
  <2> QED
    BY <1>1, GainSums
<1>3. Total([p \in none |-> Gained(p, mark)], {}) = 0
  BY TotalOfNone
<1> QED
  BY <1>2, <1>3

\* The last sample before the forced closes is off by their costs after them.
LEMMA ForcedIsOff ==
  ASSUME FairInv, FairInv', BookInv, BookInv', CurveInv, CloseRest
  PROVE  /\ CostOf(Forced(trades')) \in Nat
         /\ curve[Now].equity - (Balance + net') = CostOf(Forced(trades'))
<1> DEFINE mark == Bar.close
           m == [p \in open |-> Trade(p, "EOD", mark)]
           done == {m[p] : p \in open}
           G == MapThenSumSet(GrossPnl, done)
           C == MapThenSumSet(CloseFee, done)
<1>1. /\ pc = "bar" /\ Now > 0 /\ open' = {} /\ bars' = bars /\ curve' = curve
      /\ Book(0, {Trade(p, "EOD", Bar.close) : p \in open})
  BY DEF CloseRest
<1>2. done = {Trade(p, "EOD", Bar.close) : p \in open}
  OBVIOUS
<1>3. /\ trades' = trades \cup done /\ gross' = gross + G /\ fees' = fees + 0 + C
  <2>1. Book(0, done)
    <3> HIDE DEF done
    <3> QED
      BY <1>1, <1>2, Zenon
  <2> QED
    BY <2>1 DEF Book
<1>4. \A p \in open : m[p].leg = p /\ m[p].price = mark /\ m[p].reason = "EOD"
  BY DEF Trade
<1>5. \A t \in trades : t.reason # "EOD"
  BY <1>1 DEF FairInv, Fair, Over
<1>6. Forced(trades') = done
  BY <1>3, <1>4, <1>5 DEF Forced
<1>7. ClosedAt(open, mark, m, done, bars')
  <2>1. \A p \in open : TradeOf(m[p], bars', FALSE)
    BY <1>3 DEF FairInv, Fair
  <2>2. IsFiniteSet(open) /\ bars' \in Seq(Candles)
    BY DEF BookInv, FairInv
  <2> HIDE DEF m, mark
  <2> QED
    BY <1>4, <2>1, <2>2 DEF ClosedAt
<1> HIDE DEF mark, m, done
<1>8. CostOf(done) \in Nat /\ Unrealized(open, mark) = G - C + CostOf(done)
  BY <1>7, ForcedCloses
<1>9. G \in Int /\ C \in Int
  <2>1. \A p \in open : m[p].leg = p /\ Settled(m[p])
    BY <1>7, TradeIsSettled DEF ClosedAt
  <2>2. IsFiniteSet(open) /\ done = {m[p] : p \in open}
    BY <1>7 DEF ClosedAt
  <2> QED
    BY <2>1, <2>2, SumsOfClosing
<1>10. net' = gross' - fees'
  <2>1. net' = gross' - fees' + MapThenSumSet(OpenFee, open')
    BY DEF BookInv, BooksBalance
  <2>2. MapThenSumSet(OpenFee, open') = 0
    BY <1>1, NoFees, Zenon
  <2> QED
    BY <2>1, <2>2 DEF BookInv
<1>11. curve[Now].equity = Balance - fees + gross + Unrealized(open, mark)
  BY <1>1 DEF CurveInv, Equity, mark
<1>12. fees \in Int /\ gross \in Int /\ Balance \in Int
  BY AccountAssumption DEF BookInv
<1> HIDE DEF G, C
<1>13. curve[Now].equity - (Balance + net') = CostOf(done)
  BY <1>3, <1>8, <1>9, <1>10, <1>11, <1>12
<1> QED
  BY <1>6, <1>8, <1>13

\* The curve of a run ends where its books do.
LEMMA CurveEnds ==
  ASSUME FairInv, BookInv, CurveInv, Finish
  PROVE  curve' \in Seq(Points) /\ RunSpanned'
<1> DEFINE last == Snapshot({}, Bar.close)
           points == Append(curve, last)
           thin == Downsample(points)
           off == CostOf(Forced(trades))
<1>1. /\ pc = "eod" /\ pc' = "done" /\ curve' = thin /\ open = {}
      /\ bars' = bars /\ trades' = trades /\ net' = net
  BY DEF Finish, FairInv, Fair, Over
<1>2. /\ curve \in Seq(Points) /\ Len(curve) = Now /\ Now \in 1..MaxBars
      /\ \A k \in 1..Now : curve[k].t = k
      /\ off \in Nat /\ curve[Now].equity - (Balance + net) = off
  BY <1>1 DEF CurveInv, FairInv, Fair, Now
<1>3. Bar.close \in Nat
  <2>1. Bar \in Candles
    BY <1>2 DEF Bar, Now, FairInv
  <2> QED
    BY <2>1, CandleAssumption
<1>4. last \in Points /\ last.t = Now /\ last.equity = Balance + net
  <2>1. /\ last \in Points /\ last.t = Now
        /\ last.equity = Balance - fees + gross + Unrealized({}, Bar.close)
    BY <1>2, <1>3, SnapshotIs
  <2>2. net = gross - fees + MapThenSumSet(OpenFee, open)
    BY DEF BookInv, BooksBalance
  <2>3. MapThenSumSet(OpenFee, open) = 0
    BY <1>1, NoFees, Zenon
  <2>4. Unrealized({}, Bar.close) = 0
    BY NothingIsWorth
  <2>5. Balance \in Int /\ fees \in Int /\ gross \in Int
    BY AccountAssumption DEF BookInv
  <2> HIDE DEF last
  <2> QED
    BY <2>1, <2>2, <2>3, <2>4, <2>5
<1> HIDE DEF last
<1>5. /\ points \in Seq(Points) /\ Len(points) = Now + 1
      /\ \A k \in 1..Now : points[k] = curve[k]
      /\ points[Now + 1] = last
  BY <1>2, <1>4
<1>6. Now \in Nat /\ Now >= 1
  BY <1>2
<1> HIDE DEF points, off
<1>7. Sampled(points, Now)
  BY <1>2, <1>4, <1>5, <1>6 DEF Sampled
<1>8. thin \in Seq(Points) /\ Spans(thin, points, Now + 1) /\ Len(thin) <= MaxPoints
  BY <1>5, <1>7, DownsampleSpans
<1> HIDE DEF thin
<1>9. Len(thin) >= 1 /\ Len(thin) \in Nat
  BY <1>8 DEF Spans
<1>10. thin[1].t = 1
  BY <1>2, <1>5, <1>6, <1>8 DEF Spans
<1>11. Last(thin).t = Now
  BY <1>4, <1>5, <1>8 DEF Spans, Last
<1>12. \A k \in 2..Len(thin) : thin[k - 1].t <= thin[k].t
  BY <1>8 DEF Spans
<1>13. Last(thin).equity - (Balance + net) \in 0..off
  <2>1. PICK j \in 1..(Now + 1) : Last(thin) = points[j]
    BY <1>5, <1>8, <1>9 DEF Spans, Last
  <2>2. j = Now \/ j = Now + 1
    BY <1>2, <1>5, <1>6, <1>11, <2>1
  <2>3. points[Now] = curve[Now]
    BY <1>5, <1>6
  <2>4. Balance + net \in Int
    BY AccountAssumption DEF BookInv
  <2>5. CASE j = Now
    BY <1>2, <2>1, <2>3, <2>5
  <2>6. CASE j = Now + 1
    BY <1>2, <1>4, <1>5, <2>1, <2>4, <2>6
  <2> QED
    BY <2>2, <2>5, <2>6
<1>14. RunSpanned'
  <2>1. Now' = Now
    BY <1>1 DEF Now
  <2> QED
    BY <1>1, <1>8, <1>10, <1>11, <1>12, <1>13, <2>1 DEF off, RunSpanned
<1> QED
  BY <1>1, <1>8, <1>14

\* A sample goes on top of the curve.
LEMMA SampleGoesOn ==
  ASSUME FairInv, BookInv, CurveInv, Sample
  PROVE  CurveInv'
<1> DEFINE point == Snapshot(open, Bar.close)
<1>1. /\ pc = "sample" /\ pc' = "bar" /\ curve' = Append(curve, point)
      /\ bars' = bars /\ open' = open /\ fees' = fees /\ gross' = gross
  BY DEF Sample
<1>2. /\ curve \in Seq(Points) /\ Now \in 1..MaxBars /\ Len(curve) = Now - 1
      /\ \A k \in 1..Len(curve) : curve[k].t = k
  BY <1>1 DEF CurveInv, FairInv, Fair, Now
<1>3. Bar.close \in Nat
  <2>1. Bar \in Candles
    BY <1>2 DEF Bar, Now, FairInv
  <2> QED
    BY <2>1, CandleAssumption
<1>4. point \in Points /\ point.t = Now /\ point.equity = Equity(open, Bar.close)
  BY <1>2, <1>3, SnapshotIs
<1> HIDE DEF point
<1>5. /\ curve' \in Seq(Points) /\ Len(curve') = Now /\ curve'[Now] = point
      /\ \A k \in 1..Now : curve'[k].t = k
  BY <1>1, <1>2, <1>4
<1>6. Now' = Now /\ Now \in Nat
  BY <1>1, <1>2 DEF Now
<1>7. Equity(open, Bar.close)' = Equity(open, Bar.close)
  <2>1. Unrealized(open, Bar.close)' = Unrealized(open, Bar.close)
    BY <1>1, <1>6 DEF Bar
  <2> QED
    BY <1>1, <2>1 DEF Equity
<1>8. RunSpanned'
  BY <1>1 DEF RunSpanned
<1> QED
  BY <1>1, <1>2, <1>4, <1>5, <1>6, <1>7, <1>8 DEF CurveInv

\* The curve of a replay tells of each of its bars.
LEMMA CurveStays == Spec => []CurveInv
<1>1. Init => CurveInv
  <2> SUFFICES ASSUME Init PROVE CurveInv
    OBVIOUS
  <2>1. bars = <<>> /\ curve = <<>> /\ pc = "bar"
    BY DEF Init
  <2>2. Now = 0 /\ Now <= MaxBars
    BY <2>1, LimitAssumption DEF Now
  <2>3. RunSpanned
    BY <2>1 DEF RunSpanned
  <2> QED
    BY <2>1, <2>2, <2>3 DEF CurveInv
<1>2. FairInv /\ FairInv' /\ BookInv /\ BookInv' /\ CurveInv /\ [Next]_vars => CurveInv'
  <2> SUFFICES ASSUME FairInv, FairInv', BookInv, BookInv', CurveInv, [Next]_vars
               PROVE  CurveInv'
    OBVIOUS
  <2>1. CASE \E b \in Candles : ReadBar(b)
    <3>1. PICK b \in Candles : ReadBar(b)
      BY <2>1
    <3>2. /\ pc = "bar" /\ pc' = "exits" /\ Now < MaxBars /\ bars' = Append(bars, b)
          /\ curve' = curve
      BY <3>1 DEF ReadBar
    <3>3. Now' = Now + 1 /\ Now \in Nat
      BY <3>2 DEF Now, FairInv
    <3>4. RunSpanned'
      BY <3>2 DEF RunSpanned
    <3> QED
      BY <3>2, <3>3, <3>4, LimitAssumption DEF CurveInv
  <2>2. CASE Exits \/ OpenCycle \/ SkipCycle
    <3>1. /\ pc \in {"exits", "cycle"} /\ pc' \in {"cycle", "sample"}
          /\ curve' = curve /\ bars' = bars
      BY <2>2 DEF Exits, OpenCycle, SkipCycle
    <3>2. Now' = Now
      BY <3>1 DEF Now
    <3>3. RunSpanned'
      BY <3>1 DEF RunSpanned
    <3> QED
      BY <3>1, <3>2, <3>3 DEF CurveInv
  <2>3. CASE Sample
    BY <2>3, SampleGoesOn
  <2>4. CASE CloseRest
    <3>1. pc = "bar" /\ pc' = "eod" /\ curve' = curve /\ bars' = bars
      BY <2>4 DEF CloseRest
    <3>2. Now' = Now
      BY <3>1 DEF Now
    <3>3. /\ CostOf(Forced(trades')) \in Nat
          /\ curve[Now].equity - (Balance + net') = CostOf(Forced(trades'))
      BY <2>4, ForcedIsOff
    <3>4. CostOf(Forced(trades))' = CostOf(Forced(trades'))
      OBVIOUS
    <3>5. RunSpanned'
      BY <3>1 DEF RunSpanned
    <3> QED
      BY <3>1, <3>2, <3>3, <3>4, <3>5 DEF CurveInv
  <2>5. CASE NoBars
    <3>1. pc' = "done" /\ curve' = curve /\ Now = 0 /\ Now' = Now
      BY <2>5 DEF NoBars, Now
    <3>2. RunSpanned'
      BY <3>1 DEF RunSpanned
    <3> QED
      BY <3>1, <3>2 DEF CurveInv
  <2>6. CASE Finish
    <3>1. curve' \in Seq(Points) /\ RunSpanned'
      BY <2>6, CurveEnds
    <3>2. pc' = "done" /\ bars' = bars
      BY <2>6 DEF Finish
    <3>3. Now' = Now
      BY <3>2 DEF Now
    <3> QED
      BY <3>1, <3>2, <3>3 DEF CurveInv
  <2>7. CASE UNCHANGED vars
    <3>1. /\ bars' = bars /\ open' = open /\ trades' = trades /\ fees' = fees
          /\ gross' = gross /\ net' = net /\ curve' = curve /\ pc' = pc
      BY <2>7 DEF vars
    <3>2. Now' = Now /\ CostOf(Forced(trades))' = CostOf(Forced(trades))
      BY <3>1 DEF Now
    <3>3. Equity(open, Bar.close)' = Equity(open, Bar.close)
      <4>1. Unrealized(open, Bar.close)' = Unrealized(open, Bar.close)
        BY <3>1, <3>2 DEF Bar
      <4> QED
        BY <3>1, <4>1 DEF Equity
    <3>4. RunSpanned'
      BY <3>1, <3>2 DEF RunSpanned, CurveInv
    <3> QED
      BY <3>1, <3>2, <3>3, <3>4 DEF CurveInv
  <2> QED
    BY <2>1, <2>2, <2>3, <2>4, <2>5, <2>6, <2>7 DEF Next
<1> QED
  BY <1>1, <1>2, FairInvStays, BooksStayBalanced, PTL DEF Spec

\* With a buffer that is enough the margin stays covered.
LEMMA MarginStaysCovered ==
  ASSUME Buffered
  PROVE  Spec => []MarginCovered
<1>1. Init => MarginCovered
  BY DEF Init, MarginCovered
<1>2. FairInv /\ FairInv' /\ AccountInv /\ AccountInv' /\ BookInv
        /\ MarginCovered /\ [Next]_vars => MarginCovered'
  <2> SUFFICES ASSUME FairInv, FairInv', AccountInv, AccountInv', BookInv, MarginCovered,
                      [Next]_vars
               PROVE  MarginCovered'
    OBVIOUS
  <2>1. CASE OpenCycle
    BY <2>1, CycleIsCovered
  <2>2. CASE SkipCycle
    <3>1. pc = "cycle" /\ open' = open /\ bars' = bars
      BY <2>2 DEF SkipCycle
    <3>2. \A p \in open : p.cycle # Now
      <4>1. Now \in Nat
        BY DEF AccountInv, Now
      <4> QED
        BY <3>1, <4>1 DEF AccountInv, Decided
    <3>3. Now' \notin OpenCycles'
      BY <3>1, <3>2 DEF OpenCycles, Now
    <3> QED
      BY <3>3 DEF MarginCovered
  <2>3. CASE \/ \E b \in Candles : ReadBar(b)
             \/ Exits \/ Sample \/ CloseRest \/ NoBars \/ Finish
    <3>1. pc' # "sample"
      BY <2>3 DEF ReadBar, Exits, Sample, CloseRest, NoBars, Finish
    <3> QED
      BY <3>1 DEF MarginCovered
  <2>4. CASE UNCHANGED vars
    <3>1. /\ bars' = bars /\ open' = open /\ fees' = fees /\ gross' = gross /\ pc' = pc
      BY <2>4 DEF vars
    <3>2. Now' = Now /\ Bar' = Bar /\ OpenCycles' = OpenCycles
      BY <3>1 DEF Now, Bar, OpenCycles
    <3>3. Equity(open, Bar.open)' = Equity(open, Bar.open)
      <4>1. Unrealized(open, Bar.open)' = Unrealized(open, Bar.open)
        BY <3>1, <3>2
      <4> QED
        BY <3>1, <4>1 DEF Equity
    <3>4. pc = "sample" /\ Now \in OpenCycles =>
            Equity(open, Bar.open) * Leverage >= Margin(open)
      BY Zenon DEF MarginCovered, Margin
    <3>5. (pc = "sample" /\ Now \in OpenCycles =>
            Equity(open, Bar.open) * Leverage >= Margin(open))'
      BY <3>1, <3>2, <3>3, <3>4
    <3> QED
      BY <3>5, Zenon DEF MarginCovered, Margin
  <2> QED
    BY <2>1, <2>2, <2>3, <2>4 DEF Next
<1> QED
  BY <1>1, <1>2, FairInvStays, AccountInvariant, BooksStayBalanced, PTL DEF Spec

\* The money of a replay: the sums of its books agree, its trades tell of all
\* costs, a cycle is opened only with the margin for it (if the buffer is enough
\* for its costs), and the curve of equity runs to its end.
THEOREM BooksStayTrue ==
  ASSUME Buffered
  PROVE  ComputeSpec => []BooksAreTrue
<1>1. FairInv /\ BookInv /\ CurveInv /\ MarginCovered => BooksAreTrue
  BY FairIsExplained, SpansRunIs DEF BooksAreTrue, BookInv, CurveInv
<1>2. Spec => []MarginCovered
  BY MarginStaysCovered
<1> QED
  BY <1>1, <1>2, ReplayRuns, FairInvStays, BooksStayBalanced, CurveStays, PTL

----------------------------------------------------------------------------
(* The types.                                                              *)

\* Legs and trades are records of these fields.
LegShaped(p) ==
    p = [cycle |-> p.cycle, side |-> p.side, qty |-> p.qty, price |-> p.price,
         fill |-> p.fill]
TradeShaped(t) ==
    /\ t = [leg |-> t.leg, time |-> t.time, reason |-> t.reason, price |-> t.price,
            fill |-> t.fill]
    /\ LegShaped(t.leg)

ShapeInv == (\A p \in open : LegShaped(p)) /\ (\A t \in trades : TradeShaped(t))

\* What is opened and what closes it has these shapes.
LEMMA ShapesAre ==
  /\ \A side : LegShaped(NewLeg(side))
  /\ \A p : LegShaped(p) => TradeShaped(Exit(p))
  /\ \A p, reason, price : LegShaped(p) => TradeShaped(Trade(p, reason, price))
<1>1. \A side : LegShaped(NewLeg(side))
  BY DEF LegShaped, NewLeg
<1>2. \A p, reason, price : LegShaped(p) => TradeShaped(Trade(p, reason, price))
  BY DEF TradeShaped, Trade
<1>3. \A p : LegShaped(p) => TradeShaped(Exit(p))
  BY <1>2 DEF Exit
<1> QED
  BY <1>1, <1>2, <1>3

\* Legs and trades keep their shapes.
LEMMA ShapesStay == Spec => []ShapeInv
<1>1. Init => ShapeInv
  BY DEF Init, ShapeInv
<1>2. ShapeInv /\ [Next]_vars => ShapeInv'
  <2> SUFFICES ASSUME ShapeInv, [Next]_vars PROVE ShapeInv'
    OBVIOUS
  <2>1. ASSUME NEW paid, NEW done, Book(paid, done), \A t \in done : TradeShaped(t)
        PROVE  \A t \in trades' : TradeShaped(t)
    BY <2>1 DEF Book, ShapeInv
  <2>2. CASE Exits
    <3>1. \A t \in {Exit(p) : p \in {q \in open : Touched(q, Bar)}} : TradeShaped(t)
      BY ShapesAre DEF ShapeInv
    <3>2. Book(0, {Exit(p) : p \in {q \in open : Touched(q, Bar)}}) /\ open' \subseteq open
      BY <2>2 DEF Exits
    <3>3. \A t \in trades' : TradeShaped(t)
      BY <2>1, <3>1, <3>2
    <3> QED
      BY <3>2, <3>3 DEF ShapeInv
  <2>3. CASE OpenCycle
    <3> DEFINE new == {NewLeg(side) : side \in Sides}
               gone == {p \in open \cup new : Touched(p, Bar)}
               done == {Exit(p) : p \in gone}
    <3>1. \A p \in open \cup new : LegShaped(p)
      BY ShapesAre DEF ShapeInv
    <3>2. \A t \in done : TradeShaped(t)
      <4>1. gone \subseteq open \cup new
        OBVIOUS
      <4> HIDE DEF gone, new
      <4> QED
        BY <3>1, <4>1, ShapesAre
    <3>3. Book(MapThenSumSet(OpenFee, new), done) /\ open' \subseteq open \cup new
      BY <2>3 DEF OpenCycle
    <3> HIDE DEF done, new
    <3>4. \A t \in trades' : TradeShaped(t)
      BY <2>1, <3>2, <3>3
    <3> QED
      BY <3>1, <3>3, <3>4 DEF ShapeInv
  <2>4. CASE CloseRest
    <3>1. \A t \in {Trade(p, "EOD", Bar.close) : p \in open} : TradeShaped(t)
      BY ShapesAre DEF ShapeInv
    <3>2. Book(0, {Trade(p, "EOD", Bar.close) : p \in open}) /\ open' = {}
      BY <2>4 DEF CloseRest
    <3>3. \A t \in trades' : TradeShaped(t)
      BY <2>1, <3>1, <3>2
    <3> QED
      BY <3>2, <3>3 DEF ShapeInv
  <2>5. CASE \/ \E b \in Candles : ReadBar(b)
             \/ SkipCycle \/ Sample \/ NoBars \/ Finish \/ UNCHANGED vars
    <3>1. open' = open /\ trades' = trades
      BY <2>5 DEF ReadBar, SkipCycle, Sample, NoBars, Finish, vars
    <3> QED
      BY <3>1 DEF ShapeInv
  <2> QED
    BY <2>2, <2>3, <2>4, <2>5 DEF Next
<1> QED
  BY <1>1, <1>2, PTL DEF Spec

\* The ledger, its sums and its curve have their types.
LEMMA TypesFollow ==
  ASSUME FairInv, BookInv, CurveInv, ShapeInv
  PROVE  TypeOK
<1>1. Now \in 0..MaxBars
  BY LimitAssumption DEF FairInv, CurveInv, Now
<1>2. \A p : LegOf(p, bars, FALSE) /\ LegShaped(p) => p \in Legs
  <2> SUFFICES ASSUME NEW p, LegOf(p, bars, FALSE), LegShaped(p) PROVE p \in Legs
    OBVIOUS
  <2>1. p.price \in Nat /\ p.fill \in Nat /\ p.qty \in Nat /\ p.side \in Sides
    BY LegIsPriced DEF FairInv
  <2>2. p.cycle \in 1..MaxBars
    BY <1>1, LimitAssumption DEF LegOf, Now
  <2> QED
    BY <2>1, <2>2 DEF LegShaped, Legs
<1>3. open \subseteq Legs
  BY <1>2 DEF FairInv, Fair, ShapeInv
<1>4. trades \subseteq [leg : Legs, time : 1..MaxBars, price : Int, fill : Int,
                        reason : {"TP", "SL", "EOD"}]
  <2> SUFFICES ASSUME NEW t \in trades
               PROVE  t \in [leg : Legs, time : 1..MaxBars, price : Int, fill : Int,
                             reason : {"TP", "SL", "EOD"}]
    OBVIOUS
  <2>1. TradeOf(t, bars, FALSE) /\ TradeShaped(t)
    BY DEF FairInv, Fair, ShapeInv
  <2>2. t.leg \in Legs
    BY <1>2, <2>1 DEF TradeOf, TradeShaped
  <2>3. t.price \in Nat /\ t.fill \in Nat
    BY <2>1, TradeIsSettled DEF FairInv
  <2>4. t.time \in 1..MaxBars
    <3>1. t.leg.cycle \in 1..MaxBars
      BY <2>2 DEF Legs
    <3> QED
      BY <1>1, <2>1, <3>1, LimitAssumption DEF TradeOf, Now
  <2>5. t.reason \in {"TP", "SL", "EOD"}
    BY <2>1 DEF TradeOf, ClosedBy
  <2> QED
    BY <2>1, <2>2, <2>3, <2>4, <2>5 DEF TradeShaped
<1>5. \A n \in DOMAIN curve : curve[n] \in Points
  BY DEF CurveInv
<1>6. bars \in Seq(Candles) /\ fees \in Int /\ gross \in Int /\ net \in Int
  BY DEF FairInv, BookInv
<1> QED
  BY <1>1, <1>3, <1>4, <1>5, <1>6 DEF TypeOK, CurveInv, Points

----------------------------------------------------------------------------
(* The types of the page.                                                  *)
\* Jobs are made in the order of their ids, each of one that was there.
IdInv ==
    /\ \A j, k \in Jobs : j < k /\ jobStatus[k] # None => jobStatus[j] # None
    /\ \A j \in Jobs : copyOf[j] # None => copyOf[j] < j

\* What the page shows and asks for has its types.
ShownInv ==
    /\ meta \in BOOLEAN /\ listFailed \in BOOLEAN /\ clicks \in 0 .. MaxClicks
    /\ selected \in Jobs \cup {None}
    /\ list = None \/ list \in [Jobs -> Page!Statuses]
    /\ listing = None \/ listing = Page!Sent \/ listing.answer \in [Jobs -> Page!Statuses]

\* The next id is the least that is free.
LEMMA IdsAreInOrder ==
  ASSUME FormInv, CopyInv, CopyInv', IdInv, Page!PageNext
  PROVE  IdInv'
<1>0. Jobs \subseteq Nat /\ None \notin Jobs
  BY IdAssumption, NoneApart
<1>1. CASE Page!CreateServed
  <2>1. PICK j \in Page!NextId :
          /\ jobStatus' = [jobStatus EXCEPT ![j] = "RUNNING"]
          /\ copyOf' = [copyOf EXCEPT ![j] = submit.origin]
    BY <1>1 DEF Page!CreateServed
  <2>2. j \in Jobs /\ jobStatus[j] = None /\ \A k \in Jobs : k < j => jobStatus[k] # None
    BY DEF Page!NextId
  <2>3. \A k \in Jobs : jobStatus'[k] = IF k = j THEN "RUNNING" ELSE jobStatus[k]
    BY <2>1 DEF FormInv
  <2>4. \A k \in Jobs : copyOf'[k] = IF k = j THEN submit.origin ELSE copyOf[k]
    BY <2>1 DEF CopyInv
  <2>5. \A k, m \in Jobs : k < m /\ jobStatus'[m] # None => jobStatus'[k] # None
    BY <2>2, <2>3, NoneApart DEF IdInv
  <2>6. submit.origin # None => submit.origin \in Jobs /\ submit.origin < j
    <3> SUFFICES ASSUME submit.origin # None
                 PROVE  submit.origin \in Jobs /\ submit.origin < j
      OBVIOUS
    <3>1. submit.origin \in Jobs /\ jobStatus[submit.origin] # None
      BY <1>1 DEF CopyInv, Created, Page!CreateServed
    <3> DEFINE o == submit.origin
    <3>2. o # j /\ ~(j < o)
      BY <2>2, <3>1 DEF IdInv
    <3>3. o \in Nat /\ j \in Nat
      BY <1>0, <2>2, <3>1
    <3> HIDE DEF o
    <3>4. o < j
      BY <3>2, <3>3
    <3> QED
      BY <3>1, <3>4 DEF o
  <2> QED
    BY <2>4, <2>5, <2>6 DEF IdInv
<1>2. ASSUME NEW j, jobStatus[j] # None, NEW s, s # None, copyOf' = copyOf,
             jobStatus' = [jobStatus EXCEPT ![j] = s]
      PROVE  IdInv'
  <2>1. \A k \in Jobs : jobStatus'[k] # None <=> jobStatus[k] # None
    BY <1>2 DEF FormInv
  <2> QED
    BY <1>2, <2>1 DEF IdInv
<1>3. CASE \E j \in Jobs : Page!JobEnds(j)
  BY <1>2, <1>3, NoneApart DEF Page!JobEnds, Page!mutationVars
<1>4. CASE \E d \in deletes : Page!DeleteServed(d)
  BY <1>2, <1>4, NoneApart DEF Page!DeleteServed, Page!Alive
<1>5. CASE UNCHANGED <<jobStatus, copyOf>>
  BY <1>5 DEF IdInv
<1>6. CASE Page!UserNext
  BY <1>5, <1>6 DEF Page!UserNext, Page!handleSelectJob, Page!DeleteStart, Page!Edit,
     Page!handleSubmit, Page!serverVars, Page!mutationVars
<1>7. CASE \E g \in gets : Page!GetServed(g) \/ Page!GetAnswered(g) \/ Page!GetFails(g)
  BY <1>5, <1>7 DEF Page!GetServed, Page!GetAnswered, Page!GetFails, Page!serverVars,
     Page!mutationVars
<1>8. CASE \/ Page!MetaArrives \/ Page!PollList \/ Page!ListServed
           \/ Page!ListAnswered \/ Page!ListFails
  BY <1>5, <1>8 DEF Page!MetaArrives, Page!PollList, Page!ListServed,
     Page!ListAnswered, Page!ListFails, Page!serverVars, Page!mutationVars
<1>9. CASE \/ Page!CreateAnswered \/ Page!CreateFails \/ \E j \in Jobs : Page!Poll(j)
           \/ \E d \in deletes : Page!DeleteAnswered(d) \/ Page!DeleteFails(d)
  BY <1>5, <1>9 DEF Page!CreateAnswered, Page!CreateFails, Page!Poll,
     Page!DeleteAnswered, Page!DeleteFails, Page!serverVars, Page!mutationVars
<1> QED
  BY <1>1, <1>3, <1>4, <1>6, <1>7, <1>8, <1>9 DEF Page!PageNext

\* A list is asked for anew or goes on being asked for.
LEMMA InvalidatedIsAsked ==
  ASSUME ShownInv, Page!InvalidateList
  PROVE  /\ list' = list /\ listFailed' = listFailed
         /\ listing' = None \/ listing' = Page!Sent
              \/ listing'.answer \in [Jobs -> Page!Statuses]
BY DEF ShownInv, Page!InvalidateList

\* No step gives the page what it cannot show.
LEMMA ShownKeepsTypes ==
  ASSUME FormInv, CopyInv, ListInv, ShownInv, Page!PageNext
  PROVE  ShownInv'
<1>1. clicks' \in 0 .. MaxClicks
  <2>1. CASE Page!UserNext
    BY <2>1, IdAssumption DEF ShownInv, Page!UserNext
  <2> QED
    BY <2>1 DEF ShownInv, Page!PageNext
<1>2. ASSUME UNCHANGED <<meta, listFailed, selected, list, listing>>
      PROVE  ShownInv'
  BY <1>1, <1>2 DEF ShownInv
<1>3. CASE Page!UserNext
  <2>1. CASE \E j \in Jobs : Page!handleSelectJob(j)
    BY <1>1, <2>1 DEF Page!handleSelectJob, Page!listVars, ShownInv
  <2>2. CASE \E j \in Jobs : Page!DeleteStart(j)
    BY <1>2, <2>2 DEF Page!DeleteStart, Page!formVars, Page!listVars
  <2>3. CASE (\E f \in Edits : Page!Edit(f)) \/ Page!handleSubmit
    BY <1>2, <2>3 DEF Page!Edit, Page!handleSubmit, Page!formVars, Page!listVars
  <2> QED
    BY <1>3, <2>1, <2>2, <2>3 DEF Page!UserNext
<1>4. CASE \E j \in Jobs : Page!JobEnds(j) \/ Page!Poll(j)
  BY <1>2, <1>4 DEF Page!JobEnds, Page!Poll, Page!formVars, Page!listVars
<1>5. CASE \E g \in gets : Page!GetServed(g) \/ Page!GetAnswered(g) \/ Page!GetFails(g)
  BY <1>2, <1>5 DEF Page!GetServed, Page!GetAnswered, Page!GetFails, Page!formVars,
     Page!listVars
<1>6. CASE Page!MetaArrives
  BY <1>1, <1>6 DEF Page!MetaArrives, Page!listVars, ShownInv
<1>7. CASE Page!PollList \/ Page!ListFails
  BY <1>1, <1>7 DEF Page!PollList, Page!ListFails, Page!formVars, ShownInv
<1>8. CASE Page!ListServed
  <2>1. Page!Rows \in [Jobs -> Page!Statuses]
    BY DEF Page!Rows, Page!Alive, Page!Statuses, FormInv
  <2> QED
    BY <1>1, <1>8, <2>1 DEF Page!ListServed, Page!formVars, ShownInv
<1>9. CASE Page!ListAnswered
  <2>1. listing.answer \in [Jobs -> Page!Statuses]
    BY <1>9 DEF Page!ListAnswered, ListInv
  <2> QED
    BY <1>1, <1>9, <2>1 DEF Page!ListAnswered, Page!formVars, ShownInv
<1>10. CASE Page!CreateServed \/ Page!CreateFails
  BY <1>2, <1>10 DEF Page!CreateServed, Page!CreateFails, Page!formVars, Page!listVars
<1>11. CASE Page!CreateAnswered
  <2>1. submit.id \in Jobs /\ selected' = submit.id /\ meta' = meta /\ Page!InvalidateList
    BY <1>11 DEF Page!CreateAnswered, ListInv, Created, Page!formVars
  <2> QED
    BY <1>1, <2>1, InvalidatedIsAsked DEF ShownInv
<1>12. CASE \E d \in deletes : Page!DeleteAnswered(d)
  <2>1. selected' = None /\ meta' = meta /\ Page!InvalidateList
    BY <1>12 DEF Page!DeleteAnswered, Page!formVars
  <2> QED
    BY <1>1, <2>1, InvalidatedIsAsked DEF ShownInv
<1>13. CASE \E d \in deletes : Page!DeleteServed(d) \/ Page!DeleteFails(d)
  BY <1>2, <1>13 DEF Page!DeleteServed, Page!DeleteFails, Page!formVars, Page!listVars
<1> QED
  BY <1>3, <1>4, <1>5, <1>6, <1>7, <1>8, <1>9, <1>10, <1>11, <1>12, <1>13
     DEF Page!PageNext

\* The types of the page, as the run checks them.
LEMMA PageTypesStay == ComputeSpec => []Page!PageTypeOK
<1>1. Page!PageInit => PageInv /\ IdInv /\ ShownInv
  <2> SUFFICES ASSUME Page!PageInit PROVE PageInv /\ IdInv /\ ShownInv
    OBVIOUS
  <2>1. PageInv
    BY PageInitIsGood
  <2>2. IdInv
    <3>1. \A j \in Jobs : /\ jobStatus[j] # None <=> j \in DOMAIN Existing
                          /\ copyOf[j] = None
      BY NoneApart DEF Page!PageInit
    <3> QED
      BY <3>1, IdAssumption DEF IdInv
  <2>3. ShownInv
    <3>1. /\ clicks = 0 /\ meta = FALSE /\ listFailed = FALSE /\ selected = None
          /\ list = None /\ listing = Page!Sent
      BY DEF Page!PageInit
    <3>2. 0 \in 0 .. MaxClicks
      BY IdAssumption
    <3> QED
      BY <3>1, <3>2 DEF ShownInv
  <2> QED
    BY <2>1, <2>2, <2>3
<1>2. PageInv /\ PageInv' /\ IdInv /\ ShownInv /\ [Page!PageNext]_(Page!pageVars)
        => IdInv' /\ ShownInv'
  <2> SUFFICES ASSUME PageInv, PageInv', IdInv, ShownInv, [Page!PageNext]_(Page!pageVars)
               PROVE  IdInv' /\ ShownInv'
    OBVIOUS
  <2>1. CASE Page!PageNext
    BY <2>1, IdsAreInOrder, ShownKeepsTypes DEF PageInv
  <2>2. CASE UNCHANGED Page!pageVars
    <3>1. UNCHANGED <<jobStatus, copyOf, meta, listFailed, clicks, selected, list, listing>>
      BY <2>2 DEF Page!pageVars, Page!serverVars, Page!formVars, Page!listVars,
         Page!mutationVars
    <3> QED
      BY <3>1 DEF IdInv, ShownInv
  <2> QED
    BY <2>1, <2>2
<1>3. PageInv /\ IdInv /\ ShownInv => Page!PageTypeOK
  <2> SUFFICES ASSUME PageInv, IdInv, ShownInv PROVE Page!PageTypeOK
    OBVIOUS
  <2>1. /\ form \in Page!Forms /\ config \in [Jobs -> Page!Forms]
        /\ jobStatus \in [Jobs -> Page!Statuses \cup {"REMOVED"}]
        /\ origin \in Jobs \cup {None}
    BY FullFormsAreForms DEF PageInv, FormInv, Created, Page!Statuses
  <2>2. submit # None => /\ submit.input \in Page!Forms
                         /\ {submit.origin, submit.id} \subseteq Jobs \cup {None}
    BY FullFormsAreForms DEF PageInv, CopyInv
  <2>3. \A j \in Jobs : copyOf[j] # None => copyOf[j] \in Jobs /\ copyOf[j] < j
    BY DEF PageInv, CopyInv, IdInv
  <2>4. /\ told \in [Jobs -> {None, "created", "removed"}]
        /\ deletes \subseteq [id : Jobs, done : BOOLEAN]
    BY DEF PageInv, ListInv, ToldInv, DeletesInv
  <2>5. /\ cache \in [Jobs -> Page!Statuses]
        /\ gets \subseteq [id : Jobs, status : Page!Statuses]
        /\ \A g, h \in gets : g.id = h.id => g = h
    BY DEF PageInv, GetsInv
  <2> QED
    BY <2>1, <2>2, <2>3, <2>4, <2>5 DEF ShownInv, Page!PageTypeOK
<1> QED
  BY <1>1, <1>2, <1>3, PageInvStays, PageRuns, PTL DEF Page!PageSpec

----------------------------------------------------------------------------
(* The types of what a job computes from.                                  *)

\* What the fetch of a job and the job that is done are made of.
FetchStates ==
    [at : {"cache", "page", "kept"}, config : Samples!Config, part : Samples!Parts,
     since : Int, pages : 0..MaxPages, got : SUBSET Samples!Times, asOf : Samples!Times,
     first : Samples!Times, inside : SUBSET Samples!Times,
     score : Samples!Scores \cup {None}]
DoneStates ==
    [at : {"rerun", "completed"}, config : Samples!Config, asOf : Samples!Times,
     inside : SUBSET Samples!Times, outside : SUBSET Samples!Times,
     score : Samples!Scores \cup {None}, reruns : Samples!Orders]

\* A job is one or the other, or idle.
LEMMA JobStatesAre == Samples!JobStates = {Samples!IdleJob} \cup FetchStates \cup DoneStates
BY DEF Samples!JobStates, FetchStates, DoneStates

\* A job that goes on keeps the types of the others.
LEMMA GotoKeepsTypes ==
  ASSUME Samples!SamplesTypeOK, NEW j \in SampleJobs, NEW state \in Samples!JobStates,
         Samples!JobGoto(j, state), UNCHANGED now,
         \A r \in DOMAIN klines' : /\ r \in Samples!Ranges
                                   /\ (klines'[r]).got \subseteq Samples!Times
                                   /\ (klines'[r]).asOf \in Samples!Times
  PROVE  Samples!SamplesTypeOK'
<1>1. job' \in [SampleJobs -> Samples!JobStates]
  BY DEF Samples!JobGoto, Samples!SamplesTypeOK
<1>2. now' \in Samples!Times
  BY DEF Samples!SamplesTypeOK
<1>3. /\ Samples!Times' = Samples!Times /\ Samples!Ranges' = Samples!Ranges
      /\ Samples!JobStates' = Samples!JobStates
  OBVIOUS
<1> QED
  BY <1>1, <1>2, <1>3 DEF Samples!SamplesTypeOK

\* The range of a configuration, and of each of its windows.
LEMMA RangesAre ==
  ASSUME NEW c \in Samples!Config, SoundConfig(c), NEW w \in Samples!Parts,
         w # "whole" => c.split # None
  PROVE  LET r == Samples!FetchRange(c, w) IN
         r \in Samples!Ranges /\ Samples!InRange(r) \subseteq Samples!Times
<1>1. /\ c.range \in Samples!Times \X Samples!Times /\ c.range[1] < c.range[2]
      /\ c.split \in Samples!Times \cup {None}
  BY DEF Samples!Config, Samples!Ranges
<1>2. /\ c.range[1] = Start
      /\ c.split # None => Start < c.split /\ c.split < c.range[2]
  BY DEF SoundConfig
<1>3. CASE w = "whole"
  BY <1>1, <1>3 DEF Samples!FetchRange, Samples!Ranges, Samples!InRange
<1>4. CASE w = "in"
  BY <1>1, <1>2, <1>4 DEF Samples!FetchRange, Samples!Ranges, Samples!InRange
<1>5. CASE w = "out"
  BY <1>1, <1>2, <1>5 DEF Samples!FetchRange, Samples!Ranges, Samples!InRange
<1> QED
  BY <1>3, <1>4, <1>5 DEF Samples!Parts

\* A job that begins has what it was asked for.
LEMMA BeginHasTypes ==
  ASSUME SamplesInv, Samples!SamplesTypeOK,
         NEW j \in SampleJobs, NEW end \in Ends, NEW split \in Splits, NEW grid \in Grids,
         Samples!Begin(j, [range |-> <<Start, end>>, split |-> split, grid |-> grid])
  PROVE  Samples!SamplesTypeOK'
<1> DEFINE c == [range |-> <<Start, end>>, split |-> split, grid |-> grid]
           p == IF c.grid # None /\ c.split # None THEN "in" ELSE "whole"
           s == Samples!Fetch(c, p, now, {}, None)
<1>1. Start \in Int /\ end \in Int /\ Start < end /\ end <= Horizon /\ Horizon \in Int
  BY SamplesAssumption, RangeAssumption
<1>2. Start \in Samples!Times /\ end \in Samples!Times
  BY <1>1 DEF Samples!Times
<1>3. <<Start, end>> \in Samples!Ranges
  BY <1>1, <1>2 DEF Samples!Ranges
<1>4. split \in Samples!Times \cup {None}
  <2>1. split # None => Start < split /\ split < end /\ split \in Int
    BY SamplesAssumption DEF Samples!Begin
  <2> QED
    BY <1>1, <2>1 DEF Samples!Times
<1>5. grid \in Samples!Combinations \cup {None}
  BY DEF Samples!Begin, Samples!GridSizes
<1>6. c \in Samples!Config
  BY <1>3, <1>4, <1>5 DEF Samples!Config
<1>7. p \in Samples!Parts
  BY DEF Samples!Parts
<1>8. Samples!JobGoto(j, s) /\ UNCHANGED <<now, klines>>
  BY DEF Samples!Begin
<1> HIDE DEF c, p
<1>9. s \in Samples!JobStates
  <2>1. 0 \in 0..MaxPages
    BY SamplesAssumption
  <2>2. s \in FetchStates
    BY <1>6, <1>7, <2>1 DEF Samples!Fetch, FetchStates, Samples!SamplesTypeOK
  <2> QED
    BY <2>2, JobStatesAre
<1> HIDE DEF s
<1> QED
  BY <1>8, <1>9, GotoKeepsTypes DEF Samples!SamplesTypeOK

\* A job at a fetch is typed as one.
LEMMA FetchIsTyped ==
  ASSUME SamplesInv, Samples!SamplesTypeOK, NEW j \in SampleJobs,
         job[j].at \in {"cache", "page", "kept"}
  PROVE  /\ job[j] \in FetchStates
         /\ LET r == Samples!FetchRange(job[j].config, job[j].part) IN
            r \in Samples!Ranges /\ Samples!InRange(r) \subseteq Samples!Times
<1>1. job[j] \in Samples!JobStates
  BY DEF Samples!SamplesTypeOK
<1>2. job[j] \in FetchStates
  BY <1>1, JobStatesAre DEF Samples!IdleJob, DoneStates
<1>3. /\ job[j].config \in Samples!Config /\ job[j].part \in Samples!Parts
      /\ SoundConfig(job[j].config)
      /\ job[j].part # "whole" => job[j].config.split # None
  BY <1>2, AtFetch DEF FetchStates, Fetching
<1> QED
  BY <1>2, <1>3, RangesAre

\* What Redis has, and what is asked of the exchange, has its types.
LEMMA ReadCacheHasTypes ==
  ASSUME SamplesInv, Samples!SamplesTypeOK, NEW j \in SampleJobs, Samples!ReadCache(j)
  PROVE  Samples!SamplesTypeOK'
<1> DEFINE s == job[j]
           r == Samples!FetchRange(s.config, s.part)
           hit == [s EXCEPT !.at = "kept", !.got = klines[r].got, !.asOf = klines[r].asOf]
           read == [s EXCEPT !.at = "page", !.since = r[1], !.asOf = now]
<1>1. s \in FetchStates /\ r \in Samples!Ranges
  BY FetchIsTyped DEF Samples!ReadCache
<1>2. UNCHANGED <<now, klines>>
  BY DEF Samples!ReadCache
<1>3. \/ r \in DOMAIN klines /\ Samples!JobGoto(j, hit)
      \/ Samples!JobGoto(j, read)
  BY DEF Samples!ReadCache
<1> HIDE DEF s, r
<1>4. r \in DOMAIN klines => hit \in FetchStates
  BY <1>1 DEF FetchStates, Samples!SamplesTypeOK
<1>5. read \in FetchStates
  <2>1. r[1] \in Int
    BY <1>1, SamplesAssumption DEF Samples!Ranges, Samples!Times
  <2> QED
    BY <1>1, <2>1 DEF FetchStates, Samples!SamplesTypeOK
<1> HIDE DEF hit, read
<1> QED
  BY <1>2, <1>3, <1>4, <1>5, JobStatesAre, GotoKeepsTypes DEF Samples!SamplesTypeOK

\* A page that is read adds moments, and so does what Redis then keeps.
LEMMA ReadPageHasTypes ==
  ASSUME SamplesInv, Samples!SamplesTypeOK, NEW j \in SampleJobs, Samples!ReadPage(j)
  PROVE  Samples!SamplesTypeOK'
<1> DEFINE s == job[j]
           r == Samples!FetchRange(s.config, s.part)
           page == Samples!Page(s.since)
           next == IF page = {} THEN s.since ELSE Samples!After(page)
           more == /\ Samples!Cardinality(page) = Limit
                   /\ next > s.since /\ next < r[2]
                   /\ s.pages + 1 < MaxPages
           got == s.got \cup (page \cap Samples!InRange(r))
           state == [s EXCEPT !.at = IF more THEN "page" ELSE "kept",
                        !.since = next, !.pages = s.pages + 1, !.got = got]
<1>1. /\ s \in FetchStates /\ r \in Samples!Ranges /\ Samples!InRange(r) \subseteq Samples!Times
      /\ Reading(s, r, now) /\ now \in Int
  BY FetchIsTyped, AtFetch DEF Samples!ReadPage, SamplesInv, Fetching
<1>2. UNCHANGED now /\ Samples!JobGoto(j, state)
      /\ (klines' = klines \/ Samples!Keep(r, got, s.asOf))
  BY DEF Samples!ReadPage
<1>3. s.since \in Int /\ (page # {} => Samples!After(page) \in Int)
  BY <1>1, PageReads DEF Reading
<1>4. s.pages + 1 \in 0..MaxPages
  BY <1>1, SamplesAssumption DEF Reading
<1> HIDE DEF s, r, page
<1>5. next \in Int /\ got \in SUBSET Samples!Times
  BY <1>1, <1>3 DEF FetchStates
<1> HIDE DEF next, more, got
<1>6. state \in FetchStates
  BY <1>1, <1>4, <1>5 DEF FetchStates
<1>7. s.asOf \in Samples!Times
  BY <1>1 DEF FetchStates
<1>8. \A k \in DOMAIN klines' : /\ k \in Samples!Ranges
                                /\ (klines'[k]).got \subseteq Samples!Times
                                /\ (klines'[k]).asOf \in Samples!Times
  <2>1. CASE klines' = klines
    BY <2>1 DEF Samples!SamplesTypeOK
  <2>2. CASE Samples!Keep(r, got, s.asOf)
    BY <1>1, <1>5, <1>7, <2>2 DEF Samples!Keep, Samples!SamplesTypeOK
  <2> QED
    BY <1>2, <2>1, <2>2
<1> HIDE DEF state
<1> QED
  BY <1>2, <1>6, <1>8, JobStatesAre, GotoKeepsTypes

\* What is done has its types, with the windows it was given.
LEMMA DoneIsTyped ==
  ASSUME NEW c \in Samples!Config, NEW asOf \in Samples!Times,
         NEW inside \in SUBSET Samples!Times, NEW outside \in SUBSET Samples!Times,
         NEW score \in Samples!Scores \cup {None}, NEW at \in {"rerun", "completed"}
  PROVE  Samples!Done(c, asOf, inside, outside, score, at) \in DoneStates
<1>1. <<>> \in Samples!Orders
  <2>1. 0 \in 0..MaxCombinations /\ <<>> \in [1..0 -> Samples!Combinations]
    BY SamplesAssumption
  <2> QED
    BY <2>1 DEF Samples!Orders
<1> QED
  BY <1>1 DEF Samples!Done, DoneStates

\* A single run has windows of the moments it read.
LEMMA RunSingleHasTypes ==
  ASSUME SamplesInv, Samples!SamplesTypeOK, NEW j \in SampleJobs, Samples!RunSingle(j)
  PROVE  Samples!SamplesTypeOK'
<1> DEFINE s == job[j]
           split == s.config.split
           all == Samples!Done(s.config, s.asOf, s.got, {}, None, "completed")
           cut == Samples!Done(s.config, s.asOf, Samples!InSample(s.got, split),
                      Samples!OutSample(s.got, split, s.config.range[2]), None, "completed")
<1>1. s \in FetchStates
  BY FetchIsTyped DEF Samples!RunSingle
<1>2. UNCHANGED <<now, klines>> /\ Samples!JobGoto(j, IF split = None THEN all ELSE cut)
  BY DEF Samples!RunSingle
<1> HIDE DEF s
<1>3. /\ s.config \in Samples!Config /\ s.asOf \in Samples!Times
      /\ s.got \in SUBSET Samples!Times
      /\ Samples!InSample(s.got, split) \in SUBSET Samples!Times
      /\ Samples!OutSample(s.got, split, s.config.range[2]) \in SUBSET Samples!Times
  BY <1>1 DEF FetchStates, Samples!InSample, Samples!OutSample
<1>4. all \in DoneStates /\ cut \in DoneStates
  <2>1. {} \in SUBSET Samples!Times /\ None \in Samples!Scores \cup {None}
    OBVIOUS
  <2> QED
    BY <1>3, <2>1, DoneIsTyped
<1> HIDE DEF all, cut, split
<1> QED
  BY <1>2, <1>4, JobStatesAre, GotoKeepsTypes DEF Samples!SamplesTypeOK

\* A grid has a score for each of its combinations.
LEMMA RunGridHasTypes ==
  ASSUME SamplesInv, Samples!SamplesTypeOK, NEW j \in SampleJobs, Samples!RunGrid(j)
  PROVE  Samples!SamplesTypeOK'
<1> DEFINE s == job[j]
<1>1. s \in FetchStates /\ s.config.grid # None
  BY FetchIsTyped DEF Samples!RunGrid
<1>2. UNCHANGED <<now, klines>>
  BY DEF Samples!RunGrid
<1>3. PICK score \in [1..s.config.grid -> 0..MaxScore] :
         Samples!JobGoto(j, IF s.config.split = None
            THEN Samples!Done(s.config, s.asOf, s.got, {}, score, "completed")
            ELSE Samples!Fetch(s.config, "out", s.asOf, s.got, score))
  BY DEF Samples!RunGrid
<1> HIDE DEF s
<1> DEFINE all == Samples!Done(s.config, s.asOf, s.got, {}, score, "completed")
           out == Samples!Fetch(s.config, "out", s.asOf, s.got, score)
<1>4. /\ s.config \in Samples!Config /\ s.asOf \in Samples!Times
      /\ s.got \in SUBSET Samples!Times
  BY <1>1 DEF FetchStates
<1>5. score \in Samples!Scores
  <2>1. s.config.grid \in Samples!Combinations
    BY <1>1, <1>4 DEF Samples!Config
  <2> QED
    BY <1>3, <2>1 DEF Samples!Scores
<1>6. all \in DoneStates
  <2>1. {} \in SUBSET Samples!Times
    OBVIOUS
  <2> QED
    BY <1>4, <1>5, <2>1, DoneIsTyped
<1>7. out \in FetchStates
  <2>1. 0 \in 0..MaxPages /\ "out" \in Samples!Parts /\ now \in Samples!Times
    BY SamplesAssumption DEF Samples!Parts, Samples!SamplesTypeOK
  <2> QED
    BY <1>4, <1>5, <2>1 DEF Samples!Fetch, FetchStates
<1> HIDE DEF all, out
<1> QED
  BY <1>2, <1>3, <1>6, <1>7, JobStatesAre, GotoKeepsTypes DEF Samples!SamplesTypeOK, all, out

\* The reruns begin with the windows of both fetches.
LEMMA RerunStartHasTypes ==
  ASSUME SamplesInv, Samples!SamplesTypeOK, NEW j \in SampleJobs, Samples!RerunStart(j)
  PROVE  Samples!SamplesTypeOK'
<1> DEFINE s == job[j]
           m == Samples!Min({s.asOf, s.first})
           new == Samples!Done(s.config, m, s.inside,
                      Samples!OutSample(s.got, s.config.split, s.config.range[2]),
                      s.score, "rerun")
<1>1. s \in FetchStates
  BY FetchIsTyped DEF Samples!RerunStart
<1>2. UNCHANGED <<now, klines>> /\ Samples!JobGoto(j, new)
  BY DEF Samples!RerunStart
<1> HIDE DEF s
<1>3. m \in Samples!Times
  <2>1. s.asOf \in Samples!Times /\ s.first \in Samples!Times
    BY <1>1 DEF FetchStates
  <2>2. s.asOf \in Int /\ s.first \in Int
    BY <2>1, SamplesAssumption DEF Samples!Times
  <2> QED
    BY <2>1, <2>2, MinOfTwo
<1> HIDE DEF m
<1>4. /\ s.config \in Samples!Config /\ s.inside \in SUBSET Samples!Times
      /\ s.score \in Samples!Scores \cup {None}
      /\ Samples!OutSample(s.got, s.config.split, s.config.range[2]) \in SUBSET Samples!Times
  BY <1>1 DEF FetchStates, Samples!OutSample
<1>5. new \in DoneStates
  BY <1>3, <1>4, DoneIsTyped
<1> HIDE DEF new
<1> QED
  BY <1>2, <1>5, JobStatesAre, GotoKeepsTypes DEF Samples!SamplesTypeOK

\* The best that are run again are combinations of the grid.
LEMMA RanksAreTyped ==
  ASSUME NEW s, Ranked(s), SoundConfig(s.config), s.config \in Samples!Config,
         s.config.grid # None
  PROVE  s.reruns \in Samples!Orders
<1> DEFINE grid == s.config.grid
<1>1. grid \in Nat /\ grid >= 2 /\ grid \in 1..MaxCombinations
  BY DEF SoundConfig, Samples!Config, Samples!Combinations
<1>2. s.score \in [1..grid -> Nat]
  BY DEF Ranked
<1>3. PICK n \in 0..Samples!Top(grid) : s.reruns = [i \in 1..n |-> Samples!RankBy(s.score)[i]]
  BY DEF Ranked
<1> HIDE DEF grid
<1>4. Samples!Top(grid) \in 1..grid
  <2>1. grid \in Nat /\ grid >= 1
    BY <1>1
  <2> QED
    BY <2>1, TopCounts
<1>5. n \in 0..grid /\ n \in 0..MaxCombinations
  BY <1>1, <1>3, <1>4, SamplesAssumption
<1> DEFINE R == Samples!RankBy(s.score)
<1>6. R \in [1..grid -> 1..grid]
  BY <1>1, <1>2, RanksAreInOrder
<1> HIDE DEF R
<1>7. \A i \in 1..n : R[i] \in Samples!Combinations
  <2>1. \A i \in 1..n : i \in 1..grid
    BY <1>1, <1>5
  <2>2. 1..grid \subseteq Samples!Combinations
    BY <1>1, SamplesAssumption DEF Samples!Combinations
  <2> QED
    BY <1>6, <2>1, <2>2
<1>8. s.reruns \in [1..n -> Samples!Combinations]
  BY <1>3, <1>7 DEF R
<1> QED
  BY <1>5, <1>8 DEF Samples!Orders

\* Every rerun adds one of them.
LEMMA RerunHasTypes ==
  ASSUME SamplesInv, SamplesInv', Samples!SamplesTypeOK, NEW j \in SampleJobs,
         Samples!Rerun(j)
  PROVE  Samples!SamplesTypeOK'
<1> DEFINE s == job[j]
           k == Samples!Cardinality(DOMAIN s.reruns)
           last == k + 1 = Samples!Top(Samples!Cardinality(DOMAIN s.score))
           reruns == [i \in 1..(k + 1) |-> Samples!RankBy(s.score)[i]]
           new == [s EXCEPT !.reruns = reruns, !.at = IF last THEN "completed" ELSE "rerun"]
<1>1. s.at = "rerun" /\ Finishing(s)
  BY AtEnd DEF Samples!Rerun
<1>2. s \in DoneStates
  <2>1. s \in Samples!JobStates
    BY DEF Samples!SamplesTypeOK
  <2> QED
    BY <1>1, <2>1, JobStatesAre DEF Samples!IdleJob, FetchStates
<1>3. UNCHANGED <<now, klines>> /\ Samples!JobGoto(j, new)
  BY DEF Samples!Rerun
<1>4. job'[j] = new
  BY <1>3 DEF Samples!JobGoto, Samples!SamplesTypeOK
<1> HIDE DEF s, k, last, reruns
<1>5. /\ new.at \in {"rerun", "completed"} /\ new.config = s.config
      /\ new.reruns = reruns
  BY <1>2 DEF DoneStates
<1>6. Finishing(job'[j])
  <2>1. SampleGood(job'[j], now')
    BY DEF SamplesInv
  <2> HIDE DEF new
  <2>2. job'[j] # Samples!IdleJob
    BY <1>4, <1>5 DEF Samples!IdleJob
  <2>3. ~Fetching(job'[j], now')
    BY <1>4, <1>5 DEF Fetching
  <2> QED
    BY <2>1, <2>2, <2>3 DEF SampleGood
<1> HIDE DEF new
<1>7. /\ Ranked(new) /\ SoundConfig(new.config) /\ new.config \in Samples!Config
      /\ new.config.grid # None
  <2>1. s.config.split # None /\ s.config.grid # None
    BY <1>1 DEF Finishing
  <2>2. s.config \in Samples!Config
    BY <1>2 DEF DoneStates
  <2>3. Finishing(new)
    BY <1>4, <1>6
  <2> QED
    BY <1>5, <2>1, <2>2, <2>3 DEF Finishing
<1>8. reruns \in Samples!Orders
  BY <1>5, <1>7, RanksAreTyped
<1>9. new \in DoneStates
  BY <1>2, <1>8 DEF DoneStates, new
<1> QED
  BY <1>3, <1>9, JobStatesAre, GotoKeepsTypes DEF Samples!SamplesTypeOK

\* A moment that passes is one before the last.
LEMMA PassesHasTypes ==
  ASSUME SamplesInv, Samples!SamplesTypeOK, Samples!Passes
  PROVE  Samples!SamplesTypeOK'
<1>1. now' \in Samples!Times
  BY SamplesAssumption DEF Samples!Passes, Samples!SamplesTypeOK, Samples!Times
<1>2. \A r \in DOMAIN klines' : r \in DOMAIN klines /\ klines'[r] = klines[r]
  BY DEF Samples!Passes, Samples!Drop
<1>3. job' = job
  BY DEF Samples!Passes
<1> QED
  BY <1>1, <1>2, <1>3 DEF Samples!SamplesTypeOK

\* What a job computes from keeps its types.
LEMMA SampleTypesStay == ComputeSpec => []Samples!SamplesTypeOK
<1>1. ComputeInit => Samples!SamplesTypeOK
  BY DEF ComputeInit, Samples!SamplesInit, Samples!SamplesTypeOK, Samples!JobStates
<1>2. SamplesInv /\ SamplesInv' /\ Samples!SamplesTypeOK
        /\ [Samples!SamplesNext]_(Samples!sampleVars) => Samples!SamplesTypeOK'
  <2> SUFFICES ASSUME SamplesInv, SamplesInv', Samples!SamplesTypeOK,
                      [Samples!SamplesNext]_(Samples!sampleVars)
               PROVE  Samples!SamplesTypeOK'
    OBVIOUS
  <2>1. CASE UNCHANGED Samples!sampleVars
    BY <2>1 DEF Samples!sampleVars, Samples!SamplesTypeOK
  <2>2. CASE Samples!Passes
    BY <2>2, PassesHasTypes
  <2>3. ASSUME NEW j \in SampleJobs, NEW end \in Ends, NEW split \in Splits,
               NEW grid \in Grids,
               Samples!Begin(j, [range |-> <<Start, end>>, split |-> split, grid |-> grid])
        PROVE  Samples!SamplesTypeOK'
    BY <2>3, BeginHasTypes
  <2>4. ASSUME NEW j \in SampleJobs, Samples!JobFails(j) PROVE Samples!SamplesTypeOK'
    <3>1. Samples!IdleJob \in Samples!JobStates
      BY JobStatesAre
    <3> QED
      BY <2>4, <3>1, GotoKeepsTypes DEF Samples!JobFails, Samples!SamplesTypeOK
  <2>5. ASSUME NEW j \in SampleJobs,
               \/ Samples!ReadCache(j) \/ Samples!ReadPage(j)
               \/ Samples!RunSingle(j) \/ Samples!RunGrid(j)
               \/ Samples!RerunStart(j) \/ Samples!Rerun(j)
        PROVE  Samples!SamplesTypeOK'
    BY <2>5, ReadCacheHasTypes, ReadPageHasTypes, RunSingleHasTypes, RunGridHasTypes,
       RerunStartHasTypes, RerunHasTypes
  <2> QED
    BY <2>1, <2>2, <2>3, <2>4, <2>5 DEF Samples!SamplesNext
<1> QED
  BY <1>1, <1>2, SamplesInvStays, SamplesRun, PTL DEF ComputeSpec, Samples!SamplesSpec

\* Whatever a backtest does, its legs are of bars it has read and its sums are
\* whole, its fetches, windows and ranks are what they should be, and the page
\* asks one question about a job at a time.
THEOREM ComputeTypesStay == ComputeSpec => []ComputeTypeOK
<1>1. FairInv /\ BookInv /\ CurveInv /\ ShapeInv => TypeOK
  BY TypesFollow
<1> QED
  BY <1>1, ReplayRuns, FairInvStays, BooksStayBalanced, CurveStays, ShapesStay,
     SampleTypesStay, PageTypesStay, PTL DEF ComputeTypeOK

============================================================================
