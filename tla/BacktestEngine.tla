--------------------------- MODULE BacktestEngine ---------------------------
(***************************************************************************)
(* BacktestEngineService.run: a replay of candles in memory.  One bar is   *)
(* three steps: exits of the open positions, a new cycle if the gates      *)
(* allow it (with the exits of the opening bar), and a sample of equity.   *)
(* After the last bar everything left is closed (EOD).                     *)
(*                                                                         *)
(* The time of a bar is its index: KlineFetcherService sorts the candles   *)
(* by distinct timestamps.  Prices, money and quantity are whole numbers   *)
(* of their smallest unit; the order of trades inside one bar is left out. *)
(***************************************************************************)
EXTENDS Integers, Sequences, FiniteSets, FiniteSetsExt, SequencesExt

CONSTANTS
    Candles,       \* the candles a bar is drawn from
    MaxBars,       \* bound: bars of one run
    Amount, ByNotional,  \* params.quantity and quantityType
    Leverage, TakeProfitPct, StopLossPct, MaxPositions,
    Balance,
    OpenFeePct, CloseFeePct, SlipPct, SlipPoints,  \* 0 where disabled
    MaxPoints      \* MAX_EQUITY_CURVE_POINTS

ASSUME CandleAssumption ==
    Candles \subseteq [open : Nat, high : Nat, low : Nat, close : Nat]
ASSUME LimitAssumption == MaxBars \in Nat /\ MaxPositions \in Nat \ {0}
\* The DTO asks for a leverage from 1 to 125, and the engine takes 1 for any
\* other; MAX_EQUITY_CURVE_POINTS is 2000.
ASSUME AccountAssumption ==
    /\ Balance \in Int /\ Leverage \in Nat \ {0}
    /\ MaxPoints \in Nat /\ MaxPoints >= 2

VARIABLES
    bars,    \* the candles read so far
    open,    \* openPositions
    trades,
    fees,    \* cumulativeFees
    gross,   \* realizedGross
    net,     \* realizedNet
    curve,   \* rawCurve, in the end equityCurve
    pc

vars == <<bars, open, trades, fees, gross, net, curve, pc>>

Sides == {"LONG", "SHORT"}
Key(p) == <<p.cycle, p.side>>
Legs == [cycle : 1..MaxBars, side : Sides, qty : Nat, price : Nat, fill : Int]
Now == Len(bars)
Bar == bars[Now]

Init ==
    /\ bars = <<>> /\ open = {} /\ trades = {}
    /\ fees = 0 /\ gross = 0 /\ net = 0
    /\ curve = <<>> /\ pc = "bar"

Percent(rate, x) == (x * rate) \div 100
Gain(side, from, to) == IF side = "LONG" THEN to - from ELSE from - to

\* Mutant: the slippage of a close has the sign of the slippage of an open.
FillPrice_OneSign(price, side, action) ==
    IF price <= 0 THEN price
    ELSE IF side = "LONG"
         THEN price + Percent(SlipPct, price) + SlipPoints
         ELSE price - Percent(SlipPct, price) - SlipPoints

\* Mutant: buyer and seller are swapped.
FillPrice_Swapped(price, side, action) ==
    IF (action = "OPEN") = (side = "LONG")
    THEN price - Percent(SlipPct, price)
    ELSE price + Percent(SlipPct, price) + SlipPoints

\* applySlippage: the fill is worse than the assumed price.
FillPrice(price, side, action) ==
    LET buys == (action = "OPEN") = (side = "LONG")
        worse == price - Percent(SlipPct, price)
    IN CASE price <= 0 -> price
         [] price > 0 /\ buys -> price + Percent(SlipPct, price) + SlipPoints
         [] price > 0 /\ ~buys /\ worse > SlipPoints -> worse - SlipPoints
         [] OTHER -> worse

\* calcQuantity; a quantity of 0 opens nothing.
Quantity(price) ==
    IF ~ByNotional THEN Amount
    ELSE IF price <= 0 THEN 0 ELSE Amount \div price

SideNotional(price) == IF ByNotional THEN Amount ELSE Amount * price

\* Mutant: the cycle is that of the bar before.
NewLeg_BarBefore(side) ==
    [cycle |-> Now - 1, side |-> side, qty |-> Quantity(Bar.open),
     price |-> Bar.open, fill |-> FillPrice(Bar.open, side, "OPEN")]

NewLeg(side) ==
    [cycle |-> Now, side |-> side, qty |-> Quantity(Bar.open),
     price |-> Bar.open, fill |-> FillPrice(Bar.open, side, "OPEN")]

OpenFee(p) == Percent(OpenFeePct, p.fill * p.qty)

\* Mutant: the targets are taken from the fill, not from the assumed price.
TakeProfitPrice_FromFill(p) ==
    p.fill + Gain(p.side, 0, Percent(TakeProfitPct, p.fill))

\* openOne: both targets are distances from the assumed price.
TakeProfitPrice(p) ==
    p.price + Gain(p.side, 0, Percent(TakeProfitPct, p.price))
StopLossPrice(p) ==
    p.price - Gain(p.side, 0, Percent(StopLossPct, p.price))

HitSl(p, b) == IF p.side = "LONG" THEN b.low <= StopLossPrice(p)
               ELSE b.high >= StopLossPrice(p)
HitTp(p, b) == IF p.side = "LONG" THEN b.high >= TakeProfitPrice(p)
               ELSE b.low <= TakeProfitPrice(p)
Touched(p, b) == HitSl(p, b) \/ HitTp(p, b)

\* closePosition
Trade(p, reason, price) ==
    [leg |-> p, time |-> Now, reason |-> reason, price |-> price,
     fill |-> FillPrice(price, p.side, "CLOSE")]

SlippageCost(price, fill, qty) ==
    (IF fill > price THEN fill - price ELSE price - fill) * qty

GrossPnl(t) == Gain(t.leg.side, t.leg.fill, t.fill) * t.leg.qty
CloseFee(t) == Percent(CloseFeePct, t.fill * t.leg.qty)
NetPnl(t) == GrossPnl(t) - (OpenFee(t.leg) + CloseFee(t))

\* Mutant: a bar that touches both prices is taken for a take profit.
Exit_Optimist(p) ==
    IF HitTp(p, Bar) THEN Trade(p, "TP", TakeProfitPrice(p))
    ELSE Trade(p, "SL", StopLossPrice(p))

\* A bar that touches both prices stops the loss.
Exit(p) ==
    IF HitSl(p, Bar) THEN Trade(p, "SL", StopLossPrice(p))
    ELSE Trade(p, "TP", TakeProfitPrice(p))

\* Mutant: the fee of the open is booked a second time with the close.
Book_FeeTwice(paid, done) ==
    /\ trades' = trades \cup done
    /\ gross' = gross + MapThenSumSet(GrossPnl, done)
    /\ net' = net + MapThenSumSet(NetPnl, done)
    /\ fees' = fees + paid
                 + MapThenSumSet(LAMBDA t : CloseFee(t) + OpenFee(t.leg), done)

\* The accumulators; the fee of an open is booked with the open.
Book(paid, done) ==
    /\ trades' = trades \cup done
    /\ gross' = gross + MapThenSumSet(GrossPnl, done)
    /\ net' = net + MapThenSumSet(NetPnl, done)
    /\ fees' = fees + paid + MapThenSumSet(CloseFee, done)

Unrealized(ps, mark) ==
    MapThenSumSet(LAMBDA p : Gain(p.side, p.fill, mark) * p.qty, ps)

Equity(ps, mark) == Balance - fees + gross + Unrealized(ps, mark)

Snapshot(ps, mark) ==
    [t |-> Now, equity |-> Equity(ps, mark), realized |-> net,
     fees |-> fees, openCount |-> Cardinality(ps)]

----------------------------------------------------------------------------
\* The next bar: exits of what is open, before anything is opened in it.
ReadBar(b) ==
    /\ pc = "bar" /\ Now < MaxBars
    /\ bars' = Append(bars, b)
    /\ pc' = "exits"
    /\ UNCHANGED <<open, trades, fees, gross, net, curve>>

Exits ==
    /\ pc = "exits"
    /\ LET gone == {p \in open : Touched(p, Bar)} IN
       /\ open' = open \ gone
       /\ Book(0, {Exit(p) : p \in gone})
    /\ pc' = "cycle"
    /\ UNCHANGED <<bars, curve>>

OpenCycles == {p.cycle : p \in open}

\* Mutant: one group more than allowed.
Room_OneMore == Cardinality(OpenCycles) <= MaxPositions
Room == Cardinality(OpenCycles) < MaxPositions

\* Mutant: the margin of the new cycle alone is compared with the equity.
Funded_IgnoresUsed ==
    Equity(open, Bar.open) * Leverage * 10 >= SideNotional(Bar.open) * 2 * 12

\* The equity that is not used as margin covers both legs with a buffer of
\* 1.2; both sides of the comparison are multiplied by 10 * leverage.
Funded ==
    LET used == MapThenSumSet(LAMBDA p : p.qty * p.fill, open)
    IN (Equity(open, Bar.open) * Leverage - used) * 10
         >= SideNotional(Bar.open) * 2 * 12

\* Mutant: the exits of the opening bar are forgotten.
OpenCycle_NoExits ==
    /\ pc = "cycle" /\ Room /\ Quantity(Bar.open) > 0 /\ Funded
    /\ LET new == {NewLeg(side) : side \in Sides} IN
       /\ open' = open \cup new
       /\ Book(MapThenSumSet(OpenFee, new), {})
    /\ pc' = "sample"
    /\ UNCHANGED <<bars, curve>>

\* LONG and SHORT of the same quantity at the open of the bar; high and low of
\* the same bar may close them at once.
OpenCycle ==
    /\ pc = "cycle" /\ Room /\ Quantity(Bar.open) > 0 /\ Funded
    /\ LET new == {NewLeg(side) : side \in Sides}
           gone == {p \in open \cup new : Touched(p, Bar)}
       IN /\ open' = (open \cup new) \ gone
          /\ Book(MapThenSumSet(OpenFee, new), {Exit(p) : p \in gone})
    /\ pc' = "sample"
    /\ UNCHANGED <<bars, curve>>

SkipCycle ==
    /\ pc = "cycle"
    /\ ~Room \/ Quantity(Bar.open) = 0 \/ ~Funded
    /\ pc' = "sample"
    /\ UNCHANGED <<bars, open, trades, fees, gross, net, curve>>

Sample ==
    /\ pc = "sample"
    /\ curve' = Append(curve, Snapshot(open, Bar.close))
    /\ pc' = "bar"
    /\ UNCHANGED <<bars, open, trades, fees, gross, net>>

\* Mutant: what is left in the end is dropped, not closed.
CloseRest_Dropped ==
    /\ pc = "bar" /\ Now > 0
    /\ open' = {}
    /\ Book(0, {})
    /\ pc' = "eod"
    /\ UNCHANGED <<bars, curve>>

\* Without candles the result is empty, see NoBars.
CloseRest ==
    /\ pc = "bar" /\ Now > 0
    /\ open' = {}
    /\ Book(0, {Trade(p, "EOD", Bar.close) : p \in open})
    /\ pc' = "eod"
    /\ UNCHANGED <<bars, curve>>

NoBars ==
    /\ pc = "bar" /\ Now = 0
    /\ pc' = "done"
    /\ UNCHANGED <<bars, open, trades, fees, gross, net, curve>>

\* Mutant: even steps that stop short of the last point.
Picked_Short(points, i) == points[1 + (i * Len(points)) \div (MaxPoints + 1)]

\* downsampleCurve: MaxPoints indices evenly spread (Math.round rounds a half
\* up); a point with the time of the one before it is left out.
Picked(points, i) ==
    LET last == Len(points) - 1
    IN points[1 + IF i = MaxPoints - 1 THEN last
                  ELSE (2 * i * last + MaxPoints - 1) \div (2 * (MaxPoints - 1))]

Downsample(points) ==
    IF Len(points) <= MaxPoints THEN points
    ELSE FoldLeft(LAMBDA kept, p : IF kept # <<>> /\ Last(kept).t = p.t
                                   THEN kept ELSE Append(kept, p),
                  <<>>, [i \in 1..MaxPoints |-> Picked(points, i - 1)])

Finish ==
    /\ pc = "eod"
    /\ curve' = Downsample(Append(curve, Snapshot({}, Bar.close)))
    /\ pc' = "done"
    /\ UNCHANGED <<bars, open, trades, fees, gross, net>>

Next ==
    \/ \E b \in Candles : ReadBar(b)
    \/ Exits \/ OpenCycle \/ SkipCycle \/ Sample \/ CloseRest \/ NoBars \/ Finish

Spec == Init /\ [][Next]_vars

----------------------------------------------------------------------------
TypeOK ==
    /\ bars \in Seq(Candles) /\ Now <= MaxBars
    /\ open \subseteq Legs
    /\ trades \subseteq [leg : Legs, time : 1..MaxBars, price : Int, fill : Int,
                         reason : {"TP", "SL", "EOD"}]
    /\ fees \in Int /\ gross \in Int /\ net \in Int
    /\ \A n \in DOMAIN curve :
          curve[n] \in [t : 1..MaxBars, equity : Int, realized : Int, fees : Int,
                        openCount : Nat]
    /\ pc \in {"bar", "exits", "cycle", "sample", "eod", "done"}

\* At most maxPositions cycles have a leg open, also while one of a pair is
\* closed and new cycles come.
CycleLimit == Cardinality(OpenCycles) <= MaxPositions

Traded(ts) == {t.leg : t \in ts}

\* Open legs ps and trades ts tell of both legs of every cycle, once.
Accounted(ps, ts) ==
    /\ \A p \in ps, q \in Traded(ts) : Key(p) # Key(q)
    /\ \A p, q \in ps : Key(p) = Key(q) => p = q
    /\ \A t, u \in ts : Key(t.leg) = Key(u.leg) => t = u
    /\ \A p \in ps \cup Traded(ts), side \in Sides :
          \E q \in ps \cup Traded(ts) : Key(q) = <<p.cycle, side>>

\* Both legs of a cycle are opened, each is open or has exactly one trade, and
\* in the end none is open: a replay neither loses nor doubles a position.
LegsAccounted ==
    /\ Accounted(open, trades)
    /\ pc \in {"eod", "done"} => open = {}

\* Nothing survives a bar that touches it, from its opening bar on, and a trade
\* is a take profit only if no bar up to it has touched the stop.
ExitsAtFirstTouch ==
    LET seen == IF pc = "exits" THEN Now - 1 ELSE Now IN
    /\ \A p \in open : \A n \in p.cycle..seen : ~Touched(p, bars[n])
    /\ \A t \in trades :
          /\ \A n \in t.leg.cycle..(t.time - 1) : ~Touched(t.leg, bars[n])
          /\ t.reason = "TP" => ~HitSl(t.leg, bars[t.time])
          /\ t.reason = "EOD" => ~Touched(t.leg, bars[t.time])

\* The three accumulators agree: what is realised net of fees is the gross less
\* all fees but those of opens that are not closed yet.  So the equity of the
\* last sample is the balance and the total of the trades.
BooksBalance ==
    /\ net = gross - fees + MapThenSumSet(OpenFee, open)
    /\ net = MapThenSumSet(NetPnl, trades)

\* The gross result and the two slippage costs of a trade add up to its result
\* at the assumed prices: both fills are worse, and no cost is lost or doubled.
CostsExplained ==
    \A t \in trades :
        GrossPnl(t) + SlippageCost(t.leg.price, t.leg.fill, t.leg.qty)
                    + SlippageCost(t.price, t.fill, t.leg.qty)
          = Gain(t.leg.side, t.leg.price, t.price) * t.leg.qty

\* What a new leg takes away in its opening bar b of what Funded has found to be
\* free: its margin and fee and what its fill costs, or its loss if b closes it.
Taken(side, b) ==
    LET p == [side |-> side, qty |-> Quantity(b.open), price |-> b.open,
              fill |-> FillPrice(b.open, side, "OPEN")]
        price == IF HitSl(p, b) THEN StopLossPrice(p) ELSE TakeProfitPrice(p)
        t == [leg |-> p, fill |-> FillPrice(price, side, "CLOSE")]
    IN [stays |-> ~Touched(p, b),
        sum |-> IF Touched(p, b) THEN -(Leverage * NetPnl(t))
                ELSE Leverage * (OpenFee(p) - Gain(side, p.fill, b.open) * p.qty)
                       + p.qty * p.fill]

\* The buffer of 1.2 is enough for the fees and the slippage of a new cycle, and
\* for the loss of one leg that stops in the opening bar while the other stays.
Buffered ==
    \A b \in Candles :
        LET long == Taken("LONG", b)
            short == Taken("SHORT", b)
        IN Quantity(b.open) > 0 /\ (long.stays \/ short.stays) =>
              (long.sum + short.sum) * 10 <= SideNotional(b.open) * 2 * 12

\* The margin of all open legs is covered by the equity whenever a cycle has
\* just been opened.
MarginCovered ==
    pc = "sample" /\ Now \in OpenCycles =>
        Equity(open, Bar.open) * Leverage
          >= MapThenSumSet(LAMBDA p : p.qty * p.fill, open)

\* Thinned out or not, the curve runs in order from the first bar to the last.
\* downsampleCurve drops the final sample when it has just picked the one before
\* it, of the same time; so the curve may end too high, but by no more than what
\* the forced closes cost.
CurveSpansRun ==
    LET cost(t) == SlippageCost(t.price, t.fill, t.leg.qty) + CloseFee(t)
        forced == {t \in trades : t.reason = "EOD"}
    IN pc = "done" /\ Now > 0 =>
        /\ Len(curve) <= MaxPoints /\ curve[1].t = 1 /\ Last(curve).t = Now
        /\ \A n \in 2..Len(curve) : curve[n - 1].t <= curve[n].t
        /\ Last(curve).equity - (Balance + net) \in 0..MapThenSumSet(cost, forced)

\* The money of a replay, whatever order fees, slippage, margin and samples are
\* booked in: the sums agree, costs are all there and only once, no cycle is
\* opened that the equity does not cover, and the curve ends where the sums do.
BooksAreTrue == BooksBalance /\ CostsExplained /\ MarginCovered /\ CurveSpansRun

============================================================================
