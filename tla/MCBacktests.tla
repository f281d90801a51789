----------------------------- MODULE MCBacktests -----------------------------
(***************************************************************************)
(* The parts of a backtest, for TLC.                                       *)
(***************************************************************************)
EXTENDS Backtests

\* Candles around 100: quiet, past one price, past both, rising, falling, and
\* one that a quantity by notional rounds to zero.
Candle(o, h, l, c) == [open |-> o, high |-> h, low |-> l, close |-> c]
Mixed ==
    {Candle(100, 100, 100, 100), Candle(100, 110, 90, 100),
     Candle(100, 120, 80, 100), Candle(100, 120, 100, 120),
     Candle(120, 120, 100, 100), Candle(100, 100, 80, 90),
     Candle(2000, 2000, 2000, 2000)}

\* The hypothesis of the theorem on MarginCovered.
ASSUME BufferAssumption == Buffered

\* A grid without lists and costs of its own is there.
MCExisting == <<[type |-> "GRID", start |-> 0, costs |-> None, tp |-> None, lev |-> None]>>
MCForm0 == [type |-> "SINGLE", start |-> 0, costs |-> 1, tp |-> 1, lev |-> None]
MCEdits == {[type |-> "GRID", start |-> 0, costs |-> 2, tp |-> 2, lev |-> 1]}

============================================================================
