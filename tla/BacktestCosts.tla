---------------------------- MODULE BacktestCosts ----------------------------
(***************************************************************************)
(* One replay with fees and slippage, the inherited one, and one without,  *)
(* of the same candles and parameters: the comparison docs/backtest.md     *)
(* asks a user to make.  Both read the same bar and go through its phases  *)
(* together; each decides for itself whether it opens a cycle.             *)
(***************************************************************************)
EXTENDS BacktestEngine

\* The costs a job is created with: rates are up to 0.01, and no candidate of a
\* grid takes more than the whole price away.
ASSUME CostAssumption ==
    /\ OpenFeePct \in Nat /\ CloseFeePct \in Nat
    /\ SlipPct \in 0..100 /\ SlipPoints \in Nat
    /\ TakeProfitPct \in Int /\ TakeProfitPct >= -100
    /\ StopLossPct \in Int /\ StopLossPct >= -100
    /\ Amount \in Int

VARIABLES open0, trades0, fees0, gross0, net0, curve0   \* without costs

both == <<vars, open0, trades0, fees0, gross0, net0, curve0>>

Free == INSTANCE BacktestEngine WITH
    open <- open0, trades <- trades0, fees <- fees0, gross <- gross0,
    net <- net0, curve <- curve0,
    OpenFeePct <- 0, CloseFeePct <- 0, SlipPct <- 0, SlipPoints <- 0

BothInit == Init /\ Free!Init

CycleInBoth ==
    /\ OpenCycle \/ SkipCycle
    /\ Free!OpenCycle \/ Free!SkipCycle

BothNext ==
    \/ \E b \in Candles : ReadBar(b) /\ Free!ReadBar(b)
    \/ Exits /\ Free!Exits
    \/ CycleInBoth
    \/ Sample /\ Free!Sample
    \/ CloseRest /\ Free!CloseRest
    \/ NoBars /\ Free!NoBars
    \/ Finish /\ Free!Finish

BothSpec == BothInit /\ [][BothNext]_both

\* docs/backtest.md: costs only take away from a result.  It holds for each leg
\* both replays open, not for the total: a cycle the costs leave no money for
\* may be one that would have lost more.
CostsNeverHelp ==
    \A t \in trades, u \in trades0 :
        Key(t.leg) = Key(u.leg) => NetPnl(t) <= Free!NetPnl(u)

\* Costs change no exit: a leg both replays open is open in both, or was closed
\* in both in the same bar for the same reason.
SameExits ==
    /\ \A t \in trades, u \in trades0 : Key(t.leg) = Key(u.leg) =>
          /\ t.time = u.time /\ t.reason = u.reason
          /\ t.leg.qty = u.leg.qty
    /\ \A p \in open, u \in trades0 : Key(p) # Key(u.leg)
    /\ \A p \in open0, t \in trades : Key(p) # Key(t.leg)

\* All that fees and slippage do to a leg is to take away from its result.
CostsOnlyCost == CostsNeverHelp /\ SameExits

============================================================================
