---------------------------- MODULE MCBacktestJobs ----------------------------
(* Instances of BacktestJobs for TLC.                                        *)
EXTENDS BacktestJobs

\* The shape with one batch of results, and the one with several.
TwoShapes == {"single", "gridSplit"}

============================================================================
