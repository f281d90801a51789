-------------------------- MODULE MCStrategyEngine --------------------------
(* Instances of StrategyEngine for TLC.                                      *)
EXTENDS StrategyEngine, TLC

OwnLimit1 == [s \in Strategies |-> 1]
OwnLimit2 == [s \in Strategies |-> 2]

\* Groups only tell positions of different cycles apart.
GroupSymmetry == Permutations(Groups)

============================================================================
