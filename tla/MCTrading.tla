----------------------------- MODULE MCTrading -----------------------------
(* Instances of Trading for TLC: two cycle positions of one leg.            *)
EXTENDS Trading

MCPositions2 == {1, 2}
OneStrategy == [p \in Positions |-> "s1"]
TwoStrategies == [p \in Positions |-> IF p = 1 THEN "s1" ELSE "s2"]

\* Every position is priced in a class of its own.
DistinctBands == [p \in Positions |-> {p}]

============================================================================
