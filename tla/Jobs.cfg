SPECIFICATION FairSpec
CONSTANTS
    Jobs = {j1, j2}
    Requests = {r1, r2}
    Kinds <- TwoShapes
    TopN = 2
    MaxConcurrent = 1
    MaxRestarts = 2
INVARIANTS TypeOK CountIsTrue ResultsAreWhole UnfinishedIsAlive
PROPERTY JobsEnd
CHECK_DEADLOCK FALSE
