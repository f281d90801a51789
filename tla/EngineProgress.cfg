SPECIFICATION FairSpec
CONSTANTS
    Strategies = {s1}
    Groups = {g1}
    Slots = {c1}
    Requests = {admin}
    Kinds = {"create", "update", "status", "remove", "stop", "params", "reset"}
    OwnLimit <- OwnLimit1
    ActiveFirst = {s1}
    MaxRuns = 2
    MaxRestarts = 1
    CanFail = TRUE
    Limits = {1, 2}
    FirstLimit = 1
    MaxLosses = 1
    EarlyRequests = FALSE
INVARIANT ActiveIsScheduled
PROPERTIES OpeningEnds KeepsTrading
