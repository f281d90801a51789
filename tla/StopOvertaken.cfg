SPECIFICATION Spec
CONSTANTS
    Strategies = {s1}
    Groups = {g1, g2}
    Slots = {c1}
    Requests = {admin}
    Kinds = {"stop"}
    OwnLimit <- OwnLimit2
    ActiveFirst = {s1}
    MaxRuns = 1
    MaxRestarts = 0
    CanFail = FALSE
    Limits = {2}
    FirstLimit = 2
    MaxLosses = 1
    EarlyRequests = FALSE
INVARIANT FlatAfterStop
