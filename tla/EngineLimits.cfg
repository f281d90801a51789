SPECIFICATION Spec
CONSTANTS
    Strategies = {s1}
    Groups = {g1, g2, g3}
    Slots = {c1, c2}
    Requests = {admin}
    Kinds = {"params", "reset", "stop", "status"}
    OwnLimit <- OwnLimit1
    ActiveFirst = {s1}
    MaxRuns = 2
    MaxRestarts = 0
    CanFail = FALSE
    Limits = {1, 2}
    FirstLimit = 2
    MaxLosses = 1
    EarlyRequests = TRUE
INVARIANTS EngineTypeOK LegLimit
PROPERTY StopIsFinal
SYMMETRY GroupSymmetry
