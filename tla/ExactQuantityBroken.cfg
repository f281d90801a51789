SPECIFICATION Spec
CONSTANTS
    Positions <- MCPositions2
    MaxGen = 1
    Bands = {1, 2}
    Openers = {}
    Closers = {user, closeAll}
    Replenishers = {}
    Syncers = {}
    CronSyncers = {}
    MaxRuns = 1
    Protected = {1, 2}
    MarkBands <- DistinctBands
    LocalAutoClose = FALSE
    Faults = {}
    Strategies = {"s1"}
    StrategyOf <- OneStrategy
INVARIANT ExactQuantity
