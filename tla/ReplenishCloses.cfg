SPECIFICATION Spec
CONSTANTS
    Positions <- MCPositions2
    MaxGen = 2
    Bands = {1, 2}
    Openers = {}
    Closers = {user}
    Replenishers = {replenish}
    Syncers = {}
    CronSyncers = {}
    MaxRuns = 1
    Protected = {1, 2}
    MarkBands <- DistinctBands
    LocalAutoClose = FALSE
    Faults = {"immediate", "book"}
    Strategies = {"s1"}
    StrategyOf <- OneStrategy
INVARIANT StaysGuarded
PROPERTY ClosedIsFinal
