SPECIFICATION Spec
CONSTANTS
    Positions <- MCPositions2
    MaxGen = 2
    Bands = {1, 2}
    Openers = {}
    Closers = {}
    Replenishers = {replenish}
    Syncers = {cron}
    CronSyncers = {cron}
    MaxRuns = 1
    Protected = {1, 2}
    MarkBands <- DistinctBands
    LocalAutoClose = FALSE
    Faults = {}
    Strategies = {"s1"}
    StrategyOf <- OneStrategy
INVARIANT StaysGuarded
