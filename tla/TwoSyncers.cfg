SPECIFICATION Spec
CONSTANTS
    Positions <- MCPositions2
    MaxGen = 1
    Bands = {1, 2}
    Openers = {}
    Closers = {}
    Replenishers = {}
    Syncers = {cron, manual}
    CronSyncers = {cron}
    MaxRuns = 1
    Protected = {1, 2}
    MarkBands <- DistinctBands
    LocalAutoClose = FALSE
    Faults = {}
    Strategies = {"s1", "s2"}
    StrategyOf <- TwoStrategies
INVARIANTS HitOnlyIfTriggered
