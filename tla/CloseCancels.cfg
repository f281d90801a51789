SPECIFICATION Spec
CONSTANTS
    Positions <- MCPositions2
    MaxGen = 1
    Bands = {1, 2}
    Openers = {}
    Closers = {user}
    Replenishers = {}
    Syncers = {cron}
    CronSyncers = {cron}
    MaxRuns = 1
    Protected = {1, 2}
    MarkBands <- DistinctBands
    LocalAutoClose = TRUE
    Faults = {"close", "contracts", "book"}
    Strategies = {"s1"}
    StrategyOf <- OneStrategy
INVARIANTS NoResidue StaysGuarded
PROPERTY KeepsLedger
