SPECIFICATION FairSpec
CONSTANTS
    Positions <- MCPositions2
    MaxGen = 1
    Bands = {1, 2}
    Openers = {opener}
    Closers = {}
    Replenishers = {}
    Syncers = {cron}
    CronSyncers = {cron}
    MaxRuns = 1
    Protected = {1}
    MarkBands <- DistinctBands
    LocalAutoClose = FALSE
    Faults = {"fillPrice", "otherLeg", "place", "cancel"}
    Strategies = {"s1"}
    StrategyOf <- OneStrategy
INVARIANTS TypeOK FilledIsSettled
PROPERTIES TriggerIsSettled KeepsLedger
