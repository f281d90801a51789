SPECIFICATION ComputeSpec
\* BacktestSamples: the second of seven candles is missing; a page has two.
\* BacktestPage: the browser is an hour ahead.
CONSTANTS
    Candles <- Mixed
    MaxBars = 5
    Amount = 1000
    ByNotional = TRUE
    Leverage = 2
    TakeProfitPct = 20
    StopLossPct = 10
    MaxPositions = 2
    Balance = 2300
    OpenFeePct = 1
    CloseFeePct = 1
    SlipPct = 1
    SlipPoints = 3
    MaxPoints = 4
    None = None
    SampleJobs = {1}
    Start = 1
    Ends = {7}
    Splits = {3, None}
    Grids = {None, 3}
    Horizon = 7
    Limit = 2
    MaxPages = 3
    MaxKlines = 8
    MaxCombinations = 3
    TopN = 2
    CacheLife = 2
    MaxScore = 1
    Missing = {2}
    Jobs = {1, 2}
    Existing <- MCExisting
    Form0 <- MCForm0
    Edits <- MCEdits
    DefaultCosts = 1
    Zone = 1
    MaxClicks = 3
INVARIANTS ComputeTypeOK CycleLimit LegsAccounted ExitsAtFirstTouch   SamplesAreFair 
CHECK_DEADLOCK FALSE
