SPECIFICATION ServicesSpec
CONSTANTS
    All = All
    None = None
    Configs = {"b1", "l1", "l2"}
    ExchangeOf <- MCExchangeOf
    EnvOf <- MCEnvOf
    DefaultEnv = "LIVE"
    SubAccounts = {1, 2}
    NoAccount = 0
    Strategies = {"s"}
    Callers = {k1, k2}
    Admins = {a1}
    Table0 <- MCTable
    Bound0 <- MCBound
    Updates <- MCUpdates
    Bindings <- MCBindings
    NoConfig = "none"
    MaxEdits = 2
    OrphanPositions = {1, 2, 3}
    OrphanStrategies = {1, 2}
    OrphanStrategyOf <- MCOrphanStrategyOf
    OrphanSideOf <- MCOrphanSideOf
    LongOf <- MCLongOf
    ShortOf <- MCShortOf
    LighterAccounts = {1, 2}
    ActiveStrategies = {1, 2}
    OrphanGuarded = {1}
    Left <- MCLeft
    Stale = {1}
    BandOf <- MCBandOf
    Placers = {"t1"}
    MaxPending = 2
    Symbols = {"btc"}
    Browsers = {"b1", "b2"}
    Askers = {"k1"}
    OpenSymbols = {"btc"}
    CacheMaxAge = 1
    RedisTtl = 2
    MaxLag = 1
    Rounds = {"r1", "r2"}
    Reconciled = {"L"}
    Watchdog = 2
    Pause = 2
    RefreshEvery = 1
    PartialFaults = TRUE
    Openings = {1, 3}
    MarketOf <- MCMarketOf
    ModeOf <- MCModeOf
    LeverageOf <- MCLeverageOf
    Markets = {"A", "B"}
    DefaultMode = "CROSSED"
    DefaultLeverage = 10
    CacheLife = 2
    MaxLoad = 1
    Orders = {1, 2}
    Conditionals = {1}
    Positions = {1, 2}
    Directions = {"LONG"}
    StrategyOf <- MCStrategyOf
    SideOf <- MCSideOf
    Existing = {1}
    Scopes = {All}
    Closers = {1}
    Repairers = {2}
    Auditors = {1}
INVARIANTS ServicesTypeOK AdaptersAreCurrent   PricesAreFresh RoundsGoOn   OrdersAreSeen BatchesAreTrue
CHECK_DEADLOCK FALSE
