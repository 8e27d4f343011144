SPECIFICATION AnalyticsSpec
CONSTANTS
    MonthLengths <- CalendarMonths
    LastMonth = 3
    Windows = {1, 2}
    Issued <- CallsIssued
    MinHistory = 2
    ThresholdPp = 2
    StockPrices = {50, 53}
    BenchmarkPrices = {50}
    MaxRecs = 2
    MaxBars <- BarBounds
    MaShort = 2
    MaLong = 3
    RsiPeriod = 2
    Fast = 2
    Slow = 3
    SignalPeriod = 2
    MinBars = 4
    HistoryBars = 5
    Closes = {0, 1, 2, 3, 4}
    Scale = 23328
    MaxCloses = 6
    Peers = {"p1", "p2", "p3"}
    PeValues <- PeTried
    PbValues = {}
    MarginValues <- MarginsTried
    Null = Null
    SignalValues <- SignalsTried
    WeightChoices <- WeightsTried
    PriceFacts <- FactsTried
    Tickers = {"a", "b"}
    First = "a"
    RunTicker <- RunsOfTickers
    MaxLoads = 2
CHECK_DEADLOCK FALSE
INVARIANTS
    AnalyticsTypeOK
    MirrorScoresOpposite
    RisingNeverNegative
    PeerMedianIsAPeersValuation
    CheaperNeverScoresLower
    
    RaisingALensNeverLowersTheCall
    MissingRowMeansWeightOnMissingLens
    TargetsAreHonest
    NarrowWindowIsEmpty
    ShownAccuracyHasHistory
PROPERTIES
    JudgementIsFinal
    PendingEndsForItsOwnReasons
