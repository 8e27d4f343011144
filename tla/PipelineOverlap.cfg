SPECIFICATION Spec
CONSTANTS
    Tickers = {t1, t2}
    CronRuns = {c1}
    ManualRuns = {m1}
    PlainSources <- NoSource
    NoTicker = NoTicker
    LastDate = 1
    MaxJobs = 1
    MaxDeaths = 1
SYMMETRY Symmetry
CHECK_DEADLOCK FALSE
INVARIANTS
    TypeOK
    MembersNewsHasEvidence
    RowsSettle
    EngineOkMeansSnapshot
    LoneRunNewsIsExact
