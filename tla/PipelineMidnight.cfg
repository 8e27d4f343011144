SPECIFICATION Spec
CONSTANTS
    Tickers = {t1}
    CronRuns = {c1}
    ManualRuns = {m1}
    PlainSources <- OneSource
    NoTicker = NoTicker
    LastDate = 2
    MaxJobs = 1
    MaxDeaths = 0
CHECK_DEADLOCK FALSE
INVARIANTS
    MembersNewsHasEvidence
    RowsSettle
