SPECIFICATION FairSpec
CONSTANTS
    Tickers = {t1}
    Requests = {q1, q2}
    NoRun = NoRun
    PoolCap = 1
    MaxInFlight = 2
    MaxFaults = 2
    MaxCrashes = 1
PROPERTY WorkerSurvives
