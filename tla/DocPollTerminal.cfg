SPECIFICATION FairSpec
CONSTANTS
    Tickers = {t1}
    Requests = {q1}
    NoRun = NoRun
    PoolCap = 1
    MaxInFlight = 1
    MaxFaults = 0
    MaxCrashes = 1
PROPERTY EveryRunFinishes
