SPECIFICATION Spec
CONSTANTS
    Tickers = {t1, t2}
    Requests = {q1, q2}
    NoRun = NoRun
    PoolCap = 1
    MaxInFlight = 1
    MaxFaults = 0
    MaxCrashes = 0
INVARIANT PoolWithinCap
