SPECIFICATION Spec
CONSTANTS
    Tickers = {t1}
    Requests = {q1, q2}
    NoRun = NoRun
    PoolCap = 1
    MaxInFlight = 2
    MaxFaults = 0
    MaxCrashes = 0
INVARIANT NeverTwoConcurrentRuns
