SPECIFICATION Spec
CONSTANTS
    Tickers = {t1, t2}
    Requests = {q1, q2}
    NoRun = NoRun
    PoolCap = 1
    MaxInFlight = 2
    MaxFaults = 2
    MaxCrashes = 1
SYMMETRY Symmetry
INVARIANTS
    TypeOK
    AtMostOnceDelivery
    EveryRunHasOwner
    NoStalePointer
    FinishedLeavesCooldown
    AcceptedRunAnswersRequest
    DoneMeansSnapshot
    ReadyHasHistory
PROPERTY TerminalIsFinal
