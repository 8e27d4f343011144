SPECIFICATION IngestSpec
CONSTANTS
    RetryAttempts = 2
    Listing <- PriceListing
    BenchmarkSymbols <- PriceBenchmarks
    Window = 2
    LastDay = 4
    ChipListing <- TaiwanListing
    Exchange <- TaiwanExchanges
    Kinds = {"block"}
    ChipLastDay = 2
    Filers <- CuratedFilers
    Filings <- FilingRows
    LastQuarter = 2
    Sources <- BatchSources
    TaipeiOffset = 8
    CronHour = 3
    SlaHour = 7
    FirstHour = 3
    HourStep = 8
    LastHour = 43
    MaxDeaths = 1
INVARIANT SlaMetWhenDoneByDeadline
