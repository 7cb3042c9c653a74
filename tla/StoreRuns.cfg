SPECIFICATION StoreSpec
CONSTANTS
    p1 = p1
    p2 = p2
    p3 = p3
    Runs = {p1, p2, p3}
    NoRun = NoRun
    RunIdentities = {"a"}
    Folds = 2
    Builders = {p1, p2, p3}
    NoBuilder = NoBuilder
    Versions = 2
    Day = 2
    Month = 4
    Horizon = 9
    MaxPublished = 2
    FundingMaxAge = 2
    MetricsMaxAge = 1
    PageLimit = 1
    Loaders = {p1, p2, p3}
    Months = 2
    MaxLoads = 4
    DayLength = 2
    HistoryStart = 2
    HistoryDays = 5
    ArchiveBounds <- Bounds
SYMMETRY Interchangeable
INVARIANTS
    RowsAreSafe
    PublishedPairIsSound
    
    CandleMarketsAreWhole
    HistoryIsExact
CHECK_DEADLOCK FALSE
