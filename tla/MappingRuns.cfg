SPECIFICATION ResearchSpec
CONSTANTS
    A = A  B = B
    c1 = c1  c2 = c2
    d1 = d1  d2 = d2
    Components = {A, B}
    Candidates = {1, 2}
    MappingFit = {1, 2}
    Purge = {3}
    Validation = {4}
    MonthOf <- MonthOfDay
    Replays <- DailyReplays
    Bounds <- BoundValues
    Equity = 10
    TailPart = 2
    TopTrades = 1
    BlockDays = 2
    MinEpisodes = 2
    MinMonths = 2
    MinTrades = 2
    Tolerance = 1
    StrictPolicy <- Strict
    TighterPolicy <- Tighter
    LooserPolicy <- Looser
    Weeks = {1, 2, 3, 4}
    WeekMonth <- MonthOfWeek
    WeekMonths <- MonthsOfWeek
    Configs <- ModelConfigs
    Labelings <- WeekLabels
    WeeklyCandidates = {1, 2, 3}
    Deferred = {3}
    Coverings <- CoveredWeeks
    Outcomes <- WeekOutcomes
    Criticals = {0, 1}
    MappingConfigs = {1}
    Policies = {1, 2}
    MinWeeks = 2
    MinWeekMonths = 2
    MinWeekTrades = 2
    WeekBars = 4
    Archives = {1, 2, 3}
    Codes = {c1, c2}
    GateFailing = {2}
    Unfittable = {3}
    MaxChanges = 2
    Readers = {d1, d2}
    Minute = 2
    Shards = {1, 2}
    Contents <- ShardContents
    RequiredStart = 2
    RequiredEnd = 4
    Capacity = 1
    MaxBuilds = 1
SYMMETRY Interchangeable
INVARIANTS
    MappingIsSound
    FrozenPairsAreSound
    
    AnswersAreAsOf
CHECK_DEADLOCK FALSE
