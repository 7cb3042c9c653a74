SPECIFICATION EvaluationSpec
CONSTANTS
    c1 = c1  c2 = c2
    Codes = {c1, c2}
    Days = 2
    Policies = 2
    MaxRuns = 3
    Files = 3
    Equity = 10
    TailPart = 2
    TopTrades = 1
    SearchBars <- FewBars
    ExitCandidates <- FewCandidates
    PositionParts = 2
    FeePercent = 1
    MaxBars = 4
    TestedCandidates = {1, 2}
    SearchMonths = {1, 2, 3}
    MonthResults <- ResultsOfMonths
    EvaluationOptions <- FewOptions
    OddResult <- OtherRunsResult
    MonthDays = 1
    Prices = {1, 2}
    MaxCandles = 3
    InitialEquity = 5
    Slippage = 1
    Fee = 1
    Publishers = {c1, c2}
    FrozenOutcomes <- FrozenResults
    RuntimeSettings <- FewSettings
    MaxPublications = 2
SYMMETRY Interchangeable
INVARIANTS
    PublicationIsRecoverable
    ReportsAreBacked
    ReportFollowsArtifacts
    CompositionIsSound
    SimulationReconciles
    
CHECK_DEADLOCK FALSE
