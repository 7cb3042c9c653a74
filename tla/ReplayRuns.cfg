SPECIFICATION Spec
CONSTANTS
    None = None
    a1 = a1  c1 = c1  c2 = c2  t1 = t1  t2 = t2
    Boundaries <- MCBoundaries
    Artifacts = {a1}
    Clusters = {c1, c2}
    Strategies = {t1, t2}
    Snapshots <- MCSnapshots
    Assignments <- MCAssignments
    Compatible = {a1}
    history = history
    Failures = {history}
    MaxDistance = 1
    Start = 3
    Bars = 5
    SelectionBars = 2
    DayBars = 3
    Candles <- MCCandles
    TakeProfit = 2
    StopLoss = 2
    Fee = 0
    Slippage = 1
    InitialEquity = 20
    MaxHolding <- MCMaxHolding
    MinBetween = 2
    MaxDaily = 1
    MaxLosses = 2
    PauseBars = 2
    MaxDrawdown = 50
    MaxDailyLoss = 50
    Traded = t1
INVARIANTS
    ReplaysReconcile
    TradesAreAllowed
    EnginesAgree
CHECK_DEADLOCK FALSE
