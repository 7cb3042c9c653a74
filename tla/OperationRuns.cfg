SPECIFICATION OperationSpec
CONSTANTS
    k1 = k1  k2 = k2
    Keepers = {k1, k2}
    MaxOrders = 4
    MaxQuantity = 2
    Actors = {k1, k2}
    Strategies = 1
    CycleIds = 2
    PromotedIds = 2
    MaxSecond = 1
    Bars <- RoutedBars
    Routers <- FewRouters
    Warmup = 4
    MaxRouted = 6
    TapeBars <- RollingBars
    Breakout <- BreakoutParameters
    Edge <- EdgeParameters
    MaxTape = 6
    MaxRewinds = 1
    MinuteBars <- MinuteCandles
    Readings <- FewReadings
    Wirings <- FewWirings
    Day = 12
    MaxMinute = 6
    SessionBars <- ProfileBars
    BinSize = 10
    AreaPercent = 60
    MinCandles = 3
    BreakoutPercent = 120
    WickPercent = 40
    MaxSession = 4
SYMMETRY Interchangeable
INVARIANTS
    PositionsAreKept
    LifecycleIsSound
    StrategiesAgree
    WindowsAreExact
CHECK_DEADLOCK FALSE
