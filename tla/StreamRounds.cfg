SPECIFICATION Spec
CONSTANTS
    Keys = {"k1", "k2"}
    Unlimited = Unlimited
    MaxReconnects = 2
    InitialDirection = "long"
    InitialQuantity = 2
    Quantities = {0, 1, 2}
    MaxUpdates = 3
INVARIANTS
    UpdatesReplay
    RoundsAreClean
PROPERTIES
    FailedRoundsEnd
CHECK_DEADLOCK FALSE
