SPECIFICATION Spec
CONSTANTS
    Keys = {"k1", "k2"}
    Unlimited = Unlimited
    MaxReconnects = Unlimited
    InitialDirection = "long"
    InitialQuantity = 2
    Quantities = {0, 1, 2}
    MaxUpdates = 3
CHECK_DEADLOCK FALSE
PROPERTIES
    ReconnectsAfterFailure
