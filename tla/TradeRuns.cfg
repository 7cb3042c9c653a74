SPECIFICATION Spec
CONSTANTS
    Processes = {p1, p2}
    SignalIds = {s1, s2}
    Blank = Blank
    RetryAttempts = 2
    MaxRuns = 3
INVARIANTS
    RunsAreExclusive
PROPERTIES
    SignalsAreTradedOnce
    RunsEnd
CHECK_DEADLOCK FALSE
