SPECIFICATION Spec
CONSTANTS
    None = None
    Processes = {p1, p2}
    Identities = {"i1", "i2"}
    Candidates = 2
    Payloads = {x, y}
    MaxRuns = 3
    MaxFiles = 2
SYMMETRY Symmetry
CHECK_DEADLOCK FALSE
INVARIANTS
    TornTailsAreRecovered
