SPECIFICATION Spec
CONSTANTS
    None = None
    Processes = {p1, p2}
    Identities = {"i1", "i2"}
    Candidates = 2
    Payloads = {x, y}
    MaxRuns = 4
    MaxFiles = 2
SYMMETRY Symmetry
INVARIANTS
    AcknowledgedRowsAreStored
    LedgerIsSound
PROPERTIES
    TornBytesAreKept
CHECK_DEADLOCK FALSE
