SPECIFICATION Spec
CONSTANTS
    None = None
    a1 = a1  a2 = a2
    c1 = c1  c2 = c2  c3 = c3
    s1 = s1  s2 = s2
    Boundaries = {1, 2, 3, 4}
    Artifacts = {a1, a2}
    Clusters = {c1, c2, c3}
    Strategies = {s1, s2}
    Snapshots <- MCSnapshots
    Assignments <- MCAssignments
    Processes = {"p1"}
INVARIANTS
    TypeOK
    TwoObservationRule
    DecisionsAreJustified
    SelectorNeverInvalid
