SPECIFICATION Spec
CONSTANTS
    None = None
    a1 = a1  a2 = a2
    c1 = c1  c2 = c2  c3 = c3
    s1 = s1  s2 = s2
    Boundaries = {1, 2, 3}
    Artifacts = {a1, a2}
    Clusters = {c1, c2, c3}
    Strategies = {s1, s2}
    Snapshots <- MCSnapshots
    Assignments <- FewAssignments
    Processes = {"p1", "p2"}
INVARIANTS
    HistoryIsAChain
    ReturnedIsCommitted
PROPERTIES
    RejectedOnlyWhenOvertaken
    
    RunsAreSequential
