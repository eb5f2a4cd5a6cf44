SPECIFICATION FairSpec
CONSTANTS
    Children = {c1, c2}
    Activities = {a1, a2}
    Nobody = Nobody
    Tasks = {t1, t2}
    Narrowings = {0, 1}
    ChildCalls = 3
    MaxChildCalls = 2
    MaxRepeated = 1
    MaxChildren = 2
    MaxBatch = 2
    MaxTurns = 2
    MaxTimeouts = 1
INVARIANTS
    TypeOK
    CancelCoversTree
    DependentsStartAfter
    LeadWaitsUnlessOverlapped
PROPERTIES
    TeamEnds
CHECK_DEADLOCK FALSE
