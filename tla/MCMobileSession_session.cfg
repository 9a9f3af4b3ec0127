SPECIFICATION Spec
CONSTANTS
    Tasks = {k1, k2}
    Pairs = {p1, p2, p3}
    None = None
SYMMETRY Symmetry
INVARIANTS
    TypeOK
    SessionSurvives
    DiskFollowsMemory
    LogoutIsFinal
PROPERTY
    RefusalNeedsOverlap
