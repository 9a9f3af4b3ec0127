SPECIFICATION Spec
CONSTANTS
    Tasks = {k1, k2}
    Pairs = {p1, p2}
    None = None
PROPERTY
    SilentRefreshKeepsSession
