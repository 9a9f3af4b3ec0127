SPECIFICATION FairSpec
CONSTANTS
    Incoming = {m1}
    Outgoing = {m2}
    Foreign = {m3}
    Requests = {r1, r2}
    Sockets = {s1, s2}
    PageLimit = 1
    None = None
INVARIANTS
    TypeOK
    PageThenPushes
    KeepsReconnecting
    ScreenLeavesNothing
PROPERTY
    ListConverges
CHECK_DEADLOCK FALSE
