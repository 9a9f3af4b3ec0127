SPECIFICATION FairSpec
CONSTANTS
    Users = {u1, u2}
    Conns = {c1, c2}
    Tickets = {t1, t2}
    Messages = {m1}
    TicketTTL = 0
    MaxTime = 0
    Buffer = 1
    None = None
PROPERTY
    GoroutinesComeBack
CHECK_DEADLOCK FALSE
