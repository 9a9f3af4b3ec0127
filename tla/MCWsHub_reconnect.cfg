SPECIFICATION Spec
CONSTANTS
    Users = {u1}
    Conns = {c1, c2}
    Tickets = {t1, t2}
    Messages = {}
    TicketTTL = 0
    MaxTime = 0
    Buffer = 1
    None = None
INVARIANT
    ConnectedUsersAreOnline
CHECK_DEADLOCK FALSE
