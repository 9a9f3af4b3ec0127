SPECIFICATION Spec
CONSTANTS
    Users = {u1, u2}
    Conns = {c1, c2}
    Tickets = {t1, t2}
    Messages = {m1, m2}
    TicketTTL = 0
    MaxTime = 1
    Buffer = 1
    None = None
SYMMETRY Symmetry
INVARIANTS
    TypeOK
    TicketAdmitsOnce
    OnlineIsServed
    UnlistedOnlyIfReplaced
    PushesFollowHistory
    PushedIsStoredAndAddressed
CHECK_DEADLOCK FALSE
