SPECIFICATION MonolithSpec
CONSTANTS
    n1 = n1
    n2 = n2
    UserIds = {u1, u2}
    Usernames = {n1, n2}
    Phones = {p1, p2}
    Passwords = {w1}
    Families = {f1, f2}
    Tokens = {t1, t2}
    Handlers = {h1}
    RefreshTTL = 2
    MaxTime = 1
    None = None
    Messages = {m1}
    Senders = {s1}
    Readers = {r1}
    Keys = {k1}
    Limits = {0}
    AccessTTL = 1
    TicketTTL = 0
    Matches <- Prefixes
SYMMETRY Symmetry
CONSTRAINT Bounds
INVARIANTS
    SessionsBelongToTheirUser
    UnauthorizedIsFinal
    MessageGoesToItsUser
    ReadersTakePart
PROPERTIES
    ImplementsAuth
    ImplementsStore
    AccessEndsWithSession
