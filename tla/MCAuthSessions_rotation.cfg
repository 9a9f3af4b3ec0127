SPECIFICATION Spec
CONSTANTS
    UserIds = {u1}
    Usernames = {n1}
    Phones = {p1}
    Passwords = {w1}
    Families = {f1, f2}
    Tokens = {t1, t2, t3}
    Handlers = {h1, h2}
    RefreshTTL = 1
    MaxTime = 1
    None = None
SYMMETRY Symmetry
INVARIANTS
    TypeOK
    ExchangedTokensAreSpent
    RotationsRaceOnlyWhenTheyOverlap
    SessionStaysUsable
PROPERTY
    ImplementsLifecycle
