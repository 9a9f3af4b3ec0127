SPECIFICATION Spec
CONSTANTS
    Users = {u1, u2}
    Messages = {m1, m2}
    Senders = {s1, s2}
    Readers = {r1}
    Keys = {k1, k2}
    Limits = {0, 1}
    MaxTime = 1
    None = None
SYMMETRY Symmetry
INVARIANTS
    TypeOK
    WalkMissesOnlyTies
    WalkNeverRepeats
    WalkKeepsSendOrder
