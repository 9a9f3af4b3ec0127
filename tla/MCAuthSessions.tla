--------------------------- MODULE MCAuthSessions ---------------------------
(* AuthSessions for TLC: every set of values is symmetric.                   *)
EXTENDS AuthSessions, TLC

Symmetry ==
    UNION {Permutations(S) :
               S \in {UserIds, Usernames, Phones, Passwords, Families, Tokens, Handlers}}
=============================================================================
