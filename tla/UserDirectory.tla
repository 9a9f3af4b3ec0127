---------------------------- MODULE UserDirectory ----------------------------
(***************************************************************************)
(* The user service (services/user/main.go): it reads the table users,     *)
(* which the auth service writes, and changes nothing.                     *)
(***************************************************************************)
EXTENDS Naturals, Sequences, FiniteSets

CONSTANTS
    Matches   \* pairs <<n, m>>: the name m matches the pattern n% (ILIKE)

VARIABLES
    users,    \* table users, by id
    joined    \* the ids, in the order of created_at

\* GetUser: the id is in the table, or NotFound.
GetUser(u) == u \in DOMAIN users

\* u was created after v.
Newer(u, v) == \E i, j \in DOMAIN joined : i > j /\ joined[i] = u /\ joined[j] = v

SearchLimit(n) == IF n <= 0 \/ n > 50 THEN 20 ELSE n

\* SearchUsers: ORDER BY created_at DESC LIMIT limit.
SearchUsers(name, limit) ==
    LET found == {u \in DOMAIN users : <<name, users[u].username>> \in Matches}
    IN  {u \in found : Cardinality({v \in found : Newer(v, u)}) < SearchLimit(limit)}
=============================================================================
