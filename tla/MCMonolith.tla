----------------------------- MODULE MCMonolith ------------------------------
(* Monolith for TLC: the name n2 begins with n1.                             *)
EXTENDS Monolith, TLC

CONSTANTS n1, n2

Prefixes == {<<n1, n1>>, <<n1, n2>>, <<n2, n2>>}

Symmetry == UNION {Permutations(S) : S \in {UserIds, Phones, Families, Tokens}}

(* Bounds: calls overlap in pairs only (more of one service overlap in       *)
(* MCAuthSessions and MCMessageStore), clients know of one user at most, a   *)
(* walk ends with its first empty page, one token or session is refused or   *)
(* logged out, and no session is cut off.  While a client has a ticket or a  *)
(* socket, nothing is fetched and no token is refused.                       *)
InProgress == {c \in Clients : rpc[c].pc # "idle"}
                  \cup {h \in Handlers : call[h].pc # "idle"}

OnWebSocket == {c \in Senders : tickets[c] # NoTicket \/ socket[c] # None}

Bounds ==
    /\ Cardinality(InProgress) <= 1
    /\ Cardinality(found) <= 1
    /\ \A c \in Readers : ~walk[c].done
    /\ Cardinality(refused) + Cardinality(loggedOut) <= 1 /\ interrupted = {}
    /\ OnWebSocket = {} \/ (refused = {} /\ \A c \in Readers : walk[c] = Store!NoWalk)
=============================================================================
