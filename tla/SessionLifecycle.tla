-------------------------- MODULE SessionLifecycle --------------------------
(***************************************************************************)
(* What the auth service promises about a login session, whatever the      *)
(* tables and the handlers do: a token family is opened once, for one      *)
(* user, and once it is closed nothing opens it again.                     *)
(***************************************************************************)

CONSTANTS
    Families,   \* identifiers of token families (family_id)
    Owners      \* identifiers of users (user_id)

VARIABLES
    status,     \* status[f]: "unused", then "open", then "closed"
    owners      \* owners[f]: the users its tokens belong to, at most one

vars == <<status, owners>>

Init ==
    /\ status = [f \in Families |-> "unused"]
    /\ owners = [f \in Families |-> {}]

\* A login opens a family.
Open(f, u) ==
    /\ status[f] = "unused"
    /\ status' = [status EXCEPT ![f] = "open"]
    /\ owners' = [owners EXCEPT ![f] = {u}]

\* A logout, the expiry of the last token, a failed rotation or a crash
\* closes families; the last two may close several at once.
Close(closing) ==
    /\ \A f \in closing : status[f] = "open"
    /\ status' = [f \in Families |->
                    IF f \in closing THEN "closed" ELSE status[f]]
    /\ UNCHANGED owners

Next ==
    \/ \E f \in Families, u \in Owners : Open(f, u)
    \/ \E closing \in SUBSET Families : Close(closing)

Spec == Init /\ [][Next]_vars
=============================================================================
