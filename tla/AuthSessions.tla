---------------------------- MODULE AuthSessions ----------------------------
(***************************************************************************)
(* The auth service (services/auth/main.go): registration, login, rotation *)
(* of refresh tokens and logout, as concurrent gRPC handlers over two      *)
(* PostgreSQL tables.                                                      *)
(*                                                                         *)
(* No handler opens a transaction, so every SQL statement is a step of its *)
(* own and the steps of different handlers interleave; the local work      *)
(* between two statements belongs to one of them, except where it reads    *)
(* the clock.  A statement may fail without effect, or take effect and     *)
(* lose its acknowledgement.  The process may crash at any point: the      *)
(* tables survive, the handlers and the database handle do not.            *)
(***************************************************************************)
EXTENDS Integers

CONSTANTS
    UserIds, Usernames, Phones, Passwords,
    Families,     \* token family identifiers
    Tokens,       \* refresh tokens; each carries its own jti, so none repeats
    Handlers,     \* bound: the calls the service has in progress at one time
    RefreshTTL,   \* lifetime of a refresh token, in ticks of the clock
    MaxTime,      \* bound: the clock stops here
    None          \* no value

ASSUME NoneAssumption == None \notin UserIds \cup Families \cup Tokens
ASSUME TimeAssumption == RefreshTTL \in Nat \ {0} /\ MaxTime \in Nat

VARIABLES
    users,     \* table users, by id
    row,       \* table refresh_tokens, by token (token_hash is injective)
    dbReady,   \* s.db # nil
    now,       \* the clock, the same for the service and the database
    jwt,       \* the claims signed into each refresh token ever issued
    call,      \* the gRPC handler goroutines
    wallet,    \* the refresh tokens that clients have received
    (***********************************************************************)
    (* History variables: no action's guard reads them.                    *)
    (***********************************************************************)
    origin,       \* how each token was issued: the token it was exchanged
                  \* for, and the tokens stored when that call began
    loggedOut,    \* families a logout has reported as revoked
    interrupted   \* families cut off by a failed statement, a crash, or a
                  \* token that was stored and never delivered

tables  == <<users, row>>
history == <<origin, loggedOut, interrupted>>
vars    == <<users, row, dbReady, now, jwt, call, wallet, history>>

-----------------------------------------------------------------------------
(***************************************************************************)
(* Types.                                                                  *)
(***************************************************************************)
Codes == {"OK", "InvalidArgument", "AlreadyExists", "Unauthenticated",
          "Unavailable", "Internal"}

\* Where a handler is: about to run the named step, or holding its answer.
Steps == {"idle", "validate", "rotate", "issue", "store", "revoke", "reply"}

UserRow  == [username : Usernames, phone : Phones, password : Passwords]
TokenRow == [user : UserIds, family : Families, expires : Nat, revoked : BOOLEAN]
Claims   == [user : UserIds, family : Families, exp : Nat]
Origin   == [from : SUBSET Tokens, before : SUBSET Tokens]

Call == [pc     : Steps,
         user   : UserIds \cup {None},    \* claims.UserID, or the user logging in
         family : Families \cup {None},   \* claims.FamilyID, or the new family
         old    : Tokens \cup {None},     \* the token in the request
         new    : Tokens \cup {None},     \* the token issued, if any
         before : SUBSET Tokens,          \* history: stored when the call began
         code   : Codes]

Idle == [pc |-> "idle", user |-> None, family |-> None, old |-> None,
         new |-> None, before |-> {}, code |-> "OK"]

-----------------------------------------------------------------------------
(***************************************************************************)
(* Helpers.                                                                *)
(***************************************************************************)
Stored == DOMAIN row
Issued == DOMAIN jwt

\* The row a refresh accepts: revoked_at IS NULL AND expires_at > NOW().
Live(t) == ~row[t].revoked /\ row[t].expires > now

\* parseRefreshToken: signature and type (None stands for any other string),
\* then the exp claim.
Parses(t) == t # None /\ now < jwt[t].exp

\* Mutant of RotationAllowed: the SELECT forgets revoked_at IS NULL.
RotationAllowedWhenRevoked(h) ==
    LET t == call[h].old
    IN  t \in Stored /\ row[t].expires > now /\ row[t].family = call[h].family

\* The row exists, is live, and agrees with the claims of the token.
RotationAllowed(h) ==
    LET t == call[h].old
    IN  /\ t \in Stored
        /\ Live(t)
        /\ row[t].user = call[h].user
        /\ row[t].family = call[h].family

\* Mutant of WithRevoked: the UPDATE revokes the expired rows only.
WithExpiredRevoked(f) ==
    [t \in Stored |-> IF row[t].family = f /\ row[t].expires <= now
                      THEN [row[t] EXCEPT !.revoked = TRUE]
                      ELSE row[t]]

\* revokeFamily: UPDATE ... SET revoked_at WHERE family_id = f.
WithRevoked(f) ==
    [t \in Stored |-> IF row[t].family = f
                      THEN [row[t] EXCEPT !.revoked = TRUE]
                      ELSE row[t]]

\* Mutant of FreshFamily: sessions share families.
SharedFamily(f) == TRUE

\* uuid.NewString(): a family that no token and no handler has.
FreshFamily(f) ==
    /\ \A t \in Issued : jwt[t].family # f
    /\ \A h \in Handlers : call[h].family # f

\* The handler has revoked the tokens of its family and owes it a new one.
Owes(h) == call[h].pc \in {"issue", "store"} /\ call[h].old # None

Goto(h, step) == call' = [call EXCEPT ![h].pc = step]

\* The handler returns; t is the refresh token in the response, if any.
Answer(h, code, t) ==
    call' = [call EXCEPT ![h] = [Idle EXCEPT !.pc = "reply", !.code = code, !.new = t]]

-----------------------------------------------------------------------------
(***************************************************************************)
(* A request arrives.  Required fields are checked first, then getDB.      *)
(***************************************************************************)
RejectEmpty(h) ==
    /\ call[h].pc = "idle"
    /\ Answer(h, "InvalidArgument", None)
    /\ UNCHANGED <<tables, dbReady, now, jwt, wallet, history>>

RejectNotReady(h) ==
    /\ call[h].pc = "idle"
    /\ ~dbReady
    /\ Answer(h, "Unavailable", None)
    /\ UNCHANGED <<tables, dbReady, now, jwt, wallet, history>>

\* Register is one INSERT, which the UNIQUE columns may refuse.  It may also
\* fail without effect, or take effect and be reported as failed.
Taken(n, p) == \E u \in DOMAIN users : users[u].username = n \/ users[u].phone = p

RegisterRefused(h, n, p) ==
    /\ Taken(n, p)
    /\ Answer(h, "AlreadyExists", None)
    /\ UNCHANGED users

RegisterCreates(h, n, p, w) ==
    /\ ~Taken(n, p)
    /\ \E u \in UserIds \ DOMAIN users, code \in {"OK", "Internal"} :
           /\ users' = [x \in DOMAIN users \cup {u} |->
                            IF x = u THEN [username |-> n, phone |-> p, password |-> w]
                                     ELSE users[x]]
           /\ Answer(h, code, None)

RegisterFails(h) == Answer(h, "Internal", None) /\ UNCHANGED users

Register(h, n, p, w) ==
    /\ call[h].pc = "idle"
    /\ dbReady
    /\ \/ RegisterRefused(h, n, p)
       \/ RegisterCreates(h, n, p, w)
       \/ RegisterFails(h)
    /\ UNCHANGED <<row, dbReady, now, jwt, wallet, history>>

\* Login reads the user and compares the password, then opens a family.
Credentials(n, w) ==
    {u \in DOMAIN users : users[u].username = n /\ users[u].password = w}

Login(h, n, w) ==
    /\ call[h].pc = "idle"
    /\ dbReady
    /\ \/ /\ Credentials(n, w) = {}
          /\ Answer(h, "Unauthenticated", None)
       \/ \E u \in Credentials(n, w), f \in Families :
              /\ FreshFamily(f)
              /\ call' = [call EXCEPT ![h] =
                             [Idle EXCEPT !.pc = "issue", !.user = u, !.family = f]]
       \/ Answer(h, "Internal", None)
    /\ UNCHANGED <<tables, dbReady, now, jwt, wallet, history>>

\* Refresh and Logout parse the token before they touch the database.
ParseToken(h, t, next) ==
    /\ call[h].pc = "idle"
    /\ dbReady
    /\ \/ /\ ~Parses(t)
          /\ Answer(h, "Unauthenticated", None)
       \/ /\ Parses(t)
          /\ call' = [call EXCEPT ![h] =
                         [Idle EXCEPT !.pc = next, !.user = jwt[t].user,
                                      !.family = jwt[t].family, !.old = t,
                                      !.before = Stored]]
    /\ UNCHANGED <<tables, dbReady, now, jwt, wallet, history>>

RefreshStart(h, t) == ParseToken(h, t, "validate")
LogoutStart(h, t)  == ParseToken(h, t, "revoke")

-----------------------------------------------------------------------------
(***************************************************************************)
(* The statements of Refresh, and the two that Login shares with it.       *)
(***************************************************************************)
RefreshSelect(h) ==
    /\ call[h].pc = "validate"
    /\ IF RotationAllowed(h) THEN Goto(h, "rotate")
                             ELSE Answer(h, "Unauthenticated", None)
    /\ UNCHANGED <<tables, dbReady, now, jwt, wallet, history>>

\* The UPDATE reports no row count: it succeeds whether or not another call
\* has revoked the family since the SELECT.
RefreshRotate(h) ==
    /\ call[h].pc = "rotate"
    /\ row' = WithRevoked(call[h].family)
    /\ \/ /\ Goto(h, "issue")
          /\ UNCHANGED interrupted
       \/ /\ Answer(h, "Internal", None)
          /\ interrupted' = interrupted \cup {call[h].family}
    /\ UNCHANGED <<users, dbReady, now, jwt, wallet, origin, loggedOut>>

SignToken(h, t) ==
    /\ call[h].pc = "issue"
    /\ jwt' = [x \in Issued \cup {t} |->
                   IF x = t THEN [user |-> call[h].user, family |-> call[h].family,
                                  exp |-> now + RefreshTTL]
                            ELSE jwt[x]]
    /\ origin' = [origin EXCEPT ![t] =
                      [from |-> {call[h].old} \ {None}, before |-> call[h].before]]
    /\ call' = [call EXCEPT ![h].pc = "store", ![h].new = t]
    /\ UNCHANGED <<tables, dbReady, now, wallet, loggedOut, interrupted>>

\* A token carries a jti of its own: it was never issued before.
IssueTokenPair(h) == \E t \in Tokens \ Issued : SignToken(h, t)

\* Mutant of StoreRefreshToken: the family is revoked after the new row is
\* written, not before.
StoreThenRevoke(h) ==
    /\ call[h].pc = "store"
    /\ row' = [x \in Stored \cup {call[h].new} |->
                   IF x = call[h].new
                   THEN [user |-> call[h].user, family |-> call[h].family,
                         expires |-> now + RefreshTTL, revoked |-> TRUE]
                   ELSE row[x]]
    /\ Answer(h, "OK", call[h].new)
    /\ UNCHANGED <<users, dbReady, now, jwt, wallet, history>>

StoreRefreshToken(h) ==
    /\ call[h].pc = "store"
    /\ row' = [x \in Stored \cup {call[h].new} |->
                   IF x = call[h].new
                   THEN [user |-> call[h].user, family |-> call[h].family,
                         expires |-> now + RefreshTTL, revoked |-> FALSE]
                   ELSE row[x]]
    /\ \/ /\ Answer(h, "OK", call[h].new)
          /\ UNCHANGED interrupted
       \/ /\ Answer(h, "Internal", None)
          /\ interrupted' = interrupted \cup {call[h].family}
    /\ UNCHANGED <<users, dbReady, now, jwt, wallet, origin, loggedOut>>

LogoutRevoke(h) ==
    /\ call[h].pc = "revoke"
    /\ row' = WithRevoked(call[h].family)
    /\ \/ /\ Answer(h, "OK", None)
          /\ loggedOut' = loggedOut \cup {call[h].family}
          /\ UNCHANGED interrupted
       \/ /\ Answer(h, "Internal", None)
          /\ interrupted' = interrupted \cup {call[h].family}
          /\ UNCHANGED loggedOut
    /\ UNCHANGED <<users, dbReady, now, jwt, wallet, origin>>

\* Mutant of StatementFails: the error of the INSERT is not checked.
StoreErrorIgnored(h) ==
    /\ call[h].pc \in {"validate", "rotate", "issue", "store", "revoke"}
    /\ Answer(h, "OK", call[h].new)
    /\ UNCHANGED <<tables, dbReady, now, jwt, wallet, history>>

\* The statement a handler is about to run (or the signing of its tokens)
\* fails without effect; what the handler did before stays done.
StatementFails(h) ==
    /\ call[h].pc \in {"validate", "rotate", "issue", "store", "revoke"}
    /\ Answer(h, "Internal", None)
    /\ interrupted' = interrupted \cup (IF Owes(h) THEN {call[h].family} ELSE {})
    /\ UNCHANGED <<tables, dbReady, now, jwt, wallet, origin, loggedOut>>

\* The response reaches the client, or is lost: the gateway gives up after
\* three seconds and the handlers, which ignore their context, do not notice.
Respond(h) ==
    /\ call[h].pc = "reply"
    /\ LET token == {call[h].new} \ {None}
       IN  \/ /\ wallet' = wallet \cup token
              /\ UNCHANGED interrupted
           \/ /\ interrupted' = interrupted \cup {jwt[t].family : t \in token}
              /\ UNCHANGED wallet
    /\ call' = [call EXCEPT ![h] = Idle]
    /\ UNCHANGED <<tables, dbReady, now, jwt, origin, loggedOut>>

-----------------------------------------------------------------------------
(***************************************************************************)
(* The process and its clock.                                              *)
(***************************************************************************)
\* The background loop of main connects, creates the schema and publishes
\* the handle once; failed attempts change nothing.
ConnectDB ==
    /\ ~dbReady
    /\ dbReady' = TRUE
    /\ UNCHANGED <<tables, now, jwt, call, wallet, history>>

\* The process dies, and starts again without a database handle.
Crash ==
    /\ call' = [h \in Handlers |-> Idle]
    /\ dbReady' = FALSE
    /\ interrupted' = interrupted
           \cup {call[h].family : h \in {g \in Handlers : Owes(g)}}
           \cup {jwt[call[h].new].family :
                     h \in {g \in Handlers : call[g].pc = "reply" /\ call[g].new # None}}
    /\ UNCHANGED <<tables, now, jwt, wallet, origin, loggedOut>>

Tick ==
    /\ now < MaxTime
    /\ now' = now + 1
    /\ UNCHANGED <<tables, dbReady, jwt, call, wallet, history>>

-----------------------------------------------------------------------------
Init ==
    /\ users = [u \in {} |-> None]
    /\ row = [t \in {} |-> None]
    /\ dbReady = FALSE
    /\ now = 0
    /\ jwt = [t \in {} |-> None]
    /\ call = [h \in Handlers |-> Idle]
    /\ wallet = {}
    /\ origin = [t \in Tokens |-> [from |-> {}, before |-> {}]]
    /\ loggedOut = {}
    /\ interrupted = {}

\* A client calls: it presents names, passwords and the tokens it received.
Request(h) ==
    \/ RejectEmpty(h)
    \/ RejectNotReady(h)
    \/ \E n \in Usernames, p \in Phones, w \in Passwords : Register(h, n, p, w)
    \/ \E n \in Usernames, w \in Passwords : Login(h, n, w)
    \/ \E t \in wallet \cup {None} : RefreshStart(h, t)
    \/ \E t \in wallet \cup {None} : LogoutStart(h, t)

Statement(h) ==
    \/ RefreshSelect(h)
    \/ RefreshRotate(h)
    \/ IssueTokenPair(h)
    \/ StoreRefreshToken(h)
    \/ LogoutRevoke(h)
    \/ StatementFails(h)
    \/ Respond(h)

Next ==
    \/ \E h \in Handlers : Request(h) \/ Statement(h)
    \/ ConnectDB
    \/ Crash
    \/ Tick

Spec == Init /\ [][Next]_vars

-----------------------------------------------------------------------------
(***************************************************************************)
(* Properties.                                                             *)
(***************************************************************************)
\* Every table, claim and handler holds values of its columns and fields.
TypeOK ==
    /\ DOMAIN users \subseteq UserIds
    /\ users \in [DOMAIN users -> UserRow]
    /\ Stored \subseteq Issued
    /\ row \in [Stored -> TokenRow]
    /\ dbReady \in BOOLEAN
    /\ now \in 0 .. MaxTime
    /\ Issued \subseteq Tokens
    /\ jwt \in [Issued -> Claims]
    /\ call \in [Handlers -> Call]
    /\ wallet \subseteq Stored
    /\ origin \in [Tokens -> Origin]
    /\ loggedOut \subseteq Families
    /\ interrupted \subseteq Families

\* The rows of a family, the claims signed into its tokens and the handlers
\* still working for it all name one registered user, although Refresh takes
\* the user from the token and never from the table.
SessionsBelongToTheirUser ==
    /\ \A t \in Stored :
           /\ row[t].user = jwt[t].user
           /\ row[t].family = jwt[t].family
           /\ row[t].user \in DOMAIN users
    /\ \A a, b \in Stored : row[a].family = row[b].family => row[a].user = row[b].user
    /\ \A h \in Handlers, t \in Stored :
           call[h].family = row[t].family => call[h].user = row[t].user

\* Rotation spends the old token before the new one exists: whenever a
\* token is stored, the token it was exchanged for is stored and revoked,
\* whatever failed or crashed in between.
ExchangedTokensAreSpent ==
    \A t \in Stored : \A s \in origin[t].from : s \in Stored /\ row[s].revoked

\* One token yields two only when two refreshes overlap, and a family has two
\* live tokens only then: of two tokens exchanged for the same one, or of two
\* live ones of a family, neither was stored when the other's refresh began.
RotationsRaceOnlyWhenTheyOverlap ==
    \A a, b \in Stored :
        (/\ a # b
         /\ \/ origin[a].from \cap origin[b].from # {}
            \/ Live(a) /\ Live(b) /\ row[a].family = row[b].family)
        => a \notin origin[b].before

\* A family that nobody logged out and nothing cut off stays usable: it has
\* an unrevoked token that a client holds or is about to be sent, or a
\* refresh that has yet to store one.  Racing refreshes of one token never
\* leave the session without a successor.
SessionStaysUsable ==
    \A t \in Stored :
        row[t].family \notin loggedOut \cup interrupted =>
            \/ \E s \in Stored :
                   /\ row[s].family = row[t].family
                   /\ ~row[s].revoked
                   /\ \/ s \in wallet
                      \/ \E h \in Handlers : call[h].pc = "reply" /\ call[h].new = s
            \/ \E h \in Handlers : Owes(h) /\ call[h].family = row[t].family

(***************************************************************************)
(* The sessions, as the abstract specification sees them: a family is open *)
(* while one of its tokens would be accepted, or a refresh that has seen   *)
(* such a token has not finished with it.                                  *)
(***************************************************************************)
Opened(f) == \E t \in Stored : row[t].family = f

Open(f) ==
    \/ \E t \in Stored : row[t].family = f /\ Live(t)
    \/ \E h \in Handlers : call[h].family = f /\ (call[h].pc = "rotate" \/ Owes(h))

status == [f \in Families |-> IF ~Opened(f) THEN "unused"
                              ELSE IF Open(f) THEN "open" ELSE "closed"]

owners == [f \in Families |-> {row[t].user : t \in {s \in Stored : row[s].family = f}}]

Lifecycle == INSTANCE SessionLifecycle WITH Owners <- UserIds

\* A session opens once, for one user, and a closed one is never revived: no
\* interleaving of refreshes, logouts, expiries, failures and restarts makes
\* a family acceptable again once it has stopped being so.
ImplementsLifecycle == Lifecycle!Spec

-----------------------------------------------------------------------------
(***************************************************************************)
(* What docs/roadmap.md, section 4.1, says of the service.  It also says   *)
(* that a refresh token is used once: of refreshes that do not overlap,    *)
(* that is RotationsRaceOnlyWhenTheyOverlap, and of others it is not so.   *)
(***************************************************************************)
\* "Logout invalidates the current token family": no token of a family is
\* accepted once the service has reported the logout.
LogoutEndsSession ==
    \A t \in Stored : row[t].family \in loggedOut => ~Live(t)
=============================================================================
