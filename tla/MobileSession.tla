---------------------------- MODULE MobileSession ----------------------------
(***************************************************************************)
(* The session of the mobile client (mobile/vual_mobile/lib/main.dart):    *)
(* SessionStore keeps the tokens in memory and in SharedPreferences, and   *)
(* ApiClient sends requests, refreshes the tokens when one is answered     *)
(* with 401, and repeats it once.  Dart runs one task at a time and        *)
(* switches between them at every await: a task is a chain of callbacks.   *)
(*                                                                         *)
(* The server is what the client can tell of it: RequireAuth, which only   *)
(* looks at the access token's expiry, and the statements of Refresh,      *)
(* Login and Logout of the auth service (AuthSessions has them in full).   *)
(* A request that the client has given up is still executed.               *)
(***************************************************************************)
EXTENDS FiniteSets

CONSTANTS
    Tasks,   \* bound: the calls of ApiClient in progress at one time
    Pairs,   \* bound: the pairs (access token, refresh token) ever issued
    None

ASSUME MobileNoneAssumption == None \notin Pairs

VARIABLES
    memory,   \* SessionStore.accessToken and refreshToken
    disk,     \* the same two, in SharedPreferences
    task,     \* task[k]: where the client is in call k
    server,   \* server[k]: the auth service's handler of the last request of k
    family,   \* family[p], for every pair issued: the pair of its login
    live,     \* the pairs whose refresh token is neither revoked nor expired
    expired,  \* the pairs whose access token has expired
    (***********************************************************************)
    (* History variables: no action's guard reads them.                    *)
    (***********************************************************************)
    signedIn,    \* the user has logged in and not logged out since
    overlapped,  \* since that login, two exchanges of tokens were in progress
    faulty       \* since that login, one failed or was cut short

tokens  == <<family, live, expired>>
history == <<signedIn, overlapped, faulty>>
vars    == <<memory, disk, task, server, tokens, history>>

-----------------------------------------------------------------------------
Waiting == {"refresh", "login", "logout"}
Writing == {"saveAccess", "saveRefresh", "dropAccess", "dropRefresh"}

Store == [access : Pairs \cup {None}, refresh : Pairs \cup {None}]

Task == [pc     : {"idle", "call"} \cup Waiting \cup Writing,
         pair   : Pairs \cup {None},  \* the access token sent, or the pair saved
         resend : BOOLEAN]            \* this is, or ends in, the second attempt

Handler == [pc    : {"idle", "rotate", "store", "ok", "error"} \cup Waiting,
            token : Pairs \cup {None}]  \* the one received, then the one issued

Idle    == [pc |-> "idle", pair |-> None, resend |-> FALSE]
NoCall  == [pc |-> "idle", token |-> None]
Nothing == [access |-> None, refresh |-> None]

Issued == DOMAIN family
Family(t) == {p \in Issued : t \in Issued /\ family[p] = family[t]}

isAuthorized == memory.access # None /\ memory.refresh # None

\* k is exchanging its tokens for others, or none: the answer or a write to
\* SharedPreferences is outstanding, or the server has not finished.
Exchanging(k) == task[k].pc \in Waiting \cup Writing \/ server[k].pc # "idle"
Quiet == \A k \in Tasks : ~Exchanging(k)

\* AuthScreen waits for its _submit: no other screen is over it.
Submitting == \E k \in Tasks : task[k].pc = "login"

\* Task k sends a request that changes its tokens and awaits the answer.
Send(k, request, token) ==
    /\ task' = [task EXCEPT ![k] = [Idle EXCEPT !.pc = request]]
    /\ server' = [server EXCEPT ![k] = [pc |-> request, token |-> token]]
    /\ overlapped' = (overlapped \/ \E j \in Tasks \ {k} : Exchanging(j))

-----------------------------------------------------------------------------
(***************************************************************************)
(* SessionStore.  Both methods change the memory at once, then await two   *)
(* writes.                                                                 *)
(***************************************************************************)
\* Mutant of Tokens: the new refresh token is not kept.
AccessOnly(p) == [access |-> p, refresh |-> memory.refresh]

Tokens(p) == [access |-> p, refresh |-> p]

\* setTokens; a task that has refreshed its tokens then repeats its request.
SetTokens(k, p, resend) ==
    /\ memory' = Tokens(p)
    /\ task' = [task EXCEPT ![k] = [pc |-> "saveAccess", pair |-> p, resend |-> resend]]

Clear(k) ==
    /\ memory' = Nothing
    /\ task' = [task EXCEPT ![k] = [Idle EXCEPT !.pc = "dropAccess"]]

WriteAccess(k) ==
    /\ task[k].pc \in {"saveAccess", "dropAccess"}
    /\ disk' = [disk EXCEPT !.access = task[k].pair]
    /\ task' = [task EXCEPT ![k].pc =
                   IF task[k].pc = "saveAccess" THEN "saveRefresh" ELSE "dropRefresh"]
    /\ UNCHANGED <<memory, server, tokens, history>>

\* The second attempt takes the access token that is in memory by then.
AfterWrite(k) ==
    IF task[k].resend THEN [pc |-> "call", pair |-> memory.access, resend |-> TRUE]
                      ELSE Idle

\* Mutant of WriteRefresh: the refresh token stays as it was.
SkipRefresh(k) ==
    /\ task[k].pc \in {"saveRefresh", "dropRefresh"}
    /\ task' = [task EXCEPT ![k] = AfterWrite(k)]
    /\ UNCHANGED <<memory, disk, server, tokens, history>>

WriteRefresh(k) ==
    /\ task[k].pc \in {"saveRefresh", "dropRefresh"}
    /\ disk' = [disk EXCEPT !.refresh = task[k].pair]
    /\ task' = [task EXCEPT ![k] = AfterWrite(k)]
    /\ UNCHANGED <<memory, server, tokens, history>>

-----------------------------------------------------------------------------
(***************************************************************************)
(* ApiClient._request with auth: true, and _refreshTokens.                 *)
(***************************************************************************)
\* A screen calls getMe, searchUsers, getHistory, sendMessage or
\* issueWsTicket.  A chat may still be open when the session is gone.
Call(k) ==
    /\ task[k].pc = "idle"
    /\ server[k].pc = "idle"
    /\ task' = [task EXCEPT ![k] = [Idle EXCEPT !.pc = "call", !.pair = memory.access]]
    /\ UNCHANGED <<memory, disk, server, tokens, history>>

\* It returns, or throws because of the network or of a status but 401.
CallEnds(k) ==
    /\ task[k].pc = "call"
    /\ task' = [task EXCEPT ![k] = Idle]
    /\ UNCHANGED <<memory, disk, server, tokens, history>>

\* RequireAuth: the token is missing or invalid.
Unauthorized(k) == task[k].pc = "call" /\ task[k].pair \in expired \cup {None}

\* On 401 the client refreshes with the refresh token of this moment; the
\* second attempt, and a client without one, give up.
CallRefreshes(k) ==
    /\ Unauthorized(k)
    /\ ~task[k].resend
    /\ memory.refresh # None
    /\ Send(k, "refresh", memory.refresh)
    /\ UNCHANGED <<memory, disk, tokens, signedIn, faulty>>

CallGivesUp(k) ==
    /\ Unauthorized(k)
    /\ task[k].resend \/ memory.refresh = None
    /\ task' = [task EXCEPT ![k] = Idle]
    /\ UNCHANGED <<memory, disk, server, tokens, history>>

\* Mutant of RefreshSucceeds: an answer without tokens is not told apart.
TakesAnyAnswer(k) ==
    /\ task[k].pc = "refresh"
    /\ server[k].pc \in {"ok", "error"}
    /\ SetTokens(k, server[k].token, TRUE)
    /\ server' = [server EXCEPT ![k] = NoCall]
    /\ UNCHANGED <<disk, tokens, history>>

RefreshSucceeds(k) ==
    /\ task[k].pc = "refresh"
    /\ server[k].pc = "ok"
    /\ SetTokens(k, server[k].token, TRUE)
    /\ server' = [server EXCEPT ![k] = NoCall]
    /\ UNCHANGED <<disk, tokens, history>>

\* _refreshTokens catches whatever is thrown: the server's refusal,
RefreshFails(k) ==
    /\ task[k].pc = "refresh"
    /\ server[k].pc = "error"
    /\ Clear(k)
    /\ server' = [server EXCEPT ![k] = NoCall]
    /\ UNCHANGED <<disk, tokens, history>>

\* and a failure of the connection, with the request still under way.
RefreshDisconnects(k) ==
    /\ task[k].pc = "refresh"
    /\ Clear(k)
    /\ faulty' = TRUE
    /\ UNCHANGED <<disk, server, tokens, signedIn, overlapped>>

-----------------------------------------------------------------------------
(***************************************************************************)
(* AuthScreen._submit, and the logout of ProfileScreen.                    *)
(***************************************************************************)
\* RootScreen shows AuthScreen, whose button is off until _submit ends.
Login(k) ==
    /\ task[k].pc = "idle"
    /\ server[k].pc = "idle"
    /\ ~isAuthorized
    /\ ~Submitting
    /\ Send(k, "login", None)
    /\ UNCHANGED <<memory, disk, tokens, signedIn, faulty>>

\* A new session: the exchanges that are over no longer matter to it.
LoginSucceeds(k) ==
    /\ task[k].pc = "login"
    /\ server[k].pc = "ok"
    /\ SetTokens(k, server[k].token, FALSE)
    /\ server' = [server EXCEPT ![k] = NoCall]
    /\ signedIn' = TRUE
    /\ overlapped' = (\E j \in Tasks \ {k} : Exchanging(j))
    /\ faulty' = FALSE
    /\ UNCHANGED <<disk, tokens>>

\* The exception is shown; the user may try again.
LoginFails(k) ==
    /\ task[k].pc = "login"
    /\ task' = [task EXCEPT ![k] = Idle]
    /\ \/ /\ server[k].pc = "error"
          /\ server' = [server EXCEPT ![k] = NoCall]
       \/ UNCHANGED server
    /\ UNCHANGED <<memory, disk, tokens, history>>

Logout(k) ==
    /\ task[k].pc = "idle"
    /\ server[k].pc = "idle"
    /\ memory.refresh # None
    /\ ~Submitting
    /\ Send(k, "logout", memory.refresh)
    /\ UNCHANGED <<memory, disk, tokens, signedIn, faulty>>

\* The profile may still be open when the session is gone: nothing is sent.
LogoutLocally(k) ==
    /\ task[k].pc = "idle"
    /\ memory.refresh = None
    /\ ~Submitting
    /\ Clear(k)
    /\ signedIn' = FALSE
    /\ overlapped' = (overlapped \/ \E j \in Tasks \ {k} : Exchanging(j))
    /\ UNCHANGED <<disk, server, tokens, faulty>>

\* Mutant of LogoutSucceeds: the tokens are only removed from memory.
ForgetsInMemory(k) ==
    /\ task[k].pc = "logout"
    /\ server[k].pc = "ok"
    /\ memory' = Nothing
    /\ task' = [task EXCEPT ![k] = Idle]
    /\ server' = [server EXCEPT ![k] = NoCall]
    /\ signedIn' = FALSE
    /\ UNCHANGED <<disk, tokens, overlapped, faulty>>

LogoutSucceeds(k) ==
    /\ task[k].pc = "logout"
    /\ server[k].pc = "ok"
    /\ Clear(k)
    /\ server' = [server EXCEPT ![k] = NoCall]
    /\ signedIn' = FALSE
    /\ UNCHANGED <<disk, tokens, overlapped, faulty>>

\* The exception is shown and the tokens stay, whether or not the server
\* has revoked them.
LogoutFails(k) ==
    /\ task[k].pc = "logout"
    /\ task' = [task EXCEPT ![k] = Idle]
    /\ \/ /\ server[k].pc = "error"
          /\ server' = [server EXCEPT ![k] = NoCall]
       \/ UNCHANGED server
    /\ faulty' = TRUE
    /\ UNCHANGED <<memory, disk, tokens, signedIn, overlapped>>

-----------------------------------------------------------------------------
(***************************************************************************)
(* The server.                                                             *)
(***************************************************************************)
Serve(k, pc, token) == server' = [server EXCEPT ![k] = [pc |-> pc, token |-> token]]

\* Refresh: SELECT ...
Validate(k) ==
    /\ server[k].pc = "refresh"
    /\ IF server[k].token \in live THEN Serve(k, "rotate", server[k].token)
                                   ELSE Serve(k, "error", None)
    /\ UNCHANGED <<memory, disk, task, tokens, history>>

\* ... UPDATE of the family, to which Logout goes straight ...
Revoke(k) ==
    /\ server[k].pc \in {"rotate", "logout"}
    /\ live' = live \ Family(server[k].token)
    /\ IF server[k].pc = "rotate" THEN Serve(k, "store", server[k].token)
                                  ELSE Serve(k, "ok", None)
    /\ UNCHANGED <<memory, disk, task, family, expired, history>>

\* ... and INSERT of the new token, where Login ends too.
Issue(k) ==
    /\ server[k].pc \in {"store", "login"}
    /\ \E p \in Pairs \ Issued :
           /\ family' = [q \in Issued \cup {p} |->
                            IF q \in Issued THEN family[q]
                            ELSE IF server[k].pc = "login" THEN p
                            ELSE family[server[k].token]]
           /\ live' = live \cup {p}
           /\ Serve(k, "ok", p)
    /\ UNCHANGED <<memory, disk, task, expired, history>>

\* Login refuses the credentials; or a statement, or its signing, fails.
ServerFails(k) ==
    /\ server[k].pc \in {"refresh", "rotate", "store", "login", "logout"}
    /\ Serve(k, "error", None)
    /\ faulty' = (faulty \/ server[k].pc # "login")
    /\ UNCHANGED <<memory, disk, task, tokens, signedIn, overlapped>>

\* Nobody waits for the answer any more.
Discard(k) ==
    /\ server[k].pc \in {"ok", "error"}
    /\ task[k].pc \notin Waiting
    /\ server' = [server EXCEPT ![k] = NoCall]
    /\ UNCHANGED <<memory, disk, task, tokens, history>>

\* The 15 minutes of an access token pass.
Expire ==
    /\ \E p \in Issued \ expired : expired' = expired \cup {p}
    /\ UNCHANGED <<memory, disk, task, server, family, live, history>>

\* The app is killed; main loads what SharedPreferences has.
Kill ==
    /\ memory' = disk
    /\ task' = [k \in Tasks |-> Idle]
    /\ faulty' = (faulty \/ ~Quiet)
    /\ UNCHANGED <<disk, server, tokens, signedIn, overlapped>>

-----------------------------------------------------------------------------
\* The app is installed.
Init ==
    /\ memory = Nothing
    /\ disk = Nothing
    /\ task = [k \in Tasks |-> Idle]
    /\ server = [k \in Tasks |-> NoCall]
    /\ family = [p \in {} |-> None]
    /\ live = {}
    /\ expired = {}
    /\ signedIn = FALSE
    /\ overlapped = FALSE
    /\ faulty = FALSE

Client(k) ==
    \/ Call(k)
    \/ CallEnds(k)
    \/ CallRefreshes(k)
    \/ CallGivesUp(k)
    \/ RefreshSucceeds(k)
    \/ RefreshFails(k)
    \/ RefreshDisconnects(k)
    \/ WriteAccess(k)
    \/ WriteRefresh(k)

User(k) ==
    \/ Login(k)
    \/ LoginSucceeds(k)
    \/ LoginFails(k)
    \/ Logout(k)
    \/ LogoutLocally(k)
    \/ LogoutSucceeds(k)
    \/ LogoutFails(k)

Server(k) ==
    \/ Validate(k)
    \/ Revoke(k)
    \/ Issue(k)
    \/ ServerFails(k)
    \/ Discard(k)

Next ==
    \/ \E k \in Tasks : Client(k) \/ User(k) \/ Server(k)
    \/ Expire
    \/ Kill

Spec == Init /\ [][Next]_vars

-----------------------------------------------------------------------------
(***************************************************************************)
(* Properties.                                                             *)
(***************************************************************************)
\* Every field holds a value of its type: only issued pairs are live, and a
\* task that saves tokens has a pair to save.
TypeOK ==
    /\ memory \in Store
    /\ disk \in Store
    /\ task \in [Tasks -> Task]
    /\ \A k \in Tasks : task[k].pc \in {"saveAccess", "saveRefresh"} => task[k].pair # None
    /\ server \in [Tasks -> Handler]
    /\ Issued \subseteq Pairs
    /\ family \in [Issued -> Issued]
    /\ live \subseteq Issued
    /\ expired \subseteq Issued
    /\ history \in BOOLEAN \X BOOLEAN \X BOOLEAN

\* As long as exchanges of tokens do not overlap and none is cut short, a
\* user who has logged in keeps a refresh token the server accepts, however
\* often access tokens expire, calls are answered late with 401 and the app
\* is killed: _request takes the token of the moment it refreshes, and
\* setTokens keeps the new one.
SessionSurvives ==
    signedIn /\ ~overlapped /\ ~faulty /\ Quiet => memory.refresh \in live

\* Under the same conditions the two writes of setTokens and clear leave in
\* SharedPreferences the very pair that is in memory: a restart changes
\* nothing.
DiskFollowsMemory ==
    ~overlapped /\ ~faulty /\ Quiet =>
        disk = memory /\ memory.access = memory.refresh

\* Under the same conditions a logout is final: until the next login no
\* task, late answer or restart brings a token back.
LogoutIsFinal ==
    ~signedIn /\ ~overlapped /\ ~faulty /\ Quiet => memory = Nothing /\ disk = Nothing

\* Under the same conditions no refresh is refused, so that _refreshTokens
\* never clears a session that could go on.
RefusalNeedsOverlap ==
    [][\A k \in Tasks : RefreshFails(k) => overlapped \/ faulty]_vars

\* What main.dart:1155 says of the silent refresh of a chat, that it must not
\* break the interface: a refresh that fails does not send a user back to
\* AuthScreen who is not logging out and whose session nothing has cut short.
\* Two tasks that are answered 401 refresh with the same token, and the one
\* that the server refuses clears a session that the other is renewing.
SilentRefreshKeepsSession ==
    [][\A k \in Tasks : RefreshFails(k) =>
           faulty \/ ~signedIn \/ ~isAuthorized \/ \E j \in Tasks : task[j].pc = "logout"]_vars
=============================================================================
