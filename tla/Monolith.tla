------------------------------ MODULE Monolith -------------------------------
(***************************************************************************)
(* The monolith (services/gateway/cmd/monolith/main.go): the servers of    *)
(* the auth, the user and the message service and the handlers of the      *)
(* gateway in one process, over one database.                              *)
(*                                                                         *)
(* Its servers are those of the services, line by line, except that they   *)
(* have a database handle from the start: a process that has none is not   *)
(* serving.  So the actions are those of AuthSessions and MessageStore,    *)
(* joined as the gateway joins them: a call of the message service is made *)
(* for the user of an access token, or of the WebSocket that a frame came  *)
(* over, and addresses a user that the user service has found.  They share *)
(* a clock, and one crash ends them all.                                   *)
(*                                                                         *)
(* Of a WebSocket only its user matters here: WsHub has the rest.          *)
(***************************************************************************)
EXTENDS AuthSessions, Sequences, FiniteSets, Functions

CONSTANTS
    Messages,    \* bound: the messages ever sent
    Senders,     \* bound: the clients that send
    Readers,     \* and those that fetch a conversation
    Keys,        \* the values ENCRYPTION_KEY takes over time
    Limits,      \* the page limits that clients ask for
    AccessTTL,   \* lifetime of an access token, in ticks of the clock
    TicketTTL,   \* and of a ticket for the WebSocket
    Matches      \* the names that match a name searched for

ASSUME MonolithAssumption ==
    /\ None \notin Messages \cup Keys
    /\ Senders \cap Readers = {}
    /\ IsFiniteSet(Senders \cup Readers)
    /\ Limits \subseteq Int
    /\ AccessTTL \in Nat /\ TicketTTL \in Nat

VARIABLES
    joined,                        \* the users by created_at, oldest first
    messages, rpc, key, walk,      \* those of MessageStore; rpc is its call
    before, selected,
    found,     \* the users that clients have found, to open a chat with
    tickets,   \* tickets[c] = [user, expires]: the ticket that sender c has
    socket,    \* socket[c]: the user of the WebSocket of sender c
    (***********************************************************************)
    (* History variables: no action's guard reads them.                    *)
    (***********************************************************************)
    chat,      \* chat[c]: the user that the message of sender c is meant for
    asked,     \* asked[h]: the token of the request to /auth/refresh h serves
    refused,   \* the tokens such a request was answered 401 for
    lastOpen   \* lastOpen[f]: when session f was last open

store    == <<messages, rpc, key, walk, before, selected>>
sockets  == <<tickets, socket>>
client   == <<found, chat, sockets>>
verdicts == <<asked, refused>>
mvars    == <<vars, joined, store, client, verdicts, lastOpen>>

Store == INSTANCE MessageStore WITH Users <- UserIds, call <- rpc

Directory == INSTANCE UserDirectory

Clients == Senders \cup Readers

NoTicket == [user |-> None, expires |-> 0]

-----------------------------------------------------------------------------
(***************************************************************************)
(* authServer.                                                             *)
(***************************************************************************)
\* Register: created_at is that of the INSERT.
ServeRegister(h) ==
    /\ \E n \in Usernames, p \in Phones, w \in Passwords : Register(h, n, p, w)
    /\ \/ users' = users /\ joined' = joined
       \/ \E u \in DOMAIN users' \ DOMAIN users : joined' = Append(joined, u)
    /\ UNCHANGED verdicts

ServeLogin(h) ==
    /\ \E n \in Usernames, w \in Passwords : Login(h, n, w)
    /\ UNCHANGED <<joined, verdicts>>

\* Mutant of ServeRefresh: the token is not looked up in the table.
RefreshByClaims(h) ==
    \/ \E t \in wallet :
           /\ ParseToken(h, t, "rotate")
           /\ UNCHANGED <<joined, verdicts>>
    \/ /\ RefreshRotate(h)
       /\ UNCHANGED <<joined, verdicts>>

ServeRefresh(h) ==
    \/ \E t \in wallet \cup {None} :
           /\ RefreshStart(h, t)
           /\ asked' = [asked EXCEPT ![h] = t]
           /\ UNCHANGED <<joined, refused>>
    \/ /\ RefreshSelect(h) \/ RefreshRotate(h)
       /\ UNCHANGED <<joined, verdicts>>

ServeLogout(h) ==
    /\ (\E t \in wallet \cup {None} : LogoutStart(h, t)) \/ LogoutRevoke(h)
    /\ UNCHANGED <<joined, verdicts>>

\* issueTokenPair and storeRefreshToken, for Login and for Refresh.
ServeTokens(h) ==
    /\ IssueTokenPair(h) \/ StoreRefreshToken(h)
    /\ UNCHANGED <<joined, verdicts>>

\* A missing field, and a statement that fails.
ServeError(h) ==
    /\ (dbReady /\ RejectEmpty(h)) \/ StatementFails(h)
    /\ UNCHANGED <<joined, verdicts>>

-----------------------------------------------------------------------------
(***************************************************************************)
(* The gateway.                                                            *)
(***************************************************************************)
\* Mutant of UpstreamStatus: whatever is not the client's fault is 401.
StatusByDefault(code) ==
    CASE code = "OK"              -> 200
      [] code = "InvalidArgument" -> 400
      [] code = "AlreadyExists"   -> 409
      [] OTHER                    -> 401

\* upstreamError.
UpstreamStatus(code) ==
    CASE code = "OK"              -> 200
      [] code = "InvalidArgument" -> 400
      [] code = "Unauthenticated" -> 401
      [] code = "AlreadyExists"   -> 409
      [] OTHER                    -> 502

\* The answer of a request to /auth reaches its client, or does not.
AnswerAuth(h) ==
    /\ Respond(h)
    /\ refused' = refused \cup
           (IF UpstreamStatus(call[h].code) = 401 THEN {asked[h]} \ {None} ELSE {})
    /\ asked' = [asked EXCEPT ![h] = None]
    /\ UNCHANGED joined

\* Mutant of AccessExpires: the access token is signed with the other TTL.
ExpiresWithRefresh(t) == jwt[t].exp

\* issueTokenPair signs both tokens of a pair at the same time.
AccessExpires(t) == jwt[t].exp - RefreshTTL + AccessTTL

\* RequireAuth: an access token is checked for its signature, type and age.
\* The database is not asked.
RequireAuth(t) == t \in wallet /\ now < AccessExpires(t)

\* A request to the user or the message service needs an access token.
Allowed == dbReady /\ \E t \in wallet : RequireAuth(t)

\* GET /users/search.
Found(n) == Directory!SearchUsers(n, 20)

SearchUsers(n) ==
    /\ Allowed
    /\ found' = found \cup Found(n)
    /\ UNCHANGED <<vars, joined, store, chat, sockets, verdicts>>

\* GET /users/me and /users/:id, for a user of a message that was fetched.
Met ==
    {jwt[t].user : t \in {s \in wallet : RequireAuth(s)}}
    \cup UNION {{messages[m].from, messages[m].to} :
                    m \in UNION {Range(walk[c].seen) : c \in Readers}}

GetUser(u) ==
    /\ Allowed
    /\ Directory!GetUser(u)
    /\ found' = found \cup {u}
    /\ UNCHANGED <<vars, joined, store, chat, sockets, verdicts>>

\* A request to the gateway is for the user of its access token, ...
Caller(u) == dbReady /\ \E t \in wallet : RequireAuth(t) /\ jwt[t].user = u

\* POST /auth/ws-ticket.  A client that asks again forgets its first ticket.
IssueWSTicket(c) ==
    /\ \E u \in DOMAIN users :
           /\ Caller(u)
           /\ tickets' = [tickets EXCEPT ![c] = [user |-> u, expires |-> now + TicketTTL]]
    /\ UNCHANGED <<vars, joined, store, found, chat, socket, verdicts>>

\* GET /ws spends the ticket; one that has not expired opens a socket, unless
\* the handshake fails.  The user of the socket is that of the ticket.  (A
\* sender has one socket at a time: another sender has another.)
ConnectWS(c) ==
    /\ tickets[c] # NoTicket /\ socket[c] = None
    /\ tickets' = [tickets EXCEPT ![c] = NoTicket]
    /\ \/ /\ now <= tickets[c].expires
          /\ socket' = [socket EXCEPT ![c] = tickets[c].user]
       \/ UNCHANGED socket
    /\ UNCHANGED <<vars, joined, store, found, chat, verdicts>>

\* ReadJSON fails: nothing else ends a socket but the end of the process.
DisconnectWS(c) ==
    /\ socket[c] # None
    /\ socket' = [socket EXCEPT ![c] = None]
    /\ UNCHANGED <<vars, joined, store, found, chat, tickets, verdicts>>

\* ... a frame is for the user of the socket: no token is asked for again.
Sends(c, u) == Caller(u) \/ socket[c] = u

-----------------------------------------------------------------------------
(***************************************************************************)
(* messageServer.                                                          *)
(***************************************************************************)
\* Mutant of Receivers: the receiver is searched for like a user.
ReceiversByPrefix(v) == Directory!SearchUsers(users[v].username, 1)

\* SendMessage, for a request or for a frame: a chat shows the name of its
\* user, and the receiver is the user of that name.
Receivers(v) == {u \in DOMAIN users : users[u].username = users[v].username}

\* deliverToOnlineRecipient: when the message came over the WebSocket, the
\* push goes to the first user found, if the name is the right one.
PushedTo(v) ==
    {u \in Directory!SearchUsers(users[v].username, 1) :
        users[u].username = users[v].username}

SendMessage(c) ==
    /\ \E u \in DOMAIN users, v \in found :
           /\ Sends(c, u)
           /\ \E w \in Receivers(v) : Store!SendMessage(c, u, w)
           /\ chat' = [chat EXCEPT ![c] = v]
    /\ UNCHANGED <<vars, joined, found, sockets, verdicts>>

InsertMessage(c) ==
    /\ Store!InsertCommits(c) \/ Store!InsertFails(c)
    /\ UNCHANGED <<vars, joined, client, verdicts>>

\* GetHistory: a conversation is fetched by the id of the other user.
SelectHistory(c, u, n) ==
    \/ \E v \in found : Store!FirstPage(c, u, v, n)
    \/ walk[c].user = u /\ Store!NextPage(c, n)

GetHistory(c) ==
    /\ \E u \in DOMAIN users, n \in Limits : Caller(u) /\ SelectHistory(c, u, n)
    /\ UNCHANGED <<vars, joined, client, verdicts>>

MarkDelivered(c) ==
    /\ Store!MarkDelivered(c)
    /\ UNCHANGED <<vars, joined, client, verdicts>>

\* A missing field, a receiver not found, a SELECT that fails.
RefuseMessage(c) ==
    /\ Allowed \/ (c \in Senders /\ socket[c] # None)
    /\ Store!Refuse(c)
    /\ UNCHANGED <<vars, joined, client, verdicts>>

\* The answer reaches the client or does not.
AnswerMessage(c) ==
    /\ Store!Respond(c)
    /\ chat' = [chat EXCEPT ![c] = None]
    /\ UNCHANGED <<vars, joined, found, sockets, verdicts>>

-----------------------------------------------------------------------------
(***************************************************************************)
(* The process.                                                            *)
(***************************************************************************)
\* Main has the handle and the schema before it opens a port.
Boot ==
    /\ ConnectDB
    /\ UNCHANGED <<joined, store, client, verdicts>>

\* The tickets and the sockets are those of the process.
SocketsEnd ==
    /\ tickets' = [c \in Senders |-> NoTicket]
    /\ socket' = [c \in Senders |-> None]

\* Mutant of CrashAll: the database of the container goes with it.
CrashWithData ==
    /\ Crash
    /\ messages' = [m \in {} |-> None]
    /\ rpc' = [c \in Clients |-> Store!Idle]
    /\ chat' = [c \in Clients |-> None]
    /\ SocketsEnd
    /\ asked' = [h \in Handlers |-> None]
    /\ UNCHANGED <<joined, key, walk, before, selected, found, refused>>

CrashAll ==
    /\ Crash
    /\ Store!Restart
    /\ chat' = [c \in Clients |-> None]
    /\ SocketsEnd
    /\ asked' = [h \in Handlers |-> None]
    /\ UNCHANGED <<joined, found, refused>>

Clock ==
    /\ Tick
    /\ Store!Tick
    /\ UNCHANGED <<joined, client, verdicts>>

-----------------------------------------------------------------------------
MonolithInit ==
    /\ Init
    /\ Store!Init
    /\ joined = <<>>
    /\ chat = [c \in Clients |-> None]
    /\ found = {}
    /\ tickets = [c \in Senders |-> NoTicket]
    /\ socket = [c \in Senders |-> None]
    /\ asked = [h \in Handlers |-> None]
    /\ refused = {}
    /\ lastOpen = [f \in Families |-> 0]

ServeAuth(h) ==
    /\ \/ ServeRegister(h)
       \/ ServeLogin(h)
       \/ ServeRefresh(h)
       \/ ServeLogout(h)
       \/ ServeTokens(h)
       \/ ServeError(h)
       \/ AnswerAuth(h)
    /\ UNCHANGED <<store, client>>

MonolithNext ==
    /\ \/ \E h \in Handlers : ServeAuth(h)
       \/ \E n \in Usernames : SearchUsers(n)
       \/ \E u \in Met : GetUser(u)
       \/ \E c \in Senders : SendMessage(c) \/ InsertMessage(c)
       \/ \E c \in Senders : IssueWSTicket(c) \/ ConnectWS(c) \/ DisconnectWS(c)
       \/ \E c \in Readers : GetHistory(c) \/ MarkDelivered(c)
       \/ \E c \in Clients : RefuseMessage(c) \/ AnswerMessage(c)
       \/ Boot
       \/ CrashAll
       \/ Clock
    /\ lastOpen' = [f \in Families |-> IF Open(f)' THEN now' ELSE lastOpen[f]]

MonolithSpec == MonolithInit /\ [][MonolithNext]_mvars

-----------------------------------------------------------------------------
(***************************************************************************)
(* Properties.  All of those of AuthSessions and MessageStore hold of the  *)
(* monolith, because it implements both.                                   *)
(***************************************************************************)
\* The auth server behaves as the auth service: sharing a process and a
\* clock with the others lets it do nothing new.
ImplementsAuth == Spec

\* The message server behaves as the message service.
ImplementsStore == Store!Spec

\* The gateway asks nobody whether a session has been revoked.  Yet a request
\* reaches the message service only for a user with a session that was open
\* less than AccessTTL ago, and a WebSocket opens only for one with a session
\* open less than AccessTTL + TicketTTL ago.  Without such a session a call is
\* for the user of a socket that is open, which may be so for any time after.
OpenWithin(u, ttl) == \E f \in Families : owners[f] = {u} /\ now < lastOpen[f] + ttl

AccessEndsWithSession ==
    [][/\ \A c \in Clients : (rpc[c].user = None /\ rpc'[c].user # None) =>
              \/ OpenWithin(rpc'[c].user, AccessTTL)
              \/ c \in Senders /\ socket[c] = rpc'[c].user
       /\ \A c \in Senders : (socket[c] = None /\ socket'[c] # None) =>
              OpenWithin(socket'[c], AccessTTL + TicketTTL)]_mvars

\* A client may forget a token that it was answered 401 for, as the mobile
\* client does: no failure, overlap or restart is reported as 401, and the
\* token is never accepted again.
UnauthorizedIsFinal ==
    \A t \in refused : ~(t \in Stored /\ Live(t) /\ Parses(t))

\* Users are found by id, messages are sent to a name, and pushes go to the
\* first user whose name begins with it: a message is still stored for the
\* user it was meant for, and pushed to nobody else.
MessageGoesToItsUser ==
    \A c \in Senders : chat[c] # None =>
        /\ rpc[c].pc = "insert" => rpc[c].peer = chat[c]
        /\ PushedTo(chat[c]) \subseteq {chat[c]}

\* What a client has fetched was sent by or to the user it fetched it for,
\* who has had a session: nobody else reads a conversation.
ReadersTakePart ==
    \A c \in Readers : \A m \in Range(walk[c].seen) :
        /\ walk[c].user \in {messages[m].from, messages[m].to}
        /\ \E f \in Families : owners[f] = {walk[c].user}
=============================================================================
