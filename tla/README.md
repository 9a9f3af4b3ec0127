# Verification of the messenger

TLA+ models of the messenger in this repository, the TLC runs that check them on
small instances, and proofs, checked by TLAPS, that hold for every instance.

The sources are `services/auth`, `services/user`, `services/message`,
`services/gateway` (Go) and `mobile/vual_mobile` (Flutter). The models are
translated from the code. `docs/roadmap.md` and comments are used only as the origin
of statements that the code does not keep (the runs marked *violation*).

## 1. Inventory

| Component | State | Operations | What makes it correct |
|---|---|---|---|
| auth service (`services/auth/main.go`) | tables `users`, `refresh_tokens`; the database handle | Register, Login, Refresh, Logout; connecting to the database | a session belongs to one user; a rotated token is spent; a closed session stays closed; a session is not lost by a race |
| WebSocket hub (`gateway/handler/ws.go`) | maps `tickets`, `online`; one goroutine and one write mutex per connection | issue a ticket, connect, read a frame, acknowledge, push, disconnect | a ticket admits once; the map leads to running connections; pushes are stored, addressed and ordered; nobody blocks forever |
| message service (`services/message/main.go`) | table `messages`; the encryption key | SendMessage, GetHistory | pages neither repeat nor lose messages, and keep their order; `is_delivered` means what it says |
| user service (`services/user/main.go`) | none (reads `users`) | GetMe, GetUser, SearchUsers | a user found by id or prefix is the one that messages and pushes reach |
| REST handlers and middleware (`gateway/handler`) | none | check the access token, validate, call one service within 3 s, map the code | 401 is said only of a token that will never be accepted again; requests end a known time after the session |
| mobile session and API client (`main.dart`, `SessionStore`, `ApiClient`) | two tokens, in memory and on disk | request, refresh on 401, login, logout | concurrent requests do not destroy a session; what is on disk can be used |
| mobile chat screen (`main.dart`, `ChatScreen`) | message list, socket, two timers | connect, reconnect, push, poll, send | the list converges to the history; one socket at a time |
| start-up (`main` of each service, `docker-compose.yml`, `railway.toml`) | which processes are up; which tables exist | connect, create the schema, dial, exit, restart | from any order of starts and faults the system comes up; who is ready has its tables |
| monolith launcher (`gateway/cmd/monolith/main.go`) | all of the above in one process | those of the services | it implements the services, and their tables fit together |

Interactions: the mobile client talks REST and WebSocket to the gateway; the
gateway calls the three services over gRPC, with a timeout of two or three
seconds that the services do not notice (they ignore their context); the
services share one PostgreSQL database and never open a transaction that spans
two statements. The hub calls the message service, then the user service, then
writes to another connection's socket. The mobile client sends its messages by
REST and uses the socket to receive; it asks for history every three seconds as well.

What is hard to test: two calls that interleave between their SQL statements; a
call that takes effect and is reported as failed; a process that dies between two
statements; a connection that is replaced while another goroutine holds a
pointer to it; rows that become visible in another order than their stamps;
writes that block; two requests of the app that find the same token expired;
pages and pushes that arrive in any order. `PROJECT.json`, "hazards", lists these at their lines, with
the properties that watch them.

## 2. Modules

| Module | Models | Checked by |
|---|---|---|
| `SessionLifecycle` | what the auth service promises about a session: unused, open for one user, closed for good | `ImplementsLifecycle` |
| `AuthSessions` | the auth service | `MCAuthSessions` |
| `AuthSessionsProofs` | theorems about `AuthSessions` | tlapm |
| `WsHub` | the WebSocket hub, with the services and peers around it | `MCWsHub` |
| `WsHubProofs` | theorems about `WsHub` | tlapm |
| `MessageStore` | the message service and clients that fetch conversations | `MCMessageStore` |
| `MessageStoreProofs` | theorems about `MessageStore` | tlapm |
| `MobileSession` | tokens of the mobile client: `SessionStore`, `ApiClient`, login and logout | `MCMobileSession` |
| `MobileSessionProofs` | theorems about `MobileSession` | tlapm |
| `ChatScreen` | an open chat of the mobile client | `MCChatScreen` |
| `ChatScreenProofs` | theorems about `ChatScreen` | tlapm |
| `UserDirectory` | the queries of the user service, over the table that auth writes | through `Monolith` |
| `Deployment` | the main functions, the database, Docker Compose, Railway | `MCDeployment` |
| `DeploymentProofs` | theorems about `Deployment` | tlapm |
| `Monolith` | the composition: `AuthSessions`, `MessageStore` and `UserDirectory` behind the gateway's REST handlers and WebSocket, in one process | `MCMonolith` |
| `MonolithProofs` | theorems about `Monolith`; extends `AuthSessionsProofs`, instantiates `MessageStoreProofs` | tlapm |

Definitions labelled "Mutant of X" are not part of any specification: each is
the definition X with a plausible mistake in it, kept to show that a property
notices the mistake.

### AuthSessions

A handler is a record `call[h]` whose `pc` names the statement it is about to
run. `Register` and the SELECT of `Login` are single steps; `Refresh` is
`RefreshStart` (parse the token), `RefreshSelect`, `RefreshRotate` (the UPDATE of
`revokeFamily`), `IssueTokenPair` and `StoreRefreshToken` (the INSERT), in the
order of the code; `Logout` is `LogoutStart`, `LogoutRevoke`. Parsing and
signing read the clock, so they are steps as well. Every statement has three
outcomes: it succeeds, fails without effect (`StatementFails`, `RegisterFails`),
or takes effect and is reported as failed. `Respond` delivers the answer or
loses it. `Crash` forgets the handlers and the database handle; `ConnectDB` is
the loop of `main` that publishes the handle.

Abstracted: a token is a value that never repeats (it has a `jti`), its hash is
the value itself, a password hash is the password; `revoked_at` is a Boolean; the
clocks of the service and of the database agree. Presented tokens are the
ones that clients have received, or `None` for any other string. `origin`,
`loggedOut` and `interrupted` are history variables: no guard reads them.

### WsHub

`conn[c].pc` is where the goroutine of request `c` is. Each access to one of the
two maps is made under its mutex and is one step; what a goroutine does between
two accesses belongs to one of them. `RedeemTicket` is the locked block of
`connectWS`; `Upgrade`, `Register` follow; `ReadMessage` ... `WriteAck` are the
loop; `SearchRecipient`, `FindRecipient`, `Push` are
`deliverToOnlineRecipient`; `Disconnect` is the deferred function. `unread[c]`
counts frames between `WriteJSON` and the peer: at `Buffer` a write waits, with
the mutex of the connection held, since no deadline is set. A write to a
connection that is gone returns and is lost. The message service stores a
message at any time (`StoreMessage`), also after the hub has given up; the
search returns the addressee, somebody else, nobody or an error. `Restart`
empties the maps and ends all connections.

### MessageStore

A row is stamped when its INSERT begins (`SendMessage`) and visible when it
commits (`InsertCommits`). `SelectPage` is the SELECT of `GetHistory` with its
cursor, its order (which leaves ties open) and its limit, and the decryption of
the rows; `MarkDelivered` is the UPDATE that follows and whose failure is
ignored. A reader opens a conversation (`FirstPage`) and follows the cursors of
the responses it gets (`NextPage`) until a page is empty. `Restart` may bring
another key; `key` in a row says which key encrypts it, which the table does
not (its `key_id` is always 1). Abstracted: error codes, and text.

### MobileSession

Dart runs one callback at a time, so everything between two `await`s is one
step. `task[k].pc` says what call `k` of `ApiClient` awaits: the answer to an
authorized request (`call`), to `/refresh`, `/login`, `/logout`, or one of the two
writes of `setTokens` (`saveAccess`, `saveRefresh`) or `clear` (`dropAccess`,
`dropRefresh`), which have changed the memory before the first. On a 401
`CallRefreshes` takes the refresh token that is in memory at that moment; the second
attempt never refreshes. `server[k]` executes the last request of `k`, statement
by statement as `AuthSessions` does, and goes on when the client has given the
request up (`RefreshDisconnects`, `LoginFails`, `LogoutFails`, `Kill`).
`RequireAuth` only looks at the expiry of the access token, and `/logout` is not
behind it.

Abstracted: a pair of tokens is one value, of which the access and the refresh
token may be held apart (as after a kill between two writes); what a request
returns. Screens are not modelled: any screen may call at any time, also one
that is still open when the session is gone. Refresh tokens do not expire here
(they do in `AuthSessions`). `signedIn`, `overlapped` and `faulty` are
history variables; an *exchange* is a login, refresh or logout, from its request to
its last write, on the client and on the server.

### ChatScreen

`request[r]` is a call of `getHistory`: from `_loadHistory` of `initState`
("open") or of `_send` ("sent"), or from the poll timer ("poll"). `Select` is the
moment the server reads the page, `Show` the moment the screen takes it, after
`onHistoryUpdated`; several requests may be under way. `connecting` is
`_wsConnecting` with the answer `_connectWs` awaits; `timer` is
`_reconnectTimer`; `SocketEnds` is `onError` or `onDone`; `Receive` is
`_handleWsEvent`. `Dispose` cancels the timers and closes the socket, whose
`onDone` comes later. The server stores messages in one order and pushes each
at most once, after storing it (`WsHub` checks that). Not modelled: delays, the
recent chats, the delivered marks of the messages shown.

### UserDirectory

`SearchUsers` is the prefix search with its order (newest first) and limit;
`GetUser` finds an id. Which names match which (`ILIKE name || '%'`) is the
constant `Matches`. The service changes nothing, so the module has no actions:
`Monolith` uses its operators.

### Deployment

`stage[p]` is how far `main` of process `p` has come: `connecting` (sqlx.Connect),
`schema` (CREATE TABLE IF NOT EXISTS), the three blocking dials of the gateway,
`serving`, `exited`. `log.Fatal` is the step to `exited`; auth alone goes back to
`connecting` instead, because its loop tries for ever. `Listening` says who accepts
connections: auth does before it has a database, the others when they
serve. `messages` refers to `users`, so the message service fails until auth
has created its tables; two processes that run the DDL at once may make one of
them fail (the extension is not created atomically). `MayStart` is the
platform: Compose restarts without limit and orders the first start only,
Railway restarts `MaxRetries` times in no order. Processes crash at any
stage and the database goes away and comes back, `MaxFaults` times in all.
Which deployment it is, and whose environment is wrong, is chosen at the start.

### Monolith

The monolith runs the servers of the services, copied line by line, in one
process. So `Monolith` extends `AuthSessions`, instantiates `MessageStore` (whose
calls are `rpc` here) and `UserDirectory`, and joins their actions:

- `Serve...` are the actions of auth behind `/v1/auth`, `AnswerAuth` the answer
  with the status code of `upstreamError`;
- `RequireAuth` is the middleware: an access token counts as long as it is
  not expired, and nobody asks the database. An access token belongs to the refresh token
  that it was signed with, so its age is that of its pair;
- `SearchUsers` and `GetUser` extend `found`, the users a client can open a
  chat with; `SendMessage` takes the sender from an access token or from a
  WebSocket (`Sends`) and resolves the receiver by name; `GetHistory` takes the caller
  from an access token and the id of the other user;
- `IssueWSTicket` gives a caller a ticket, `ConnectWS` spends it and opens a
  socket for the user of the ticket, `DisconnectWS` is the end of its goroutine.
  A frame on a socket is for its user, and no token or session is looked at
  again (ws.go:119-138). How tickets race and how connections are
  replaced and written to is in `WsHub`; here a sender has one ticket and one socket
  at a time, and what counts is whom it may send for;
- `CrashAll` ends everything at once, and the tables stay; `Clock` is the one clock.

What `AccessEndsWithSession` says: a *request* to the message service is for a user who
had a session open less than `AccessTTL` ago; a *socket* opens only for a user who had
one open less than `AccessTTL + TicketTTL` ago; and a call without such a session is for the
user of an open socket. It does not bound how long that socket lives, because the
code does not: after a logout, an open socket goes on sending for its user until the
client, the network or the process ends it. No document of the repository says that it should not.

`chat`, `asked`, `refused` and `lastOpen` are history variables. The push of a
message that came over the WebSocket goes to the first user the prefix search finds, if the name
is the right one (`PushedTo`). A newer user whose name begins with the receiver's
hides him there: he gets the message with his next poll only, which nothing in the
repository contradicts, so no property is about it.

## 3. Runs

All bounds are constants of the modules, marked "bound" where they are declared.

| Run | Bounds | Shows |
|---|---|---|
| `auth_rotation` | 2 handlers, 2 families, 3 tokens, the clock passes an expiry | TypeOK; a token's predecessor is spent (`ExchangedTokensAreSpent`); double successors need overlapping refreshes (`RotationsRaceOnlyWhenTheyOverlap`); races do not lose the session (`SessionStaysUsable`); the service implements `SessionLifecycle` |
| `auth_logout` (violation) | 2 handlers | roadmap 4.1, logout: a refresh that overlaps a logout keeps the session alive |
| `hub_safety` | 2 connections of 1 or 2 users, 2 tickets, 2 messages, buffers of 1, the clock passes an expiry | TypeOK, `TicketAdmitsOnce`, `OnlineIsServed`, `UnlistedOnlyIfReplaced`, `PushesFollowHistory`, `PushedIsStoredAndAddressed` |
| `hub_liveness` | 2 connections, 1 message, no symmetry | `GoroutinesComeBack` |
| `hub_reconnect` (violation) | 2 connections of one user | roadmap 4.2/4.3: a connected user is not in the map |
| `store_pages` | 2 senders, 2 messages, 2 stamps, pages of 1 and 50, 2 keys | TypeOK, `WalkMissesOnlyTies`, `WalkNeverRepeats`, `WalkKeepsSendOrder` |
| `store_fetched` (violation) | 2 messages | roadmap 6: a message is marked as delivered that was not read for its receiver |
| `mobile_session` | 2 tasks, 3 pairs of tokens: two exchanges after a login, or two logins | TypeOK; exchanges that do not overlap keep the session (`SessionSurvives`), on disk too (`DiskFollowsMemory`), until a logout ends it (`LogoutIsFinal`), and are never refused (`RefusalNeedsOverlap`) |
| `mobile_silent` (violation) | 2 tasks, 2 pairs | main.dart:1155: two tasks refresh with one token, and the refused one clears the session |
| `chat` | 3 messages (of the peer, the user, another chat), pages of 1, 2 requests, 2 sockets | TypeOK, `PageThenPushes`, `KeepsReconnecting`, `ScreenLeavesNothing`, `ListConverges` |
| `deployment` | all three deployments, every set of wrong environments, 2 restarts on Railway, 2 faults | TypeOK; who is ready finds its tables (`ReadyFindsItsTables`); in the end every process serves, or has a reason not to (`ComesUp`) |
| `monolith` | 2 users of whom one's name begins with the other's, 2 sessions and tokens, 1 message; `Bounds` (below) | the refinements `ImplementsAuth` and `ImplementsStore`; `SessionsBelongToTheirUser`, `UnauthorizedIsFinal`, `MessageGoesToItsUser`, `ReadersTakePart`, `AccessEndsWithSession` |

Why the bounds are enough: a hazard here needs two calls on one session, one
connection replaced by another while it is written to (a user may write to himself), two
messages on two pages of which the older becomes visible last, two requests of
the app under way at once, a page that is late by one message. A page of one message
makes every second message fall off it. What is left of a session in the monolith when its access token is checked needs one
more tick than the lifetime of that token. Two clock values distinguish before and after an expiry, and
equal from different stamps. No safety result rests on its bounds: all
invariants and both refinements are proved (section 5). Symmetry is used in safety runs only; the sets are
interchangeable in all of them.

`MCMonolith` adds a constraint, `Bounds`: one call in progress (auth's or the message
service's) while another begins, one user found, walks that have not ended, one token refused or session
logged out, no session cut off; while a client has a ticket or a socket, nothing is
fetched and no token has been refused (sockets only send). A ticket lives for no longer than a tick
(`TicketTTL = 0`; it is a minute, an access token fifteen), so that one issued before a session ended is
refused after the next tick; a socket that was opened before then still sends. Calls that overlap within one service are the subject of
`auth_rotation` and `store_pages`, and what those runs show carries over: the
monolith implements both modules, which section 5 proves without any bound.

`CHECK_DEADLOCK FALSE` is set for the hub because its connections, tickets and
messages are used up and a gateway without clients stops, and for the chat,
whose screen stops when it is closed. The other modules can
always accept another call or restart.

## 4. Fairness

`WsHub!FairSpec` assumes, for each connection, strong fairness of what its
goroutine does by itself (`Handle`) and weak fairness of its peer's reads.
Goroutines are scheduled, and both service calls have a timeout (ws.go:133,
159), so a step that stays possible is taken. Strong fairness matters for writes
alone: the room in a buffer can be taken by another goroutine's frame, but the
writers of a connection queue at its `sync.Mutex`, which serves a waiter that has
starved. That a connected peer reads is an assumption about clients, not a
guarantee of the code: no write deadline is set, and without the assumption
`GoroutinesComeBack` fails. Clients are not assumed to send, nor to leave.

`ChatScreen!FairSpec` assumes strong fairness of a poll, of the server's reading of
a page and of its arrival: the timer is periodic and never cancelled while the
screen is open, and the network does not fail forever. Strong, because an error
may end any single request. Nothing is assumed of sends, pushes or the
socket: the list converges by polling alone.

`Deployment!FairSpec` assumes weak fairness of each main function (its process
is scheduled and its platform restarts it as often as it may) and of the
database's return, and strong fairness of the two DDL scripts that compete when auth and
message start at once: the race is not lost for ever, since a failed script
waits for a new connection or a restart. Faults are not assumed to happen and are
limited. `ComesUp` excepts a process that is misconfigured, has used up its
restarts, or depends on such a one.

## 5. Proofs

`AuthSessionsProofs` proves, for any sets of users, families, tokens and handlers
and any expiry, from `NoneAssumption` and `TimeAssumption` alone:

| Theorem | States |
|---|---|
| `TypeCorrect` | `Spec => []TypeOK` |
| `OneUserPerSession` | `Spec => []SessionsBelongToTheirUser` |
| `RotationSpendsTokens` | `Spec => []ExchangedTokensAreSpent` |
| `RacesNeedOverlap` | `Spec => []RotationsRaceOnlyWhenTheyOverlap` |
| `RotationKeepsSessions` | `Spec => []SessionStaysUsable` |
| `SessionsFollowLifecycle` | `Spec => ImplementsLifecycle`, the refinement |

The argument. None of the properties is inductive: each speaks of the tables,
while a handler carries what it has read from one step to the next.

1. `TypeInv` adds to `TypeOK` what a handler at each `pc` holds (`HandlersOK`):
   past the parsing, a user and a family; at `store`, a token issued and not yet
   stored, held by no other handler.
2. `StepsAreQuietOrWrite` summarises the actions: a step either writes one of
   the tables or the set of claims in one of a few ways (`Revoking`, `Signing`,
   `Storing`), or leaves them alone. Later inductions have these few cases instead of one per action.
3. `SessionInv` ties claims, rows and handlers of a family to one user; it needs
   that a login's family is fresh.
4. `SpentInv` says, of a handler that owes a token, that the one it was given is
   stored and revoked: the UPDATE runs before the token is signed.
5. `OverlapInv` dates each call by the tokens stored when it began.
6. `FullInv` is their conjunction; `Invariance` proves it of `Spec`.
7. For the refinement, a family is open while a token of it is live or a refresh
   that has seen one is under way. That nothing reopens a family follows from
   `FullInv`: a refresh passes its SELECT only with a live token, and a login
   uses a family nobody has.

`DeploymentProofs` proves, for any number of restarts and faults, from the two
assumptions of `Deployment`:

| Theorem | States |
|---|---|
| `TypeCorrect` | `Spec => []TypeOK` |
| `ReadyIsServable` | `Spec => []ReadyFindsItsTables` |

The invariant (`TablesInv`) says which tables a stage implies: auth makes its two at
once, a serving message service, which needs `users`, has made the third after them, and a gateway past
its last dial has found the message service serving. Tables are never dropped,
so they are still there when that service has crashed since; a step that leaves the tables
alone keeps the invariant if nobody begins to serve (`TablesKept`).

`MonolithProofs` proves, for any numbers of users, clients, calls and messages and
any lifetimes of the two kinds of token:

| Theorem | States |
|---|---|
| `AuthImplemented` | `MonolithSpec => ImplementsAuth` |
| `StoreImplemented` | `MonolithSpec => ImplementsStore` |
| `MonolithOneUserPerSession` | `MonolithSpec => []SessionsBelongToTheirUser` |
| `RefusalsAreFinal` | `MonolithSpec => []UnauthorizedIsFinal` |
| `NoMessageStrays` | `MonolithSpec => []MessageGoesToItsUser` |
| `AccessIsBounded` | `MonolithSpec => AccessEndsWithSession` |

1. Every step of the monolith is a step of `AuthSessions` or leaves its
   variables alone (`AuthStep`), so `FullInv` and all theorems above hold of it.
2. Callers and receivers are users of the table: `FoundInv`, since users are found
   there and never deleted. With it, every step is one of `MessageStore` or a stutter.
3. `TablesGrow`: rows are never deleted and only ever revoked, claims never
   change, the clock advances. So a token that is not accepted stays so, and
   `VerdictInv` follows it from the SELECT that refuses it to the answer of the gateway.
4. `AddressInv` carries the receiver from the name a chat shows to the INSERT;
   it needs that names are unique (`NamesUnique`, from the guard of `Register`).
5. `AgeInv` dates a refresh token by the last time its family was open: it is
   signed before it is stored, and live when it is stored. `TicketInv` dates a ticket by a
   token that was valid when it was issued (`TokensAreRecent` serves both); a socket takes its user from its
   ticket, and a call its user from a token or a socket (`CallsAreOfCallers`). Of a
   socket that is open nothing more is proved than whose it is.
6. `MonolithPages`: the instance of `MessageStoreProofs` has the calls of the monolith
   for its own, so what it proves holds of every step that `StoreImplemented` maps to it.
7. `ReaderInv` dates back to `RequireAuth`: a walk is for the user of a claim, and the
   WHERE clause of `GetHistory` names that user. From it, `OnlyPartiesRead`
   (`ReadersTakePart`).

`WsHubProofs` proves, for any numbers of users, connections, tickets and messages, any
lifetime of a ticket and any size of the buffers, from `HubNoneAssumption` and
`HubNumbersAssumption`:

| Theorem | States |
|---|---|
| `HubTypeCorrect` | `Spec => []TypeOK` |
| `MapLeadsToServed` | `Spec => []OnlineIsServed` |
| `OnlyReplacementUnlists` | `Spec => []UnlistedOnlyIfReplaced` |
| `TicketsAreSpent` | `Spec => []TicketAdmitsOnce` |
| `PushesAreOfTheHistory` | `Spec => []PushedIsStoredAndAddressed` |
| `PushesKeepOrder` | `Spec => []PushesFollowHistory` |

1. `GoroutineInv` says what a goroutine knows at each step (`Knows`): its user, whose
   frame it handles, that the frame is stored once it was told so, and that the connection
   it is about to write to is the receiver's. That last fact was read under the
   mutex of the map and is used after it; it stays true because the user of a connection never changes.
2. With it the map is right (`OnlineIsServed`). Who is served and not in the map has
   met another connection of its user: of two served ones, each has met one (`MetInv`).
3. A ticket has let in nobody, or one connection and is spent (`TicketInv`).
4. `OrderInv`: what a goroutine's connection has had pushed precedes its frame in the history,
   wherever that frame will be stored. A goroutine handles one frame at a time.

`MessageStoreProofs` proves, for any sets of users, messages and keys, any page
limits and any finite number of calls, from the four assumptions of `MessageStore`
(`StoreFiniteAssumption` says that the clients are finitely many, so that the table is
finite at any time and the newest rows of it exist):

| Theorem | States |
|---|---|
| `StoreTypeCorrect` | `Spec => []TypeOK` |
| `PagesNeverRepeat` | `Spec => []WalkNeverRepeats` |
| `PagesMissOnlyTies` | `Spec => []WalkMissesOnlyTies` |
| `PagesKeepSendOrder` | `Spec => []WalkKeepsSendOrder` |

1. `WalkInv` relates a walk to the page that the next response brings: what was seen is
   sorted and ends at the cursor (`WalkOK`); the rows that a call has read are older than
   the cursor, sorted, and leave out nothing that is newer than the last of them
   (`PageOK`). Rows appear between a SELECT and its response, so the facts about them are
   kept under a growing table (`RowsStep`).
2. A message of the conversation that was there at the start is seen, ties with the end of a page, or is
   still ahead of the cursor (`Covered`). An empty page leaves nothing ahead.
3. `BeforeInv`: a row that was visible when an INSERT began is not stamped later than it. With the
   order of the stamps this is the order of sending.

`MobileSessionProofs` proves, for any numbers of tasks and of pairs of tokens, from
`MobileNoneAssumption`:

| Theorem | States |
|---|---|
| `MobileTypeCorrect` | `Spec => []TypeOK` |
| `SessionsSurvive` | `Spec => []SessionSurvives` |
| `DiskIsMemory` | `Spec => []DiskFollowsMemory` |
| `LogoutsAreFinal` | `Spec => []LogoutIsFinal` |
| `RefusalsNeedOverlap` | `Spec => RefusalNeedsOverlap` |

1. `TypeInv` adds to `TypeOK` where the server may be in the request a task awaits (`Serves`) and
   that every pair in use was issued. `StepMoves` summarises the client's actions:
   they pass on pairs they have.
2. A login forgives all that went wrong before it, so its invariant has to hold of states
   in which anything may have happened: the pair of a login that is answered is live, alone in its family and
   known to nobody else (`FreshInv`). No handler that is still under way can revoke it.
3. `CalmInv`: as long as nothing overlaps and nothing fails, at most one task is in an
   exchange, and what memory, disk and server have of its tokens follows from the phase it is in
   (`Phase`: refreshing, logging in or out, saving, dropping, or a login that was given up). When
   no task is, memory and disk agree on a live pair, or on none (`Settled`).

`ChatScreenProofs` proves, for any sets of messages, requests and sockets and any
page size, from `ChatMessagesAssumption`:

| Theorem | States |
|---|---|
| `ChatTypeCorrect` | `Spec => []TypeOK` |
| `ScreenReconnects` | `Spec => []KeepsReconnecting` |
| `DisposeIsFinal` | `Spec => []ScreenLeavesNothing` |
| `ListIsPageThenPushes` | `Spec => []PageThenPushes` |

1. `LinkInv`: the socket in `_ws` is the only open one, nothing is being connected while
   there is one, and a timer is set only on an open screen. The handlers of a socket
   reset `_ws` without a look at which socket ended; that does no harm, because on an open
   screen no socket but `_ws` can end.
2. `PagesInv`: a page that travels was the history at some time; the history only grows, so it
   remains a page of a prefix of it.
3. `FramesInv`: a pushed message waits in one frame of one socket or in none. So a frame
   that is received is not among those received since the last page (`ListInv`).

All invariants named in this section were checked by TLC, on the constants of the run of
their module, before they were proved.

Model-checked only: the liveness properties `GoroutinesComeBack`, `ListConverges` and
`ComesUp`, since temporal proofs under fairness, and ENABLED, are outside what the prover does; and
the four violations, which are counterexamples and need no proof. What `SearchUsers` returns
is used in the proofs about the monolith as far as they need it: users of the table whose name matches.

## 6. What the violations mean

- A logout does not end a refresh that is under way. `ImplementsLifecycle` states
  what does hold: once no token is live and no refresh is under way, the session
  stays closed.
- The deferred cleanup of a replaced connection unregisters its successor.
  `UnlistedOnlyIfReplaced` states that nothing else does.
- `is_delivered` does not mean what the table's description says.
- The app has no guard against two refreshes at once. When the access token has
  expired, opening a chat starts two (`_loadHistory`, `_connectWs`), and the
  one that the server refuses logs the user out, before or after the other has stored
  its tokens. (In the run's shortest trace one of the two requests was
  sent without a token, before the login, the other with one that expires, and it ends while the
  first refresh is still under way.) `SessionSurvives` and `RefusalNeedsOverlap` state what does
  hold: it takes such an overlap, or a failure.

Not a run of its own: `docs/roadmap.md:70` says that a refresh token is used once.
SELECT and UPDATE are separate and the row count of the UPDATE is ignored, so two
refreshes that overlap both get a successor; `RotationsRaceOnlyWhenTheyOverlap` states that
only those do. Nor does a logout end a WebSocket (`AccessEndsWithSession` says what it does end).

## 7. Not modelled, and the plan

Not modelled: generated gRPC code, HTTP parsing and response formatting, the
widgets, hashing and cryptography as such (they are abstracted by what they
guarantee: distinct tokens, matching passwords, a key that does or does not decrypt).

Seen while modelling, and left out because no property of the models would tell:
tickets that nobody presents stay in the map (a leak has no finite
counterexample); the list of recent chats takes the last element of a page for the latest
message although pages are newest first (`main.dart:778`), which only its
text shows; some error paths of the screens call `setState` after an `await` without a look whether
the screen is still there (`main.dart:1183`), which is a matter of the
widget framework; after a restart with another `ENCRYPTION_KEY`, older messages stay unreadable.

Next: theorems that no run states, where they say more of the code than its
properties do. First the limit and the order of `UserDirectory`'s search, for tables of
any size (the receiver by prefix is one user at most, the newest that matches).
