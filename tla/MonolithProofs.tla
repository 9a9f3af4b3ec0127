--------------------------- MODULE MonolithProofs ---------------------------
(***************************************************************************)
(* Proofs about Monolith, for every number of users, clients, calls,       *)
(* tokens and messages.                                                    *)
(*                                                                         *)
(* The monolith implements AuthSessions and MessageStore, so whatever is   *)
(* proved of the auth service holds here as well.  The properties of the   *)
(* composition relate the tables of the two, and each needs to know what   *)
(* the calls in progress have read from the other side.                    *)
(***************************************************************************)
EXTENDS Monolith, AuthSessionsProofs

-----------------------------------------------------------------------------
(***************************************************************************)
(* The auth service.                                                       *)
(***************************************************************************)
LEMMA ServeAuthStep ==
  ASSUME NEW h \in Handlers, ServeAuth(h)
  PROVE  Request(h) \/ Statement(h)
<1>1. CASE ServeRegister(h) \/ ServeLogin(h) \/ ServeLogout(h)
  BY <1>1 DEF ServeRegister, ServeLogin, ServeLogout, Request, Statement
<1>2. CASE ServeRefresh(h) \/ ServeTokens(h) \/ ServeError(h) \/ AnswerAuth(h)
  BY <1>2 DEF ServeRefresh, ServeTokens, ServeError, AnswerAuth, Request, Statement
<1> QED
  BY <1>1, <1>2 DEF ServeAuth

\* Those of the WebSocket.
OnSocket(c) == IssueWSTicket(c) \/ ConnectWS(c) \/ DisconnectWS(c)

\* The actions of the gateway and of the message server.
Elsewhere ==
    \/ \E n \in Usernames : SearchUsers(n)
    \/ \E u \in Met : GetUser(u)
    \/ \E c \in Senders : SendMessage(c) \/ InsertMessage(c)
    \/ \E c \in Senders : OnSocket(c)
    \/ \E c \in Readers : GetHistory(c) \/ MarkDelivered(c)
    \/ \E c \in Clients : RefuseMessage(c) \/ AnswerMessage(c)

LEMMA SocketStep ==
  ASSUME NEW c \in Senders, OnSocket(c)
  PROVE  UNCHANGED <<vars, joined, store, found, chat, verdicts>>
BY DEF OnSocket, IssueWSTicket, ConnectWS, DisconnectWS

LEMMA ElsewhereStep == Elsewhere => UNCHANGED <<vars, joined, verdicts>>
<1> SUFFICES ASSUME Elsewhere PROVE UNCHANGED <<vars, joined, verdicts>>
  OBVIOUS
<1>1. ASSUME NEW n \in Usernames, SearchUsers(n) PROVE UNCHANGED <<vars, joined, verdicts>>
  BY <1>1 DEF SearchUsers
<1>2. ASSUME NEW u \in Met, GetUser(u) PROVE UNCHANGED <<vars, joined, verdicts>>
  BY <1>2 DEF GetUser
<1>3. ASSUME NEW c \in Clients,
             SendMessage(c) \/ InsertMessage(c) \/ GetHistory(c) \/ MarkDelivered(c)
                 \/ RefuseMessage(c) \/ AnswerMessage(c)
      PROVE  UNCHANGED <<vars, joined, verdicts>>
  BY <1>3 DEF SendMessage, InsertMessage, GetHistory, MarkDelivered, RefuseMessage,
              AnswerMessage
<1> QED
  BY <1>1, <1>2, <1>3, SocketStep DEF Elsewhere, Clients

LEMMA MonolithCases ==
  ASSUME MonolithNext
  PROVE  (\E h \in Handlers : ServeAuth(h)) \/ Elsewhere \/ Boot \/ CrashAll \/ Clock
  BY DEF MonolithNext, Elsewhere, OnSocket

LEMMA AuthStep == [MonolithNext]_mvars => [Next]_vars
<1> SUFFICES ASSUME [MonolithNext]_mvars PROVE [Next]_vars
  OBVIOUS
<1>1. CASE UNCHANGED mvars
  BY <1>1 DEF mvars
<1>2. CASE \E h \in Handlers : ServeAuth(h)
  BY <1>2, ServeAuthStep DEF Next
<1>3. CASE Elsewhere
  BY <1>3, ElsewhereStep
<1>4. CASE Boot \/ CrashAll \/ Clock
  BY <1>4 DEF Boot, CrashAll, Clock, Next
<1> QED
  BY <1>1, <1>2, <1>3, <1>4, MonolithCases

\* The auth server of the monolith behaves as the auth service.
THEOREM AuthImplemented == MonolithSpec => ImplementsAuth
<1>1. MonolithInit => Init
  BY DEF MonolithInit
<1> QED
  BY <1>1, AuthStep, PTL DEF MonolithSpec, ImplementsAuth, Spec

LEMMA MonolithFullInv == MonolithSpec => []FullInv
  BY AuthImplemented, Invariance, PTL DEF ImplementsAuth

\* So its sessions are of one user each, ...
THEOREM MonolithOneUserPerSession == MonolithSpec => []SessionsBelongToTheirUser
  BY AuthImplemented, OneUserPerSession, PTL DEF ImplementsAuth

\* ... and the other theorems about it hold here in the same way.  What the
\* proofs below need of a step of the auth service:
LEMMA TablesGrow ==
  TypeInv /\ [Next]_vars =>
      /\ DOMAIN users \subseteq DOMAIN users' /\ wallet \subseteq wallet' /\ now <= now'
      /\ Stored \subseteq Stored' /\ Issued \subseteq Issued'
      /\ \A t \in Issued : jwt'[t] = jwt[t]
      /\ \A t \in Stored : /\ row'[t].expires = row[t].expires
                           /\ row'[t].user = row[t].user
                           /\ row'[t].family = row[t].family
                           /\ row[t].revoked => row'[t].revoked
<1> SUFFICES ASSUME TypeInv, [Next]_vars
             PROVE  /\ DOMAIN users \subseteq DOMAIN users'
                    /\ wallet \subseteq wallet' /\ now <= now'
                    /\ Stored \subseteq Stored' /\ Issued \subseteq Issued'
                    /\ \A t \in Issued : jwt'[t] = jwt[t]
                    /\ \A t \in Stored : /\ row'[t].expires = row[t].expires
                                         /\ row'[t].user = row[t].user
                                         /\ row'[t].family = row[t].family
                                         /\ row[t].revoked => row'[t].revoked
  OBVIOUS
<1>a. now <= now /\ row \in [Stored -> TokenRow]
  BY TimeAssumption DEF TypeInv, TypeOK
<1>1. CASE Quiet
  BY <1>1 DEF Quiet, Stored, Issued
<1>2. ASSUME NEW h \in Handlers, RefreshRotate(h) \/ LogoutRevoke(h)
      PROVE  /\ UNCHANGED <<users, wallet, now, jwt>> /\ Stored' = Stored
             /\ \A t \in Stored : /\ row'[t].expires = row[t].expires
                                  /\ row'[t].user = row[t].user
                                  /\ row'[t].family = row[t].family
                                  /\ row[t].revoked => row'[t].revoked
  BY <1>2, <1>a, Revoking DEF WithRevoked, TokenRow
<1>3. ASSUME NEW h \in Handlers, IssueTokenPair(h)
      PROVE  /\ UNCHANGED <<users, wallet, now, row>> /\ Issued \subseteq Issued'
             /\ \A t \in Issued : jwt'[t] = jwt[t]
  BY <1>3, Signing DEF IssueTokenPair
<1>4. ASSUME NEW h \in Handlers, StoreRefreshToken(h)
      PROVE  /\ UNCHANGED <<users, wallet, now, jwt>> /\ Stored \subseteq Stored'
             /\ \A t \in Stored : row'[t] = row[t]
  <2>1. call[h].new \notin Stored
    BY <1>4 DEF StoreRefreshToken, TypeInv, HandlersOK, HandlerOK
  <2> QED
    BY <1>4, <2>1 DEF StoreRefreshToken, Stored
<1> QED
  BY <1>1, <1>2, <1>3, <1>4, <1>a, StepsAreQuietOrWrite DEF Writes, Stored, Issued

-----------------------------------------------------------------------------
(***************************************************************************)
(* The message service.  Its calls are for users of the table, because an  *)
(* access token names one and because clients find users there.            *)
(***************************************************************************)
FoundInv == found \subseteq DOMAIN users

LEMMA NextFound == FoundInv /\ TypeInv /\ [MonolithNext]_mvars => FoundInv'
<1> SUFFICES ASSUME FoundInv, TypeInv, [MonolithNext]_mvars PROVE FoundInv'
  OBVIOUS
<1>1. DOMAIN users \subseteq DOMAIN users'
  BY AuthStep, TablesGrow
<1>2. found' \subseteq DOMAIN users
  <2>1. ASSUME NEW n \in Usernames, SearchUsers(n) PROVE found' \subseteq DOMAIN users
    BY <2>1 DEF SearchUsers, Found, Directory!SearchUsers, FoundInv
  <2>2. ASSUME NEW u \in Met, GetUser(u) PROVE found' \subseteq DOMAIN users
    BY <2>2 DEF GetUser, Directory!GetUser, FoundInv
  <2>3. ASSUME NEW c \in Clients,
               SendMessage(c) \/ InsertMessage(c) \/ GetHistory(c) \/ MarkDelivered(c)
                   \/ RefuseMessage(c) \/ AnswerMessage(c)
        PROVE  found' = found
    BY <2>3 DEF SendMessage, InsertMessage, GetHistory, MarkDelivered, RefuseMessage,
                AnswerMessage, client
  <2>4. CASE (\E h \in Handlers : ServeAuth(h)) \/ Boot \/ CrashAll \/ Clock \/ UNCHANGED mvars
    BY <2>4 DEF ServeAuth, Boot, CrashAll, Clock, client, mvars, FoundInv
  <2> QED
    BY <2>1, <2>2, <2>3, <2>4, SocketStep, MonolithCases DEF Elsewhere, Clients, FoundInv
<1> QED
  BY <1>1, <1>2 DEF FoundInv

LEMMA MonolithFound == MonolithSpec => [](FullInv /\ FoundInv)
<1>1. MonolithInit => FoundInv
  BY DEF MonolithInit, FoundInv
<1>2. FullInv => TypeInv
  BY DEF FullInv
<1> QED
  BY <1>1, <1>2, NextFound, MonolithFullInv, PTL DEF MonolithSpec

LEMMA StoreStep == FullInv /\ FoundInv /\ [MonolithNext]_mvars => [Store!Next]_(Store!vars)
<1> SUFFICES ASSUME FullInv, FoundInv, [MonolithNext]_mvars PROVE [Store!Next]_(Store!vars)
  OBVIOUS
<1>1. DOMAIN users \subseteq UserIds
  BY DEF FullInv, TypeInv, TypeOK
<1>2. ASSUME NEW h \in Handlers, ServeAuth(h) PROVE UNCHANGED Store!vars
  <2>1. Request(h) \/ Statement(h)
    BY <1>2, ServeAuthStep
  <2>2. UNCHANGED now
    BY <2>1 DEF Request, Statement, RejectEmpty, RejectNotReady, Register, Login,
                RefreshStart, LogoutStart, ParseToken, RefreshSelect, RefreshRotate,
                IssueTokenPair, SignToken, StoreRefreshToken, LogoutRevoke, StatementFails,
                Respond
  <2> QED
    BY <1>2, <2>2 DEF ServeAuth, store, Store!vars, Store!history
<1>3. ASSUME (\E n \in Usernames : SearchUsers(n)) \/ (\E u \in Met : GetUser(u)) \/ Boot
      PROVE  UNCHANGED Store!vars
  BY <1>3 DEF SearchUsers, GetUser, Boot, ConnectDB, store, vars, Store!vars, Store!history
<1>4. ASSUME NEW c \in Senders, SendMessage(c) \/ InsertMessage(c) PROVE Store!Next
  <2>1. CASE SendMessage(c)
    BY <1>1, <2>1 DEF SendMessage, Receivers, Store!Next, Store!Send
  <2>2. CASE InsertMessage(c)
    BY <2>2 DEF InsertMessage, Store!Next, Store!Send
  <2> QED
    BY <1>4, <2>1, <2>2
<1>5. ASSUME NEW c \in Readers, GetHistory(c) \/ MarkDelivered(c) PROVE Store!Next
  <2>1. CASE GetHistory(c)
    <3>1. PICK u \in DOMAIN users, n \in Limits : SelectHistory(c, u, n)
      BY <2>1 DEF GetHistory
    <3>2. Store!GetHistory(c)
      BY <1>1, <3>1 DEF SelectHistory, FoundInv, Store!GetHistory
    <3> QED
      BY <3>2 DEF Store!Next
  <2>2. CASE MarkDelivered(c)
    BY <2>2 DEF MarkDelivered, Store!Next, Store!GetHistory
  <2> QED
    BY <1>5, <2>1, <2>2
<1>6. ASSUME NEW c \in Clients, RefuseMessage(c) \/ AnswerMessage(c) PROVE Store!Next
  BY <1>6 DEF RefuseMessage, AnswerMessage, Clients, Store!Clients, Store!Next
<1>7. CASE CrashAll \/ Clock
  BY <1>7 DEF CrashAll, Clock, Store!Next
<1>8. CASE UNCHANGED mvars
  BY <1>8 DEF mvars, vars, store, Store!vars, Store!history
<1>9. ASSUME NEW c \in Senders, OnSocket(c) PROVE UNCHANGED Store!vars
  BY <1>9, SocketStep DEF store, vars, Store!vars, Store!history
<1> QED
  BY <1>9, <1>2, <1>3, <1>4, <1>5, <1>6, <1>7, <1>8, MonolithCases DEF Elsewhere

\* The message server of the monolith behaves as the message service.
THEOREM StoreImplemented == MonolithSpec => ImplementsStore
<1>1. MonolithInit => Store!Init
  BY DEF MonolithInit
<1> QED
  BY <1>1, StoreStep, MonolithFound, PTL DEF MonolithSpec, ImplementsStore, Store!Spec

-----------------------------------------------------------------------------
(***************************************************************************)
(* A 401 is final.  A token that is not accepted stays so: rows are only   *)
(* ever revoked, and the clock only advances.  And the one that a request  *)
(* presented is not accepted when the answer is "Unauthenticated".         *)
(***************************************************************************)
Accepted(t) == t \in Stored /\ Live(t) /\ Parses(t)

VerdictInv ==
    /\ asked \in [Handlers -> Tokens \cup {None}]
    /\ refused \subseteq wallet
    /\ \A t \in refused : ~Accepted(t)
    /\ \A h \in Handlers : asked[h] # None =>
           /\ asked[h] \in wallet
           /\ call[h].pc # "idle"
           /\ call[h].pc = "validate" => call[h].old = asked[h]
           /\ call[h].pc = "reply" /\ call[h].code = "Unauthenticated" => ~Accepted(asked[h])

LEMMA RefusedStays ==
  TypeInv /\ [Next]_vars => \A t \in Stored : ~Accepted(t) => ~Accepted(t)'
<1> SUFFICES ASSUME TypeInv, [Next]_vars, NEW t \in Stored, ~Accepted(t) PROVE ~Accepted(t)'
  OBVIOUS
<1>1. /\ now \in Nat /\ now' \in Nat /\ Stored \subseteq Issued
      /\ row[t].expires \in Nat /\ jwt[t].exp \in Nat
  BY NextType, TimeAssumption DEF TypeInv, TypeOK, TokenRow, Claims
<1> QED
  BY <1>1, TablesGrow DEF Accepted, Live, Parses

\* A step of one handler is not a step of another.
LEMMA OthersWait ==
  ASSUME TypeInv, NEW h \in Handlers, Request(h) \/ Statement(h), NEW g \in Handlers \ {h}
  PROVE  call'[g] = call[g]
<1>1. call \in [Handlers -> Call]
  BY DEF TypeInv, TypeOK
<1>2. CASE Request(h)
  BY <1>1, <1>2
     DEF Request, RejectEmpty, RejectNotReady, Register, RegisterRefused, RegisterCreates,
         RegisterFails, Login, RefreshStart, LogoutStart, ParseToken, Answer
<1>3. CASE Statement(h)
  BY <1>1, <1>3
     DEF Statement, RefreshSelect, RefreshRotate, IssueTokenPair, SignToken,
         StoreRefreshToken, LogoutRevoke, StatementFails, Respond, Answer, Goto
<1> QED
  BY <1>2, <1>3

\* A handler that serves a refresh says "Unauthenticated" only of a token
\* that it has found in the table unacceptable.
LEMMA VerdictReached ==
  ASSUME FullInv, VerdictInv, NEW h \in Handlers, asked[h] # None, ServeAuth(h), ~AnswerAuth(h)
  PROVE  /\ asked' = asked /\ refused' = refused
         /\ call'[h].pc \notin {"idle", "validate"}
         /\ call'[h].pc = "reply" /\ call'[h].code = "Unauthenticated" => ~Accepted(asked[h])
<1>1. call \in [Handlers -> Call] /\ call[h].pc # "idle"
  BY DEF FullInv, TypeInv, TypeOK, VerdictInv
<1>a. \A code, t : Answer(h, code, t) => call'[h].pc = "reply" /\ call'[h].code = code
  BY <1>1 DEF Answer, Idle
<1>b. \A step : Goto(h, step) => call'[h].pc = step
  BY <1>1 DEF Goto, Call
<1>2. CASE RefreshSelect(h) /\ UNCHANGED verdicts
  <2>1. call[h].pc = "validate" /\ call[h].old = asked[h]
    BY <1>2 DEF RefreshSelect, VerdictInv
  <2>2. CASE RotationAllowed(h)
    BY <1>b, <1>2, <2>2 DEF RefreshSelect, verdicts
  <2>3. CASE ~RotationAllowed(h)
    <3>1. ~Accepted(asked[h])
      BY <2>1, <2>3
         DEF RotationAllowed, Accepted, FullInv, SessionInv, RowsMatchClaims
    <3> QED
      BY <1>a, <1>2, <2>3, <3>1 DEF RefreshSelect, verdicts
  <2> QED
    BY <2>2, <2>3
<1>3. CASE RefreshRotate(h) /\ UNCHANGED verdicts
  BY <1>a, <1>b, <1>3 DEF RefreshRotate, verdicts
<1>4. CASE (IssueTokenPair(h) \/ StoreRefreshToken(h)) /\ UNCHANGED verdicts
  <2>1. CASE StoreRefreshToken(h)
    BY <1>a, <1>4, <2>1 DEF StoreRefreshToken, verdicts
  <2>2. CASE IssueTokenPair(h)
    BY <1>4, <2>2, Signing DEF IssueTokenPair, Keeps, FullInv, verdicts
  <2> QED
    BY <1>4, <2>1, <2>2
<1>5. CASE (LogoutRevoke(h) \/ StatementFails(h)) /\ UNCHANGED verdicts
  BY <1>a, <1>5 DEF LogoutRevoke, StatementFails, verdicts
<1> QED
  BY <1>1, <1>2, <1>3, <1>4, <1>5
     DEF ServeAuth, ServeRegister, Register, ServeLogin, Login, ServeRefresh, RefreshStart,
         ServeLogout, LogoutStart, ParseToken, ServeTokens, ServeError, RejectEmpty

\* A request that begins a refresh: its token may be refused at once.
LEMMA VerdictBegins ==
  ASSUME FullInv, VerdictInv, NEW h \in Handlers, NEW t \in wallet \cup {None},
         RefreshStart(h, t)
  PROVE  /\ call'[h].pc \in {"validate", "reply"}
         /\ call'[h].pc = "validate" => call'[h].old = t
         /\ call'[h].pc = "reply" /\ t # None => ~Accepted(t)
<1>1. call \in [Handlers -> Call]
  BY DEF FullInv, TypeInv, TypeOK
<1>2. CASE Parses(t)
  BY <1>1, <1>2 DEF RefreshStart, ParseToken, Idle
<1>3. CASE ~Parses(t)
  BY <1>1, <1>3 DEF RefreshStart, ParseToken, Answer, Idle, Accepted
<1> QED
  BY <1>2, <1>3

LEMMA NextVerdict == FullInv /\ VerdictInv /\ [MonolithNext]_mvars => VerdictInv'
<1> SUFFICES ASSUME FullInv, VerdictInv, [MonolithNext]_mvars PROVE VerdictInv'
  OBVIOUS
<1>1. TypeInv /\ wallet \subseteq Stored /\ Stored \subseteq Tokens
  BY DEF FullInv, TypeInv, TypeOK
<1>2. wallet \subseteq wallet' /\ \A t \in wallet : ~Accepted(t) => ~Accepted(t)'
  BY <1>1, AuthStep, TablesGrow, RefusedStays
<1>3. CASE UNCHANGED <<call, verdicts>>
  BY <1>2, <1>3 DEF verdicts, VerdictInv
<1>4. CASE CrashAll
  BY <1>2, <1>4 DEF CrashAll, VerdictInv
<1>5. ASSUME NEW h \in Handlers, ServeAuth(h) PROVE VerdictInv'
  <2>1. \A g \in Handlers \ {h} : call'[g] = call[g]
    BY <1>1, <1>5, ServeAuthStep, OthersWait
  <2>2. CASE AnswerAuth(h)
    <3>1. /\ asked' = [asked EXCEPT ![h] = None]
          /\ \/ refused' = refused
             \/ /\ call[h].code = "Unauthenticated" /\ call[h].pc = "reply"
                /\ refused' = refused \cup ({asked[h]} \ {None})
      BY <2>2 DEF AnswerAuth, Respond, UpstreamStatus
    <3> QED
      BY <1>2, <2>1, <3>1 DEF VerdictInv
  <2>3. CASE ~AnswerAuth(h) /\ asked[h] # None
    BY <1>2, <1>5, <2>1, <2>3, VerdictReached DEF VerdictInv
  <2>4. CASE asked[h] = None /\ UNCHANGED verdicts
    BY <1>2, <2>1, <2>4 DEF VerdictInv, verdicts
  <2>5. ASSUME NEW t \in wallet \cup {None}, RefreshStart(h, t),
               asked' = [asked EXCEPT ![h] = t], refused' = refused
        PROVE  VerdictInv'
    <3>1. t # None => t \in Stored /\ (~Accepted(t) => ~Accepted(t)')
      BY <1>1, <1>2
    <3>2. asked' \in [Handlers -> Tokens \cup {None}]
      BY <1>1, <2>5 DEF VerdictInv
    <3> QED
      BY <1>2, <2>1, <2>5, <3>1, <3>2, VerdictBegins DEF VerdictInv
  <2> QED
    BY <1>5, <2>2, <2>3, <2>4, <2>5
       DEF ServeAuth, ServeRegister, ServeLogin, ServeRefresh, ServeLogout, ServeTokens,
           ServeError, verdicts
<1>6. CASE Elsewhere \/ Boot \/ Clock \/ UNCHANGED mvars
  BY <1>3, <1>6, ElsewhereStep DEF Boot, ConnectDB, Clock, Tick, mvars, vars
<1> QED
  BY <1>4, <1>5, <1>6, MonolithCases

\* A client that forgets a token because of a 401 loses nothing.
THEOREM RefusalsAreFinal == MonolithSpec => []UnauthorizedIsFinal
<1>1. MonolithInit => VerdictInv
  BY DEF MonolithInit, VerdictInv
<1>2. VerdictInv => UnauthorizedIsFinal
  BY DEF VerdictInv, UnauthorizedIsFinal, Accepted
<1> QED
  BY <1>1, <1>2, NextVerdict, MonolithFullInv, PTL DEF MonolithSpec

-----------------------------------------------------------------------------
(***************************************************************************)
(* A message goes to the user it is meant for: names are unique in the     *)
(* table, and a user found there stays there.                              *)
(***************************************************************************)
NamesUnique == \A u, v \in DOMAIN users : users[u].username = users[v].username => u = v

LEMMA NextNames ==
  TypeInv /\ NamesUnique /\ [Next]_vars =>
      NamesUnique' /\ \A u \in DOMAIN users : users'[u] = users[u]
<1> SUFFICES ASSUME TypeInv, NamesUnique, [Next]_vars
             PROVE  NamesUnique' /\ \A u \in DOMAIN users : users'[u] = users[u]
  OBVIOUS
<1>1. CASE UNCHANGED users
  BY <1>1 DEF NamesUnique
<1>2. ASSUME NEW h \in Handlers, NEW n \in Usernames, NEW p \in Phones, NEW w \in Passwords,
             RegisterCreates(h, n, p, w)
      PROVE  NamesUnique' /\ \A u \in DOMAIN users : users'[u] = users[u]
  BY <1>2 DEF RegisterCreates, Taken, NamesUnique
<1> QED
  BY <1>1, <1>2
     DEF Next, Request, Statement, RejectEmpty, RejectNotReady, Register, RegisterRefused,
         RegisterFails, Login, RefreshStart, LogoutStart, ParseToken, RefreshSelect,
         RefreshRotate, IssueTokenPair, SignToken, StoreRefreshToken, LogoutRevoke,
         StatementFails, Respond, ConnectDB, Crash, Tick, tables, vars

\* A call that is inserting a message holds its receiver.
AddressInv ==
    /\ NamesUnique
    /\ DOMAIN chat = Clients /\ DOMAIN rpc = Clients
    /\ \A c \in Clients :
           /\ {"pc", "user"} \subseteq DOMAIN rpc[c]
           /\ chat[c] # None => chat[c] \in DOMAIN users
           /\ rpc[c].pc = "insert" /\ chat[c] # None => rpc[c].peer = chat[c]

LEMMA NextAddress == FullInv /\ FoundInv /\ AddressInv /\ [MonolithNext]_mvars => AddressInv'
<1> SUFFICES ASSUME FullInv, FoundInv, AddressInv, [MonolithNext]_mvars PROVE AddressInv'
  OBVIOUS
<1>1. TypeInv
  BY DEF FullInv
<1>2. NamesUnique' /\ DOMAIN users \subseteq DOMAIN users'
  BY <1>1, AuthStep, NextNames, TablesGrow DEF AddressInv
<1>3. CASE UNCHANGED <<rpc, chat>>
  BY <1>2, <1>3 DEF AddressInv
<1>4. ASSUME NEW c \in Senders, SendMessage(c) PROVE AddressInv'
  <2>1. PICK u \in DOMAIN users, v \in found :
            /\ \E w \in Receivers(v) : Store!SendMessage(c, u, w)
            /\ chat' = [chat EXCEPT ![c] = v]
    BY <1>4 DEF SendMessage
  <2>2. PICK w \in Receivers(v) : Store!SendMessage(c, u, w)
    BY <2>1
  <2>3. w = v /\ v \in DOMAIN users
    BY DEF Receivers, FoundInv, AddressInv, NamesUnique
  <2>4. /\ DOMAIN rpc' = Clients /\ {"pc", "user"} \subseteq DOMAIN rpc'[c] /\ rpc'[c].peer = v
        /\ \A d \in Clients \ {c} : rpc'[d] = rpc[d]
    BY <2>2, <2>3 DEF Store!SendMessage, Store!Idle, Clients, AddressInv
  <2> QED
    BY <1>2, <2>1, <2>3, <2>4 DEF AddressInv, Clients
<1>5. ASSUME NEW c \in Clients,
             \/ InsertMessage(c) \/ GetHistory(c) \/ MarkDelivered(c) \/ RefuseMessage(c)
             \/ AnswerMessage(c)
      PROVE  /\ rpc'[c].pc # "insert" /\ {"pc", "user"} \subseteq DOMAIN rpc'[c]
             /\ DOMAIN rpc' = Clients /\ DOMAIN chat' = Clients
             /\ chat'[c] \in {chat[c], None}
             /\ \A d \in Clients \ {c} : rpc'[d] = rpc[d] /\ chat'[d] = chat[d]
  <2>1. CASE InsertMessage(c)
    BY <2>1 DEF InsertMessage, Store!InsertCommits, Store!InsertFails, Store!Answer,
                Store!Idle, client, AddressInv
  <2>2. CASE GetHistory(c)
    <3>1. PICK r : /\ r.pc \in {"mark", "reply"} /\ {"pc", "user"} \subseteq DOMAIN r
                   /\ rpc' = [rpc EXCEPT ![c] = r]
      BY <2>2 DEF GetHistory, SelectHistory, Store!FirstPage, Store!NextPage,
                  Store!SelectPage, Store!Answer, Store!Idle
    <3> QED
      BY <2>2, <3>1 DEF GetHistory, client, AddressInv
  <2>3. CASE MarkDelivered(c)
    BY <2>3 DEF MarkDelivered, Store!MarkDelivered, client, AddressInv
  <2>4. CASE RefuseMessage(c)
    BY <2>4 DEF RefuseMessage, Store!Refuse, Store!Answer, Store!Idle, client, AddressInv
  <2>5. CASE AnswerMessage(c)
    <3>1. rpc' = [rpc EXCEPT ![c] = Store!Idle] /\ chat' = [chat EXCEPT ![c] = None]
      BY <2>5 DEF AnswerMessage, Store!Respond
    <3>2. Store!Idle.pc = "idle" /\ {"pc", "user"} \subseteq DOMAIN Store!Idle
      BY DEF Store!Idle
    <3> QED
      BY <3>1, <3>2 DEF AddressInv
  <2> QED
    BY <1>5, <2>1, <2>2, <2>3, <2>4, <2>5
<1>6. CASE CrashAll
  BY <1>2, <1>6 DEF CrashAll, Store!Restart, Store!Clients, Clients, Store!Idle, AddressInv
<1>7. CASE \/ \E n \in Usernames : SearchUsers(n)
           \/ \E u \in Met : GetUser(u)
           \/ \E h \in Handlers : ServeAuth(h)
           \/ Boot \/ Clock \/ UNCHANGED mvars
  BY <1>3, <1>7 DEF SearchUsers, GetUser, ServeAuth, Boot, Clock, Store!Tick, store, client,
                    mvars
<1>9. ASSUME NEW c \in Senders, OnSocket(c) PROVE AddressInv'
  BY <1>3, <1>9, SocketStep DEF store
<1>8. ASSUME NEW c \in Clients,
             \/ InsertMessage(c) \/ GetHistory(c) \/ MarkDelivered(c) \/ RefuseMessage(c)
             \/ AnswerMessage(c)
      PROVE  AddressInv'
  BY <1>2, <1>5, <1>8 DEF AddressInv
<1> QED
  BY <1>4, <1>6, <1>7, <1>8, <1>9, MonolithCases DEF Elsewhere, Clients

\* Neither a name that begins with another nor a restart misdirects a message.
THEOREM NoMessageStrays == MonolithSpec => []MessageGoesToItsUser
<1>1. MonolithInit => AddressInv
  BY DEF MonolithInit, Init, Store!Init, Store!Clients, Clients, Store!Idle, AddressInv,
         NamesUnique
<1>2. FoundInv /\ AddressInv => MessageGoesToItsUser
  BY DEF AddressInv, NamesUnique, MessageGoesToItsUser, PushedTo, Clients,
         Directory!SearchUsers
<1> QED
  BY <1>1, <1>2, NextAddress, MonolithFound, PTL DEF MonolithSpec

-----------------------------------------------------------------------------
(***************************************************************************)
(* An access token is signed with a refresh token, and that one is live    *)
(* when it is stored: the session was open at a time that the lifetime of  *)
(* either of the two can be counted from.                                  *)
(***************************************************************************)
AgeInv ==
    /\ lastOpen \in [Families -> Nat]
    /\ \A f \in Families : lastOpen[f] <= now
    /\ \A t \in Issued : jwt[t].exp <= now + RefreshTTL
    /\ \A t \in Stored : jwt[t].exp <= lastOpen[row[t].family] + RefreshTTL

LEMMA NextAge == FullInv /\ FullInv' /\ AgeInv /\ [MonolithNext]_mvars => AgeInv'
<1> SUFFICES ASSUME FullInv, FullInv', AgeInv, [MonolithNext]_mvars PROVE AgeInv'
  OBVIOUS
<1> USE TimeAssumption
<1>1. /\ TypeInv /\ TypeInv' /\ RefreshTTL \in Nat \ {0} /\ now \in Nat /\ now' \in Nat
      /\ \A t \in Issued : jwt[t].exp \in Nat
      /\ \A t \in Stored : t \in Issued /\ row[t].family \in Families
  BY DEF FullInv, TypeInv, TypeOK, TokenRow, Claims
<1>2. [Next]_vars
  BY AuthStep
<1>3. now <= now' /\ \A t \in Issued : jwt'[t] = jwt[t]
  BY <1>1, <1>2, TablesGrow
<1>4. /\ lastOpen' \in [Families -> Nat]
      /\ \A f \in Families : lastOpen[f] <= lastOpen'[f] /\ lastOpen'[f] <= now'
  BY <1>1, <1>3 DEF MonolithNext, mvars, AgeInv
<1>5. \A t \in Issued' \ Issued : jwt'[t].exp <= now' + RefreshTTL
  <2>1. CASE UNCHANGED jwt
    BY <2>1 DEF Issued
  <2>2. ASSUME NEW h \in Handlers, NEW t \in Tokens \ Issued, SignToken(h, t)
        PROVE  now' = now /\ Issued' \ Issued = {t} /\ jwt'[t].exp = now + RefreshTTL
    BY <1>1, <2>2 DEF SignToken, Issued
  <2>3. CASE \E h \in Handlers : IssueTokenPair(h)
    BY <1>1, <2>2, <2>3 DEF IssueTokenPair
  <2> QED
    BY <1>1, <1>2, <2>1, <2>3, StepsAreQuietOrWrite, Revoking, Storing DEF Writes, Quiet
<1>6. \A t \in Stored' \ Stored : jwt'[t].exp <= lastOpen'[row'[t].family] + RefreshTTL
  <2>1. ASSUME NEW h \in Handlers, StoreRefreshToken(h), NEW t \in Stored' \ Stored
        PROVE  jwt'[t].exp <= lastOpen'[row'[t].family] + RefreshTTL
    <3>1. /\ t = call[h].new /\ call[h].family \in Families /\ now' = now
          /\ row'[t].family = call[h].family /\ ~row'[t].revoked
          /\ row'[t].expires = now + RefreshTTL
      BY <1>1, <2>1, Storing DEF StoreRefreshToken, Stored
    <3>2. PICK f \in Families : f = call[h].family
      BY <3>1
    <3>3. Open(f)'
      BY <1>1, <2>1, <3>1, <3>2 DEF Open, Live, Stored
    <3>4. lastOpen'[f] = now
      BY <3>1, <3>3, <2>1 DEF MonolithNext, mvars, vars, Stored
    <3>5. t \in Issued
      BY <1>1, <2>1, <3>1 DEF StoreRefreshToken, TypeInv, HandlersOK, HandlerOK
    <3> QED
      BY <1>3, <3>1, <3>2, <3>5, <3>4 DEF AgeInv
  <2> QED
    BY <1>1, <1>2, <2>1, StepsAreQuietOrWrite, Revoking, Signing
       DEF Writes, Quiet, Stored, IssueTokenPair
<1>7. \A t \in Issued : jwt'[t].exp <= now' + RefreshTTL
  BY <1>1, <1>3 DEF AgeInv
<1>8. \A t \in Stored : jwt'[t].exp <= lastOpen'[row'[t].family] + RefreshTTL
  BY <1>1, <1>2, <1>3, <1>4, TablesGrow DEF AgeInv
<1> QED
  BY <1>1, <1>4, <1>5, <1>6, <1>7, <1>8 DEF AgeInv

LEMMA OwnersOfStored ==
  ASSUME FullInv, NEW t \in Stored
  PROVE  row[t].family \in Families /\ owners[row[t].family] = {jwt[t].user}
<1>1. \A s \in Stored : /\ row[s].user = jwt[s].user /\ row[s].family = jwt[s].family
                        /\ row[s].family = row[t].family => row[s].user = row[t].user
  BY DEF FullInv, TypeInv, TypeOK, SessionInv, OwnersAgree, RowsMatchClaims
<1>2. row[t].family \in Families
  BY DEF FullInv, TypeInv, TypeOK, TokenRow
<1> QED
  BY <1>1, <1>2 DEF owners

\* A call that begins carries the user of an access token or of a socket.
LEMMA CallsAreOfCallers ==
  ASSUME AddressInv, [MonolithNext]_mvars, NEW c \in Clients, rpc[c].user = None,
         rpc'[c].user # None
  PROVE  Caller(rpc'[c].user) \/ (c \in Senders /\ socket[c] = rpc'[c].user)
<1>1. ASSUME NEW d \in Senders, SendMessage(d)
      PROVE  Caller(rpc'[c].user) \/ (c \in Senders /\ socket[c] = rpc'[c].user)
  <2>1. PICK u \in DOMAIN users : Sends(d, u) /\ \E w : Store!SendMessage(d, u, w)
    BY <1>1 DEF SendMessage
  <2>2. d \in Clients /\ (c # d => rpc'[c] = rpc[c]) /\ (c = d => rpc'[c].user = u)
    BY <2>1 DEF Store!SendMessage, Store!Idle, Clients, AddressInv
  <2> QED
    BY <2>1, <2>2 DEF Sends
<1>2. ASSUME NEW d \in Readers, GetHistory(d) PROVE Caller(rpc'[c].user)
  <2>1. PICK u \in DOMAIN users, n \in Limits : Caller(u) /\ SelectHistory(d, u, n)
    BY <1>2 DEF GetHistory
  <2>2. PICK p, cursor : Store!SelectPage(d, u, p, cursor, n)
    BY <2>1 DEF SelectHistory, Store!FirstPage, Store!NextPage
  <2>3. \/ Store!Answer(d)
        \/ \E page : rpc' = [rpc EXCEPT ![d] = [Store!Idle EXCEPT !.pc = "mark", !.user = u,
                                                                  !.peer = p, !.rows = page]]
    BY <2>2 DEF Store!SelectPage
  <2>4. d \in Clients /\ DOMAIN rpc = Clients
    BY DEF Clients, AddressInv
  <2>5. rpc'[c] = rpc[c] \/ rpc'[c].user \in {u, None}
    <3>1. CASE Store!Answer(d)
      BY <2>4, <3>1 DEF Store!Answer, Store!Idle
    <3>2. ASSUME NEW page,
                 rpc' = [rpc EXCEPT ![d] = [Store!Idle EXCEPT !.pc = "mark", !.user = u,
                                                              !.peer = p, !.rows = page]]
          PROVE  rpc'[c] = rpc[c] \/ rpc'[c].user \in {u, None}
      BY <2>4, <3>2 DEF Store!Idle
    <3> QED
      BY <2>3, <3>1, <3>2
  <2> QED
    BY <2>1, <2>5
<1>3. ASSUME NEW d \in Senders, InsertMessage(d) PROVE FALSE
  BY <1>3 DEF InsertMessage, Store!InsertCommits, Store!InsertFails, Store!Answer, Store!Idle,
              Clients, AddressInv
<1>4. ASSUME NEW d \in Readers, MarkDelivered(d) PROVE FALSE
  BY <1>4 DEF MarkDelivered, Store!MarkDelivered, Clients, AddressInv
<1>5. ASSUME NEW d \in Clients, RefuseMessage(d) \/ AnswerMessage(d) PROVE FALSE
  <2>1. PICK r : r.user = None /\ rpc' = [rpc EXCEPT ![d] = r]
    BY <1>5 DEF RefuseMessage, Store!Refuse, Store!Answer, AnswerMessage, Store!Respond,
                Store!Idle
  <2> QED
    BY <2>1 DEF AddressInv
<1>6. CASE CrashAll
  BY <1>6 DEF CrashAll, Store!Restart, Store!Clients, Clients, Store!Idle
<1>7. CASE \/ \E n \in Usernames : SearchUsers(n)
           \/ \E u \in Met : GetUser(u)
           \/ \E h \in Handlers : ServeAuth(h)
           \/ Boot \/ Clock \/ UNCHANGED mvars
  BY <1>7 DEF SearchUsers, GetUser, ServeAuth, Boot, Clock, Store!Tick, store, mvars
<1>8. ASSUME NEW d \in Senders, OnSocket(d) PROVE FALSE
  BY <1>8, SocketStep DEF store
<1> QED
  BY <1>8, <1>1, <1>2, <1>3, <1>4, <1>5, <1>6, <1>7, MonolithCases DEF Elsewhere


\* The session of a token was open within the lifetime of the access token
\* that was signed with it, ...
LEMMA TokensAreRecent ==
  ASSUME FullInv, AgeInv, NEW t \in wallet, NEW k \in Nat, now < AccessExpires(t) + k
  PROVE  OpenWithin(jwt[t].user, AccessTTL + k)
<1>1. t \in Stored /\ jwt[t].exp \in Nat /\ now \in Nat
  BY TimeAssumption DEF FullInv, TypeInv, TypeOK, Claims
<1>2. /\ row[t].family \in Families /\ owners[row[t].family] = {jwt[t].user}
      /\ jwt[t].exp <= lastOpen[row[t].family] + RefreshTTL
      /\ lastOpen[row[t].family] \in Nat
  BY <1>1, OwnersOfStored DEF AgeInv
<1>3. now < lastOpen[row[t].family] + (AccessTTL + k)
  BY <1>1, <1>2, MonolithAssumption, TimeAssumption DEF AccessExpires
<1> QED
  BY <1>2, <1>3 DEF OpenWithin

\* ... and a ticket was issued while one was valid.
TicketInv ==
    /\ tickets \in [Senders -> [user : UserIds \cup {None}, expires : Nat]]
    /\ socket \in [Senders -> UserIds \cup {None}]
    /\ \A c \in Senders : tickets[c] # NoTicket =>
           \E t \in wallet : /\ jwt[t].user = tickets[c].user
                             /\ tickets[c].expires < AccessExpires(t) + TicketTTL

LEMMA NextTicket == FullInv /\ TicketInv /\ [MonolithNext]_mvars => TicketInv'
<1> SUFFICES ASSUME FullInv, TicketInv, [MonolithNext]_mvars PROVE TicketInv'
  OBVIOUS
<1>1. /\ TypeInv /\ now \in Nat /\ DOMAIN users \subseteq UserIds
      /\ \A t \in wallet : t \in Issued /\ jwt[t].exp \in Nat
  BY TimeAssumption DEF FullInv, TypeInv, TypeOK, Claims
<1>2. \A t \in wallet : t \in wallet' /\ jwt'[t] = jwt[t] /\ AccessExpires(t)' = AccessExpires(t)
  BY <1>1, AuthStep, TablesGrow DEF AccessExpires
<1>3. CASE UNCHANGED sockets
  BY <1>2, <1>3 DEF sockets, TicketInv
<1>4. CASE SocketsEnd
  BY <1>4 DEF SocketsEnd, NoTicket, TicketInv
<1>5. ASSUME NEW c \in Senders, OnSocket(c) PROVE TicketInv'
  <2>1. CASE IssueWSTicket(c)
    <3>1. PICK u \in DOMAIN users :
              /\ Caller(u)
              /\ tickets' = [tickets EXCEPT ![c] = [user |-> u, expires |-> now + TicketTTL]]
      BY <2>1 DEF IssueWSTicket
    <3>2. PICK t \in wallet : now < AccessExpires(t) /\ jwt[t].user = u
      BY <3>1 DEF Caller, RequireAuth
    <3>3. now + TicketTTL < AccessExpires(t) + TicketTTL
      BY <1>1, <3>2, MonolithAssumption, TimeAssumption DEF AccessExpires
    <3>4. now + TicketTTL \in Nat /\ socket' = socket
      BY <1>1, <2>1, MonolithAssumption DEF IssueWSTicket
    <3> QED
      BY <1>1, <1>2, <3>1, <3>2, <3>3, <3>4 DEF TicketInv
  <2>2. CASE ConnectWS(c)
    <3>1. /\ tickets' = [tickets EXCEPT ![c] = NoTicket]
          /\ socket' \in {socket, [socket EXCEPT ![c] = tickets[c].user]}
      BY <2>2 DEF ConnectWS
    <3> QED
      BY <1>2, <3>1 DEF TicketInv, NoTicket
  <2>3. CASE DisconnectWS(c)
    BY <1>2, <2>3 DEF DisconnectWS, TicketInv
  <2> QED
    BY <1>5, <2>1, <2>2, <2>3 DEF OnSocket
<1>6. ASSUME NEW c \in Clients,
             \/ SendMessage(c) \/ InsertMessage(c) \/ GetHistory(c) \/ MarkDelivered(c)
             \/ RefuseMessage(c) \/ AnswerMessage(c)
      PROVE  UNCHANGED sockets
  BY <1>6 DEF SendMessage, InsertMessage, GetHistory, MarkDelivered, RefuseMessage,
              AnswerMessage, client
<1>7. CASE \/ \E n \in Usernames : SearchUsers(n)
           \/ \E u \in Met : GetUser(u)
           \/ \E h \in Handlers : ServeAuth(h)
           \/ Boot \/ Clock \/ UNCHANGED mvars
  BY <1>3, <1>7 DEF SearchUsers, GetUser, ServeAuth, Boot, Clock, client, mvars
<1> QED
  BY <1>3, <1>4, <1>5, <1>6, <1>7, MonolithCases DEF Elsewhere, Clients, CrashAll

\* A socket opens with the ticket of its user, before it has expired.
LEMMA SocketsAreRecent ==
  ASSUME FullInv, AgeInv, TicketInv, [MonolithNext]_mvars, NEW c \in Senders,
         socket[c] = None, socket'[c] # None
  PROVE  OpenWithin(socket'[c], AccessTTL + TicketTTL)
<1>1. ASSUME NEW d \in Senders, OnSocket(d)
      PROVE  /\ tickets[c] # NoTicket /\ socket'[c] = tickets[c].user
             /\ now <= tickets[c].expires
  BY <1>1 DEF OnSocket, IssueWSTicket, ConnectWS, DisconnectWS, TicketInv
<1>2. ASSUME NEW d \in Clients,
             \/ SendMessage(d) \/ InsertMessage(d) \/ GetHistory(d) \/ MarkDelivered(d)
             \/ RefuseMessage(d) \/ AnswerMessage(d)
      PROVE  FALSE
  BY <1>2 DEF SendMessage, InsertMessage, GetHistory, MarkDelivered, RefuseMessage,
              AnswerMessage, client, sockets
<1>3. ASSUME \/ \E n \in Usernames : SearchUsers(n)
             \/ \E u \in Met : GetUser(u)
             \/ \E h \in Handlers : ServeAuth(h)
             \/ Boot \/ CrashAll \/ Clock \/ UNCHANGED mvars
      PROVE  FALSE
  BY <1>3 DEF SearchUsers, GetUser, ServeAuth, Boot, CrashAll, SocketsEnd, Clock, client,
              sockets, mvars
<1>4. /\ tickets[c] # NoTicket /\ socket'[c] = tickets[c].user
      /\ now <= tickets[c].expires
  BY <1>1, <1>2, <1>3, MonolithCases DEF Elsewhere, Clients
<1>5. PICK t \in wallet : /\ jwt[t].user = socket'[c]
                          /\ tickets[c].expires < AccessExpires(t) + TicketTTL
  BY <1>4 DEF TicketInv
<1>6. /\ t \in wallet /\ TicketTTL \in Nat /\ tickets[c].expires \in Nat
      /\ jwt[t].exp \in Nat /\ now \in Nat
  BY TimeAssumption, MonolithAssumption DEF TicketInv, FullInv, TypeInv, TypeOK, Claims
<1>7. now < AccessExpires(t) + TicketTTL
  BY <1>4, <1>5, <1>6, MonolithAssumption, TimeAssumption DEF AccessExpires
<1> QED
  BY <1>5, <1>6, <1>7, TokensAreRecent

\* A logout, a revocation or an expiry ends the requests of its user within
\* the lifetime of an access token, and the opening of sockets within that of
\* a ticket more; what goes on after that goes over sockets that were opened
\* before.
THEOREM AccessIsBounded == MonolithSpec => AccessEndsWithSession
<1> DEFINE CallsBounded ==
      \A c \in Clients : (rpc[c].user = None /\ rpc'[c].user # None) =>
          \/ OpenWithin(rpc'[c].user, AccessTTL)
          \/ c \in Senders /\ socket[c] = rpc'[c].user
<1> DEFINE SocketsBounded ==
      \A c \in Senders : (socket[c] = None /\ socket'[c] # None) =>
          OpenWithin(socket'[c], AccessTTL + TicketTTL)
<1>1. MonolithInit => AddressInv /\ AgeInv /\ TicketInv
  <2> SUFFICES ASSUME MonolithInit PROVE AddressInv /\ AgeInv /\ TicketInv
    OBVIOUS
  <2>1. AddressInv
    BY DEF MonolithInit, Init, Store!Init, Store!Clients, Clients, Store!Idle, AddressInv,
           NamesUnique
  <2>2. AgeInv
    BY DEF MonolithInit, Init, AgeInv, Issued, Stored
  <2>3. TicketInv
    BY DEF MonolithInit, NoTicket, TicketInv
  <2> QED
    BY <2>1, <2>2, <2>3
<1>2. FullInv /\ AddressInv /\ AgeInv /\ [MonolithNext]_mvars => CallsBounded
  <2> SUFFICES ASSUME FullInv, AddressInv, AgeInv, [MonolithNext]_mvars, NEW c \in Clients,
                      rpc[c].user = None, rpc'[c].user # None, Caller(rpc'[c].user)
               PROVE  OpenWithin(rpc'[c].user, AccessTTL)
    BY CallsAreOfCallers
  <2>1. PICK t \in wallet : now < AccessExpires(t) /\ jwt[t].user = rpc'[c].user
    BY DEF Caller, RequireAuth
  <2>2. jwt[t].exp \in Nat
    BY DEF FullInv, TypeInv, TypeOK, Claims
  <2>3. AccessTTL + 0 = AccessTTL /\ AccessExpires(t) + 0 = AccessExpires(t)
    BY <2>2, MonolithAssumption, TimeAssumption DEF AccessExpires
  <2> QED
    BY <2>1, <2>3, TokensAreRecent
<1>3. FullInv /\ AgeInv /\ TicketInv /\ [MonolithNext]_mvars => SocketsBounded
  BY SocketsAreRecent
<1>4. MonolithSpec => [](FullInv /\ FoundInv /\ AddressInv /\ AgeInv /\ TicketInv)
  BY <1>1, NextAddress, NextAge, NextTicket, MonolithFound, PTL DEF MonolithSpec
<1> QED
  BY <1>2, <1>3, <1>4, PTL DEF MonolithSpec, AccessEndsWithSession

-----------------------------------------------------------------------------
(***************************************************************************)
(* The message service of the monolith is the one that MessageStoreProofs  *)
(* is about.                                                               *)
(***************************************************************************)
StoreProofs == INSTANCE MessageStoreProofs WITH Users <- UserIds, call <- rpc

\* The two instances of MessageStore are the same.
LEMMA SameInit == Store!Init <=> StoreProofs!Init
BY DEF Store!Init, StoreProofs!Init, Store!Idle, StoreProofs!Idle, Store!Clients,
       StoreProofs!Clients, Store!NoWalk, StoreProofs!NoWalk

LEMMA SameNext == [Store!Next]_(Store!vars) <=> [StoreProofs!Next]_(StoreProofs!vars)
<1> USE DEF Store!vars, StoreProofs!vars, Store!history, StoreProofs!history,
            Store!Idle, StoreProofs!Idle, Store!Clients, StoreProofs!Clients,
            Store!Visible, StoreProofs!Visible, Store!Answer, StoreProofs!Answer,
            Store!NoWalk, StoreProofs!NoWalk
<1>1. \A c, u, v : Store!SendMessage(c, u, v) <=> StoreProofs!SendMessage(c, u, v)
  BY DEF Store!SendMessage, StoreProofs!SendMessage
<1>2. \A S : Store!Inserted(S) = StoreProofs!Inserted(S)
  BY DEF Store!Inserted, StoreProofs!Inserted
<1>3. \A c : (Store!InsertCommits(c) \/ Store!InsertFails(c))
                <=> (StoreProofs!InsertCommits(c) \/ StoreProofs!InsertFails(c))
  BY <1>2 DEF Store!InsertCommits, StoreProofs!InsertCommits, Store!InsertFails,
              StoreProofs!InsertFails
<1>4. \A c, u, p, cursor, n :
          Store!SelectPage(c, u, p, cursor, n) <=> StoreProofs!SelectPage(c, u, p, cursor, n)
  BY DEF Store!SelectPage, StoreProofs!SelectPage, Store!Pages, StoreProofs!Pages,
         Store!Conversation, StoreProofs!Conversation, Store!Precedes, StoreProofs!Precedes,
         Store!PageLimit, StoreProofs!PageLimit, Store!InOrder, StoreProofs!InOrder,
         Store!Readable, StoreProofs!Readable, Store!IsInjective, StoreProofs!IsInjective,
         Store!Range, StoreProofs!Range, Store!Cardinality, StoreProofs!Cardinality
<1>5. \A c, u, p, n : Store!FirstPage(c, u, p, n) <=> StoreProofs!FirstPage(c, u, p, n)
  BY <1>4 DEF Store!FirstPage, StoreProofs!FirstPage
<1>6. \A c, n : Store!NextPage(c, n) <=> StoreProofs!NextPage(c, n)
  BY <1>4 DEF Store!NextPage, StoreProofs!NextPage
<1>7. \A c : Store!MarkDelivered(c) <=> StoreProofs!MarkDelivered(c)
  BY DEF Store!MarkDelivered, StoreProofs!MarkDelivered, Store!Addressed,
         StoreProofs!Addressed
<1>8. \A c : (Store!Refuse(c) \/ Store!Respond(c))
                <=> (StoreProofs!Refuse(c) \/ StoreProofs!Respond(c))
  BY DEF Store!Refuse, StoreProofs!Refuse, Store!Respond, StoreProofs!Respond,
         Store!WithPage, StoreProofs!WithPage
<1>9. (Store!Tick \/ Store!Restart) <=> (StoreProofs!Tick \/ StoreProofs!Restart)
  BY <1>2 DEF Store!Tick, StoreProofs!Tick, Store!Restart, StoreProofs!Restart
<1>10. Store!Next <=> StoreProofs!Next
  <2>1. \A c : (\E u, v \in UserIds : Store!SendMessage(c, u, v))
                   <=> (\E u, v \in UserIds : StoreProofs!SendMessage(c, u, v))
    BY <1>1
  <2>2. \A c : Store!Send(c) <=> StoreProofs!Send(c)
    BY <1>3, <2>1 DEF Store!Send, StoreProofs!Send
  <2>3. \A c : (\E u, p \in UserIds, n \in Limits : Store!FirstPage(c, u, p, n))
                   <=> (\E u, p \in UserIds, n \in Limits : StoreProofs!FirstPage(c, u, p, n))
    BY <1>5
  <2>4. \A c : (\E n \in Limits : Store!NextPage(c, n))
                   <=> (\E n \in Limits : StoreProofs!NextPage(c, n))
    BY <1>6
  <2>5. \A c : Store!GetHistory(c) <=> StoreProofs!GetHistory(c)
    BY <1>7, <2>3, <2>4 DEF Store!GetHistory, StoreProofs!GetHistory
  <2> QED
    BY <1>8, <1>9, <2>2, <2>5 DEF Store!Next, StoreProofs!Next
<1> QED
  BY <1>10

\* What MessageStore assumes of its constants holds of the monolith's.
LEMMA StoreAssumptions ==
  /\ None \notin UserIds \cup Messages \cup Keys
  /\ Senders \cap Readers = {}
  /\ StoreProofs!IsFiniteSet(Senders \cup Readers)
  /\ Limits \subseteq Int /\ MaxTime \in Nat
<1>1. StoreProofs!IsFiniteSet(Senders \cup Readers)
  BY MonolithAssumption DEF IsFiniteSet, StoreProofs!IsFiniteSet
<1> QED
  BY <1>1, NoneAssumption, TimeAssumption, MonolithAssumption

LEMMA MonolithStoreInv ==
  MonolithSpec => [](FullInv /\ FoundInv /\ StoreProofs!StoreInv /\ StoreProofs!WalkInv
                       /\ StoreProofs!BeforeInv)
<1>1. MonolithSpec => StoreProofs!Spec
  BY StoreImplemented, SameInit, SameNext, PTL
     DEF ImplementsStore, Store!Spec, StoreProofs!Spec
<1>2. StoreProofs!Spec => [](StoreProofs!StoreInv /\ StoreProofs!WalkInv /\ StoreProofs!BeforeInv)
  BY StoreProofs!WalkInvariant, StoreAssumptions
<1> QED
  BY <1>1, <1>2, MonolithFound, PTL

\* The pages of the monolith are those of the message service.
THEOREM MonolithPages ==
  MonolithSpec =>
      [](Store!WalkNeverRepeats /\ Store!WalkMissesOnlyTies /\ Store!WalkKeepsSendOrder)
<1>1. MonolithSpec => StoreProofs!Spec
  BY StoreImplemented, SameInit, SameNext, PTL
     DEF ImplementsStore, Store!Spec, StoreProofs!Spec
<1>2. /\ StoreProofs!Spec => []StoreProofs!WalkNeverRepeats
      /\ StoreProofs!Spec => []StoreProofs!WalkMissesOnlyTies
      /\ StoreProofs!Spec => []StoreProofs!WalkKeepsSendOrder
  BY StoreProofs!PagesNeverRepeat, StoreProofs!PagesMissOnlyTies,
     StoreProofs!PagesKeepSendOrder, StoreAssumptions
<1>3. /\ Store!WalkNeverRepeats <=> StoreProofs!WalkNeverRepeats
      /\ Store!WalkMissesOnlyTies <=> StoreProofs!WalkMissesOnlyTies
      /\ Store!WalkKeepsSendOrder <=> StoreProofs!WalkKeepsSendOrder
  BY DEF Store!WalkNeverRepeats, StoreProofs!WalkNeverRepeats, Store!WalkMissesOnlyTies,
         StoreProofs!WalkMissesOnlyTies, Store!WalkKeepsSendOrder,
         StoreProofs!WalkKeepsSendOrder, Store!IsInjective, StoreProofs!IsInjective,
         Store!Range, StoreProofs!Range
<1> QED
  BY <1>1, <1>2, <1>3, PTL

-----------------------------------------------------------------------------
(***************************************************************************)
(* Who reads a conversation.  A walk is of the user of an access token,    *)
(* who has a row in the table of refresh tokens, and the rows of a page    *)
(* are of the conversation of the walk, whichever call reads it.           *)
(***************************************************************************)
\* The user has had a session.
Known(u) == \E t \in Stored : jwt[t].user = u

TakesPart(c, m) ==
    m \in DOMAIN messages /\ walk[c].user \in {messages[m].from, messages[m].to}

ReaderInv ==
    \A c \in Readers :
        /\ \A m \in Range(walk[c].seen) : TakesPart(c, m)
        /\ StoreProofs!HasPage(c) => \A m \in Range(rpc[c].rows) : TakesPart(c, m)
        /\ walk[c].user # None => Known(walk[c].user)

\* A walk that begins is of the caller.
LEMMA WalksAreOfCallers ==
  ASSUME StoreProofs!StoreInv, [MonolithNext]_mvars, NEW c \in Readers,
         walk'[c].user # walk[c].user
  PROVE  Caller(walk'[c].user)
<1>0. walk \in [Readers -> StoreProofs!Walk]
  BY DEF StoreProofs!StoreInv, StoreProofs!TypeOK
<1>1. ASSUME NEW d \in Readers, GetHistory(d) PROVE Caller(walk'[c].user)
  <2>1. PICK u \in DOMAIN users, n \in Limits : Caller(u) /\ SelectHistory(d, u, n)
    BY <1>1 DEF GetHistory
  <2>2. PICK v : Store!FirstPage(d, u, v, n)
    BY <2>1 DEF SelectHistory, Store!NextPage
  <2>3. walk'[c].user = walk[c].user \/ walk'[c].user = u
    BY <1>0, <2>2 DEF Store!FirstPage, Store!NoWalk
  <2> QED
    BY <2>1, <2>3
<1>2. ASSUME NEW d \in Clients, AnswerMessage(d) PROVE FALSE
  <2>1. ASSUME NEW w \in StoreProofs!Walk, NEW rows
        PROVE  Store!WithPage(w, rows).user = w.user
    BY DEF Store!WithPage, StoreProofs!Walk
  <2> QED
    BY <1>0, <1>2, <2>1 DEF AnswerMessage, Store!Respond
<1>3. ASSUME NEW d \in Clients,
             SendMessage(d) \/ InsertMessage(d) \/ MarkDelivered(d) \/ RefuseMessage(d)
      PROVE  FALSE
  BY <1>3 DEF SendMessage, Store!SendMessage, InsertMessage, Store!InsertCommits,
              Store!InsertFails, MarkDelivered, Store!MarkDelivered, RefuseMessage,
              Store!Refuse
<1>4. CASE \/ \E n \in Usernames : SearchUsers(n)
           \/ \E u \in Met : GetUser(u)
           \/ \E h \in Handlers : ServeAuth(h)
           \/ Boot \/ CrashAll \/ Clock \/ UNCHANGED mvars
  BY <1>4 DEF SearchUsers, GetUser, ServeAuth, Boot, CrashAll, Store!Restart, Clock,
              Store!Tick, store, mvars
<1>5. ASSUME NEW d \in Senders, OnSocket(d) PROVE FALSE
  BY <1>5, SocketStep DEF store
<1> QED
  BY <1>1, <1>2, <1>3, <1>4, <1>5, MonolithCases DEF Elsewhere, Clients

LEMMA NextReader ==
  FullInv /\ FoundInv /\ StoreProofs!StoreInv /\ ReaderInv /\ [MonolithNext]_mvars => ReaderInv'
<1> SUFFICES ASSUME FullInv, FoundInv, StoreProofs!StoreInv, ReaderInv, [MonolithNext]_mvars
             PROVE  ReaderInv'
  OBVIOUS
<1> SUFFICES ASSUME NEW c \in Readers
             PROVE  /\ \A m \in Range(walk'[c].seen) : TakesPart(c, m)'
                    /\ StoreProofs!HasPage(c)' => \A m \in Range(rpc'[c].rows) : TakesPart(c, m)'
                    /\ walk'[c].user # None => Known(walk[c].user)'
  BY DEF ReaderInv
<1>0. /\ [StoreProofs!Next]_(StoreProofs!vars)
      /\ walk \in [Readers -> StoreProofs!Walk] /\ c \in StoreProofs!Clients
      /\ rpc \in [StoreProofs!Clients -> StoreProofs!Call]
      /\ \A m \in Range(walk[c].seen) : TakesPart(c, m)
      /\ StoreProofs!HasPage(c) => \A m \in Range(rpc[c].rows) : TakesPart(c, m)
      /\ walk[c].user # None => Known(walk[c].user)
  BY StoreStep, SameNext
     DEF StoreProofs!StoreInv, StoreProofs!TypeOK, StoreProofs!Clients, ReaderInv
<1>1. /\ \A m \in DOMAIN messages : /\ m \in DOMAIN messages'
                                    /\ messages'[m].from = messages[m].from
                                    /\ messages'[m].to = messages[m].to
  BY <1>0, StoreProofs!RowsStep, StoreAssumptions
     DEF StoreProofs!RowsStay, StoreProofs!Visible
<1>2. walk'[c].user # None => Known(walk[c].user)'
  <2>1. \A t \in Stored : t \in Stored' /\ jwt'[t] = jwt[t]
    BY AuthStep, TablesGrow DEF FullInv, TypeInv, TypeOK
  <2>2. CASE walk'[c].user = walk[c].user
    BY <1>0, <2>1, <2>2 DEF Known
  <2>3. CASE walk'[c].user # walk[c].user
    <3>1. PICK t \in wallet : jwt[t].user = walk'[c].user
      BY <2>3, WalksAreOfCallers DEF Caller
    <3>2. t \in Stored
      BY DEF FullInv, TypeInv, TypeOK
    <3> QED
      BY <2>1, <3>1, <3>2 DEF Known
  <2> QED
    BY <2>2, <2>3
<1>3. CASE /\ walk'[c] = walk[c]
           /\ StoreProofs!HasPage(c)' => StoreProofs!HasPage(c) /\ rpc'[c].rows = rpc[c].rows
  BY <1>0, <1>1, <1>2, <1>3 DEF TakesPart
<1>4. ASSUME NEW p, NEW cursor, NEW n \in Limits,
             StoreProofs!SelectPage(c, walk'[c].user, p, cursor, n), StoreProofs!HasPage(c)'
      PROVE  \A m \in Range(rpc'[c].rows) : TakesPart(c, m)'
  <2>1. PICK u : u = walk'[c].user
    OBVIOUS
  <2>2. UNCHANGED messages /\ Range(rpc'[c].rows) \subseteq StoreProofs!Conversation(u, p)
    BY <1>4, <2>1, StoreProofs!PageOfConversation, StoreAssumptions
       DEF Range, StoreProofs!Range
  <2> QED
    BY <2>1, <2>2 DEF StoreProofs!Conversation, StoreProofs!Visible, TakesPart
<1>5. ASSUME NEW u \in UserIds, NEW p \in UserIds, NEW n \in Limits,
             StoreProofs!FirstPage(c, u, p, n)
      PROVE  /\ \A m \in Range(walk'[c].seen) : TakesPart(c, m)'
             /\ StoreProofs!HasPage(c)' => \A m \in Range(rpc'[c].rows) : TakesPart(c, m)'
  <2>1. walk'[c].user = u /\ walk'[c].seen = <<>>
    BY <1>0, <1>5 DEF StoreProofs!FirstPage, StoreProofs!NoWalk
  <2> QED
    BY <1>4, <1>5, <2>1 DEF StoreProofs!FirstPage, Range
<1>6. ASSUME NEW n \in Limits, StoreProofs!NextPage(c, n)
      PROVE  /\ \A m \in Range(walk'[c].seen) : TakesPart(c, m)'
             /\ StoreProofs!HasPage(c)' => \A m \in Range(rpc'[c].rows) : TakesPart(c, m)'
  <2>1. walk'[c] = walk[c]
    BY <1>6 DEF StoreProofs!NextPage
  <2> QED
    BY <1>0, <1>1, <1>4, <1>6, <2>1 DEF StoreProofs!NextPage, TakesPart
<1>7. ASSUME StoreProofs!HasPage(c), ~StoreProofs!HasPage(c)', UNCHANGED messages,
             walk'[c] = StoreProofs!WithPage(walk[c], rpc[c].rows)
      PROVE  \A m \in Range(walk'[c].seen) : TakesPart(c, m)'
  <2>1. /\ walk[c] \in StoreProofs!Walk /\ walk[c].seen \in Seq(Messages)
        /\ rpc[c].rows \in Seq(Messages)
    BY <1>0 DEF StoreProofs!Walk, StoreProofs!Call
  <2>2. /\ walk'[c].user = walk[c].user
        /\ walk'[c].seen = walk[c].seen \/ walk'[c].seen = walk[c].seen \o rpc[c].rows
    BY <1>7, <2>1 DEF StoreProofs!WithPage, StoreProofs!Walk
  <2>3. Range(walk[c].seen \o rpc[c].rows) = Range(walk[c].seen) \cup Range(rpc[c].rows)
    <3>1. \A f : Range(f) = StoreProofs!Range(f)
      BY DEF Range, StoreProofs!Range
    <3>2. StoreProofs!Range(walk[c].seen \o rpc[c].rows)
              = StoreProofs!Range(walk[c].seen) \cup StoreProofs!Range(rpc[c].rows)
      BY <2>1, StoreProofs!Positions, StoreAssumptions
    <3> QED
      BY <3>1, <3>2
  <2>4. \A m \in Range(walk'[c].seen) : TakesPart(c, m)
    BY <1>0, <1>7, <2>2, <2>3
  <2> QED
    BY <1>1, <2>2, <2>4 DEF TakesPart
<1> QED
  BY <1>0, <1>2, <1>3, <1>5, <1>6, <1>7, StoreProofs!ReaderStep, StoreAssumptions

\* What a client has fetched was sent by or to the user it fetched it for,
\* who has had a session: GetHistory is called for the user of an access
\* token, and its WHERE clause names that user on one side of every row.
THEOREM OnlyPartiesRead == MonolithSpec => []ReadersTakePart
<1>1. MonolithInit => ReaderInv
  BY DEF MonolithInit, Store!Init, Store!Clients, Store!NoWalk, Store!Idle, ReaderInv,
         StoreProofs!HasPage, Range
<1>2. FullInv /\ StoreProofs!StoreInv /\ ReaderInv => ReadersTakePart
  <2> SUFFICES ASSUME FullInv, StoreProofs!StoreInv, ReaderInv, NEW c \in Readers,
                      NEW m \in Range(walk[c].seen)
               PROVE  /\ walk[c].user \in {messages[m].from, messages[m].to}
                      /\ \E f \in Families : owners[f] = {walk[c].user}
    BY DEF ReadersTakePart
  <2>1. TakesPart(c, m)
    BY DEF ReaderInv
  <2>2. walk[c].user # None
    BY <2>1, NoneAssumption
       DEF TakesPart, StoreProofs!StoreInv, StoreProofs!TypeOK, StoreProofs!Visible,
           StoreProofs!Row
  <2>3. PICK t \in Stored : jwt[t].user = walk[c].user
    BY <2>2 DEF ReaderInv, Known
  <2> QED
    BY <2>1, <2>3, OwnersOfStored DEF TakesPart
<1> QED
  BY <1>1, <1>2, NextReader, MonolithStoreInv, PTL DEF MonolithSpec
=============================================================================
