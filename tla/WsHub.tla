------------------------------- MODULE WsHub --------------------------------
(***************************************************************************)
(* The WebSocket hub of the gateway (services/gateway/handler/ws.go):      *)
(* one-time tickets, the map of online users, and one goroutine for each   *)
(* connection, which reads a frame, has the message service store it,      *)
(* answers the sender and pushes the message to the recipient's            *)
(* connection.                                                             *)
(*                                                                         *)
(* The two maps are read and written under their mutexes, so each access   *)
(* is a step; everything a goroutine does between two accesses belongs to  *)
(* one of them.  The message and the user service answer when they like.   *)
(* A write blocks while the socket's buffer is full (no deadline is set),  *)
(* and fails, unnoticed, once the connection is gone.                      *)
(***************************************************************************)
EXTENDS Naturals, Sequences, FiniteSets, Functions

CONSTANTS
    Users,
    Conns,       \* bound: the requests to /ws ever made
    Tickets,     \* bound: the tickets ever issued (uuid.NewString never repeats)
    Messages,    \* bound: the messages ever sent
    TicketTTL,   \* lifetime of a ticket, in ticks of the clock
    MaxTime,     \* bound: the clock stops here
    Buffer,      \* frames that fit between WriteJSON and the peer
    None

ASSUME HubNoneAssumption == None \notin Users \cup Conns \cup Messages
ASSUME HubNumbersAssumption ==
    TicketTTL \in Nat /\ MaxTime \in Nat /\ Buffer \in Nat \ {0}

VARIABLES
    tickets,   \* tickets[t] = [user, expires], for the tickets in the map
    online,    \* online[u]: the connection registered for user u
    conn,      \* conn[c] = [pc, user, msg, rcv]: the goroutine of connection c
    peer,      \* peer[c]: the other end of connection c is still there
    unread,    \* unread[c]: frames written to c that its peer has not read
    now,
    inflight,  \* messages the message service has accepted and not settled
    stored,    \* table messages, in the order of its inserts
    (***********************************************************************)
    (* History variables: what the clients did and saw.                    *)
    (***********************************************************************)
    issued,    \* tickets ever issued
    admitted,  \* admitted[t]: the connections that ticket t let in
    sent,      \* sent[m] = [from, to]: the connection and the addressee of m
    pushed,    \* pushed[c]: the messages pushed on connection c, in order
    met        \* met[c]: connections of the same user registered while c was

hub     == <<tickets, online>>
service == <<inflight, stored>>
history == <<issued, admitted, sent, pushed, met>>
vars    == <<hub, conn, peer, unread, now, service, history>>

-----------------------------------------------------------------------------
Serving == {"reading", "sending", "acking", "erring", "searching", "finding",
            "pushing", "closing"}
Steps == {"new", "upgrading", "registering", "done"} \cup Serving

Conn == [pc   : Steps,
         user : Users \cup {None},      \* data.UserID, from the ticket
         msg  : Messages \cup {None},   \* the frame being handled
         rcpt : Users \cup {None},      \* the user found for its addressee
         rcv  : Conns \cup {None}]      \* and the connection found for the user

Fresh == [pc |-> "new", user |-> None, msg |-> None, rcpt |-> None, rcv |-> None]

IsServing(c) == conn[c].pc \in Serving

\* The other connections of the user of c.
Siblings(c) == {d \in Conns \ {c} : conn[d].user = conn[c].user /\ IsServing(d)}

Goto(c, step) == conn' = [conn EXCEPT ![c].pc = step]

\* The goroutine is back at ReadJSON.
BackToReading(c) ==
    conn' = [conn EXCEPT ![c].pc = "reading", ![c].msg = None, ![c].rcpt = None,
                         ![c].rcv = None]

Gone(c) == ~peer[c] \/ conn[c].pc = "done"

\* Mutants of CanWrite: a write to a closed connection waits like any other;
\* writes never wait.
WaitsForRoom(c) == unread[c] < Buffer
NeverWaits(c) == TRUE

\* WriteJSON can return: the frame fits, or the connection is gone.
CanWrite(c) == Gone(c) \/ unread[c] < Buffer

\* The frame enters the buffer, or is lost with the connection.
Written(c) == unread' = [unread EXCEPT ![c] = IF Gone(c) THEN @ ELSE @ + 1]

-----------------------------------------------------------------------------
(***************************************************************************)
(* Tickets and connections.                                                *)
(***************************************************************************)
IssueWSTicket(u) ==
    /\ \E t \in Tickets \ issued :
           /\ tickets' = [x \in DOMAIN tickets \cup {t} |->
                              IF x = t THEN [user |-> u, expires |-> now + TicketTTL]
                                       ELSE tickets[x]]
           /\ issued' = issued \cup {t}
    /\ UNCHANGED <<online, conn, peer, unread, now, service, admitted, sent, pushed, met>>

\* Mutant of Without: the map is cleared, not the key deleted.
Cleared(f, x) == [y \in {} |-> f[y]]

Without(f, x) == [y \in DOMAIN f \ {x} |-> f[y]]

\* A request presents a ticket, valid or not; one that is found is deleted,
\* expired or not.
Valid(t) == t \in DOMAIN tickets /\ now <= tickets[t].expires

\* Mutant of RedeemTicket: a valid ticket stays in the map until it expires.
RedeemAndKeep(c, t) ==
    /\ conn[c].pc = "new"
    /\ Valid(t)
    /\ conn' = [conn EXCEPT ![c].pc = "upgrading", ![c].user = tickets[t].user]
    /\ admitted' = [admitted EXCEPT ![t] = @ \cup {c}]
    /\ UNCHANGED <<hub, peer, unread, now, service, issued, sent, pushed, met>>

RedeemTicket(c, t) ==
    /\ conn[c].pc = "new"
    /\ IF Valid(t)
       THEN /\ conn' = [conn EXCEPT ![c].pc = "upgrading", ![c].user = tickets[t].user]
            /\ admitted' = [admitted EXCEPT ![t] = @ \cup {c}]
       ELSE /\ Goto(c, "done")
            /\ UNCHANGED admitted
    /\ tickets' = Without(tickets, t)
    /\ UNCHANGED <<online, peer, unread, now, service, issued, sent, pushed, met>>

\* The handshake succeeds or fails; the ticket is spent either way.
Upgrade(c) ==
    /\ conn[c].pc = "upgrading"
    /\ \/ Goto(c, "registering") /\ peer' = [peer EXCEPT ![c] = TRUE]
       \/ Goto(c, "done") /\ UNCHANGED peer
    /\ UNCHANGED <<hub, unread, now, service, history>>

Register(c) ==
    /\ conn[c].pc = "registering"
    /\ online' = [u \in DOMAIN online \cup {conn[c].user} |->
                      IF u = conn[c].user THEN c ELSE online[u]]
    /\ Goto(c, "reading")
    /\ met' = [d \in Conns |-> IF d = c THEN Siblings(c)
                               ELSE IF d \in Siblings(c) THEN met[d] \cup {c}
                               ELSE met[d]]
    /\ UNCHANGED <<tickets, peer, unread, now, service, issued, admitted, sent, pushed>>

-----------------------------------------------------------------------------
(***************************************************************************)
(* The loop of connectWS.                                                  *)
(***************************************************************************)
\* A frame with a recipient and a text starts a call of SendMessage.
ReadMessage(c, m, u) ==
    /\ conn[c].pc = "reading" /\ peer[c]
    /\ m \notin DOMAIN sent
    /\ conn' = [conn EXCEPT ![c].pc = "sending", ![c].msg = m]
    /\ inflight' = inflight \cup {m}
    /\ sent' = [x \in DOMAIN sent \cup {m} |->
                    IF x = m THEN [from |-> c, to |-> u] ELSE sent[x]]
    /\ UNCHANGED <<hub, peer, unread, now, stored, issued, admitted, pushed, met>>

\* A frame without a field, or no message service, is answered at once.
ReadInvalid(c) ==
    /\ conn[c].pc = "reading" /\ peer[c]
    /\ Goto(c, "erring")
    /\ UNCHANGED <<hub, peer, unread, now, service, history>>

\* ReadJSON fails: the peer is gone, has closed, or did not send JSON.
ReadFails(c) ==
    /\ conn[c].pc = "reading"
    /\ Goto(c, "closing")
    /\ UNCHANGED <<hub, peer, unread, now, service, history>>

\* SendMessage returns: success once the message is stored, an error at any
\* time (3 s timeout; the message service does not notice).
SendSucceeds(c) ==
    /\ conn[c].pc = "sending"
    /\ conn[c].msg \in {stored[i] : i \in DOMAIN stored}
    /\ Goto(c, "acking")
    /\ UNCHANGED <<hub, peer, unread, now, service, history>>

\* Mutant of SendFails: the error path lacks its continue.
SendFailsOnward(c) ==
    /\ conn[c].pc = "sending"
    /\ Goto(c, "acking")
    /\ UNCHANGED <<hub, peer, unread, now, service, history>>

SendFails(c) ==
    /\ conn[c].pc = "sending"
    /\ Goto(c, "erring")
    /\ UNCHANGED <<hub, peer, unread, now, service, history>>

WriteError(c) ==
    /\ conn[c].pc = "erring"
    /\ CanWrite(c)
    /\ Written(c)
    /\ BackToReading(c)
    /\ UNCHANGED <<hub, peer, now, service, history>>

WriteAck(c) ==
    /\ conn[c].pc = "acking"
    /\ CanWrite(c)
    /\ Written(c)
    /\ Goto(c, "searching")
    /\ UNCHANGED <<hub, peer, now, service, history>>

Found(c, u) == conn' = [conn EXCEPT ![c].pc = "finding", ![c].rcpt = u]

\* Mutant of SearchRecipient: the first user found is taken.
SearchTakesFirst(c) ==
    /\ conn[c].pc = "searching"
    /\ \E u \in Users : Found(c, u)
    /\ UNCHANGED <<hub, peer, unread, now, service, history>>

\* SearchUsers returns a user, an error or nobody; the user is taken if it
\* has exactly the name in the frame.
SearchRecipient(c) ==
    /\ conn[c].pc = "searching"
    /\ \E u \in Users \cup {None} :
           IF u = sent[conn[c].msg].to THEN Found(c, u) ELSE BackToReading(c)
    /\ UNCHANGED <<hub, peer, unread, now, service, history>>

FindRecipient(c) ==
    /\ conn[c].pc = "finding"
    /\ IF conn[c].rcpt \in DOMAIN online
       THEN conn' = [conn EXCEPT ![c].pc = "pushing", ![c].rcv = online[conn[c].rcpt]]
       ELSE BackToReading(c)
    /\ UNCHANGED <<hub, peer, unread, now, service, history>>

\* The pointer was read before the lock was released: the connection may
\* have been replaced or closed since.
Push(c) ==
    /\ conn[c].pc = "pushing"
    /\ CanWrite(conn[c].rcv)
    /\ Written(conn[c].rcv)
    /\ pushed' = IF Gone(conn[c].rcv) THEN pushed
                 ELSE [pushed EXCEPT ![conn[c].rcv] = Append(@, conn[c].msg)]
    /\ BackToReading(c)
    /\ UNCHANGED <<hub, peer, now, service, issued, admitted, sent, met>>

\* The deferred function deletes the user's entry, whoever's it is, and
\* closes the socket.
\*
\* Mutant of Disconnect: the map is not cleaned.
DisconnectOnly(c) ==
    /\ conn[c].pc = "closing"
    /\ conn' = [conn EXCEPT ![c].pc = "done"]
    /\ peer' = [peer EXCEPT ![c] = FALSE]
    /\ UNCHANGED <<hub, unread, now, service, history>>

Disconnect(c) ==
    /\ conn[c].pc = "closing"
    /\ online' = Without(online, conn[c].user)
    /\ conn' = [conn EXCEPT ![c].pc = "done"]
    /\ peer' = [peer EXCEPT ![c] = FALSE]
    /\ UNCHANGED <<tickets, unread, now, service, history>>

-----------------------------------------------------------------------------
(***************************************************************************)
(* The environment: the message service, the peers, the clock, a restart.  *)
(***************************************************************************)
\* The INSERT of SendMessage commits, or the call ends without one, both
\* possibly after the gateway has given up.
StoreMessage(m) ==
    /\ m \in inflight
    /\ inflight' = inflight \ {m}
    /\ \/ stored' = Append(stored, m)
       \/ UNCHANGED stored
    /\ UNCHANGED <<hub, conn, peer, unread, now, history>>

PeerReads(c) ==
    /\ peer[c] /\ unread[c] > 0
    /\ unread' = [unread EXCEPT ![c] = @ - 1]
    /\ UNCHANGED <<hub, conn, peer, now, service, history>>

PeerLeaves(c) ==
    /\ peer[c]
    /\ peer' = [peer EXCEPT ![c] = FALSE]
    /\ UNCHANGED <<hub, conn, unread, now, service, history>>

Tick ==
    /\ now < MaxTime
    /\ now' = now + 1
    /\ UNCHANGED <<hub, conn, peer, unread, service, history>>

\* Both maps and every connection live in the memory of the process.
Restart ==
    /\ tickets' = [t \in {} |-> None]
    /\ online' = [u \in {} |-> None]
    /\ conn' = [c \in Conns |-> IF conn[c].pc = "new" THEN conn[c]
                                ELSE [conn[c] EXCEPT !.pc = "done"]]
    /\ peer' = [c \in Conns |-> FALSE]
    /\ UNCHANGED <<unread, now, service, history>>

-----------------------------------------------------------------------------
Init ==
    /\ tickets = [t \in {} |-> None]
    /\ online = [u \in {} |-> None]
    /\ conn = [c \in Conns |-> Fresh]
    /\ peer = [c \in Conns |-> FALSE]
    /\ unread = [c \in Conns |-> 0]
    /\ now = 0
    /\ inflight = {}
    /\ stored = <<>>
    /\ issued = {}
    /\ admitted = [t \in Tickets |-> {}]
    /\ sent = [m \in {} |-> None]
    /\ pushed = [c \in Conns |-> <<>>]
    /\ met = [c \in Conns |-> {}]

\* What a goroutine does by itself.
Handle(c) ==
    \/ Upgrade(c)
    \/ Register(c)
    \/ ~peer[c] /\ ReadFails(c)
    \/ SendSucceeds(c)
    \/ SendFails(c)
    \/ WriteError(c)
    \/ WriteAck(c)
    \/ SearchRecipient(c)
    \/ FindRecipient(c)
    \/ Push(c)
    \/ Disconnect(c)

\* What a client makes it do.
Request(c) ==
    \/ \E t \in Tickets : RedeemTicket(c, t)
    \/ \E m \in Messages, u \in Users : ReadMessage(c, m, u)
    \/ ReadInvalid(c)
    \/ peer[c] /\ ReadFails(c)
    \/ PeerReads(c)
    \/ PeerLeaves(c)

Next ==
    \/ \E u \in Users : IssueWSTicket(u)
    \/ \E c \in Conns : Handle(c) \/ Request(c)
    \/ \E m \in Messages : StoreMessage(m)
    \/ Tick
    \/ Restart

Spec == Init /\ [][Next]_vars

\* Goroutines are scheduled; a call to a service returns within its timeout;
\* sync.Mutex serves the writers of a connection in turn (strong fairness
\* where a buffer may fill again); a peer that is there reads its socket.
Fairness ==
    \A c \in Conns : SF_vars(Handle(c)) /\ WF_vars(PeerReads(c))

FairSpec == Spec /\ Fairness

-----------------------------------------------------------------------------
(***************************************************************************)
(* Properties.                                                             *)
(***************************************************************************)
\* Every map and every goroutine holds values of its type.
TypeOK ==
    /\ DOMAIN tickets \subseteq issued /\ issued \subseteq Tickets
    /\ tickets \in [DOMAIN tickets -> [user : Users, expires : Nat]]
    /\ DOMAIN online \subseteq Users
    /\ online \in [DOMAIN online -> Conns]
    /\ conn \in [Conns -> Conn]
    /\ peer \in [Conns -> BOOLEAN]
    /\ unread \in [Conns -> 0 .. Buffer]
    /\ now \in 0 .. MaxTime
    /\ inflight \subseteq DOMAIN sent /\ DOMAIN sent \subseteq Messages
    /\ sent \in [DOMAIN sent -> [from : Conns, to : Users]]
    /\ stored \in Seq(DOMAIN sent)
    /\ admitted \in [Tickets -> SUBSET Conns]
    /\ pushed \in [Conns -> Seq(DOMAIN sent)]
    /\ met \in [Conns -> SUBSET Conns]

\* A ticket lets in one connection, in any interleaving of the requests that
\* present it, of its expiry and of restarts.
TicketAdmitsOnce ==
    \A t \in Tickets : Cardinality(admitted[t]) <= 1

\* The map never leads to a finished connection nor to another user's: what
\* the deferred function deletes is enough, though it does not look.
OnlineIsServed ==
    \A u \in DOMAIN online :
        IsServing(online[u]) /\ conn[online[u]].user = u

\* A connection that serves a user and is missing from the map has met
\* another connection of that user: replacement is the only way to lose it.
UnlistedOnlyIfReplaced ==
    \A c \in Conns :
        IsServing(c) =>
            \/ conn[c].user \in DOMAIN online /\ online[conn[c].user] = c
            \/ met[c] # {}

\* Nothing is pushed before it is stored, nor to anybody but its addressee,
\* even when the connection found has been replaced since.
PushedIsStoredAndAddressed ==
    \A c \in Conns : \A m \in Range(pushed[c]) :
        m \in Range(stored) /\ sent[m].to = conn[c].user

\* The messages of one sending connection are pushed, on any connection, in
\* the order in which the history has them.
PushesFollowHistory ==
    \A c \in Conns : \A i, j \in DOMAIN pushed[c] :
        (i < j /\ sent[pushed[c][i]].from = sent[pushed[c][j]].from) =>
            \E k, l \in DOMAIN stored :
                k < l /\ stored[k] = pushed[c][i] /\ stored[l] = pushed[c][j]

\* A goroutine whose peer has left, or that handles a frame, gets back to
\* reading or ends: no write waits for a reader that waits for a write.
GoroutinesComeBack ==
    \A c \in Conns :
        /\ (IsServing(c) /\ ~peer[c]) ~> (conn[c].pc = "done")
        /\ (IsServing(c) /\ conn[c].pc # "reading") ~> (conn[c].pc \in {"reading", "done"})

\* docs/roadmap.md, 4.2 and 4.3: the state is updated when users connect and
\* disconnect, so a user with a connection being served is online.
ConnectedUsersAreOnline ==
    \A c \in Conns : IsServing(c) => conn[c].user \in DOMAIN online
=============================================================================
