----------------------------- MODULE ChatScreen -----------------------------
(***************************************************************************)
(* An open chat of the mobile client (mobile/vual_mobile/lib/main.dart,    *)
(* _ChatScreenState), from initState to dispose.  It loads the newest page *)
(* of the history, asks for it again every three seconds, whether or not   *)
(* the last request has been answered, and listens to a WebSocket, which   *)
(* it reopens when it ends.  A page replaces the list; a pushed message is *)
(* added to its end.                                                       *)
(*                                                                         *)
(* Every await lets other callbacks run.  Time is not modelled: a timer    *)
(* fires at some moment after it was set.                                  *)
(***************************************************************************)
EXTENDS Integers, Sequences, FiniteSets, Functions

CONSTANTS
    Incoming,   \* bound: the messages the peer sends to the user,
    Outgoing,   \* the user to the peer,
    Foreign,    \* and others to the user
    Requests,   \* bound: the requests for a page in progress at one time
    Sockets,    \* bound: the WebSocket connections ever opened
    PageLimit,  \* the page size of the message service: the app names none
    None

Messages == Incoming \cup Outgoing \cup Foreign

ASSUME ChatMessagesAssumption ==
    /\ Incoming \cap Outgoing = {}
    /\ Foreign \cap (Incoming \cup Outgoing) = {}
    /\ None \notin Sockets \cup Outgoing
    /\ PageLimit \in Nat

VARIABLES
    shown,       \* _messages
    mounted,     \* not _disposed
    loading,     \* _loading
    sending,     \* the message that _send is sending, while _sending is set
    request,     \* request[r]: a call of getHistory
    ws,          \* _ws
    connecting,  \* _wsConnecting, and which answer _connectWs awaits
    timer,       \* _reconnectTimer is active
    (***********************************************************************)
    (* The server and the network.                                         *)
    (***********************************************************************)
    stored,      \* the messages of the chat, oldest first
    afloat,      \* the messages handed to the server and not yet stored
    socket,      \* socket[s]: the state of the client's end
    frames,      \* frames[s]: the messages pushed to s and not yet received
    pushed       \* the messages pushed so far: the gateway pushes each once

screen == <<shown, mounted, loading, sending, request>>
link   == <<ws, connecting, timer>>
server == <<stored, afloat, socket, frames, pushed>>
vars   == <<screen, link, server>>

-----------------------------------------------------------------------------
Page == Seq(Messages)

\* "open" and "sent" are calls of _loadHistory, from initState and from _send;
\* "poll" is one of _refreshHistorySilently.
Request == [pc   : {"idle", "asked", "answered"},
            kind : {"open", "sent", "poll"},
            page : Page]

Free == [pc |-> "idle", kind |-> "poll", page |-> <<>>]
Asked(kind) == [Free EXCEPT !.pc = "asked", !.kind = kind]

Stored == Range(stored)

Newest(n, s) == SubSeq(s, IF Len(s) > n THEN Len(s) - n + 1 ELSE 1, Len(s))

\* GET /v1/messages/{peer}, in the order in which the screen shows it.
History == Newest(PageLimit, stored)

-----------------------------------------------------------------------------
(***************************************************************************)
(* _loadHistory, _refreshHistorySilently and _send.                        *)
(***************************************************************************)
\* _pollTimer fires.
Poll(r) ==
    /\ mounted
    /\ ~loading
    /\ request[r].pc = "idle"
    /\ request' = [request EXCEPT ![r] = Asked("poll")]
    /\ UNCHANGED <<shown, mounted, loading, sending, link, server>>

\* The server selects the page; its answer travels from then on.
Select(r) ==
    /\ request[r].pc = "asked"
    /\ request' = [request EXCEPT ![r].pc = "answered", ![r].page = History]
    /\ UNCHANGED <<shown, mounted, loading, sending, link, server>>

\* A call of _loadHistory ends, and _send with it; an unmounted screen does
\* not change any more.
End(r) ==
    /\ request' = [request EXCEPT ![r] = Free]
    /\ loading' = (loading /\ ~(mounted /\ request[r].kind # "poll"))
    /\ sending' = IF mounted /\ request[r].kind = "sent" THEN None ELSE sending

\* Mutant of SameMessages: only the lengths are compared.
SameLength(a, b) == Len(a) = Len(b)

\* _sameMessages
SameMessages(a, b) == a = b

\* The page replaces the list, whatever was pushed since it was selected.
Show(r) ==
    /\ request[r].pc = "answered"
    /\ IF ~mounted \/ (request[r].kind = "poll" /\ SameMessages(shown, request[r].page))
       THEN UNCHANGED shown
       ELSE shown' = request[r].page
    /\ End(r)
    /\ UNCHANGED <<mounted, link, server>>

\* Mutant of RequestFails: _loading is reset when the page arrives only.
FailsLoading(r) ==
    /\ request[r].pc # "idle"
    /\ request' = [request EXCEPT ![r] = Free]
    /\ sending' = IF mounted /\ request[r].kind = "sent" THEN None ELSE sending
    /\ UNCHANGED <<shown, mounted, loading, link, server>>

\* The call throws: _loadHistory shows the error, a poll hides it.
RequestFails(r) ==
    /\ request[r].pc # "idle"
    /\ End(r)
    /\ UNCHANGED <<shown, mounted, link, server>>

Send(m) ==
    /\ mounted
    /\ sending = None
    /\ m \in Outgoing \ (afloat \cup Stored)
    /\ sending' = m
    /\ afloat' = afloat \cup {m}
    /\ UNCHANGED <<shown, mounted, loading, request, link, stored, socket, frames, pushed>>

\* No load has been started for the message that is being sent.
AwaitsSend ==
    /\ mounted
    /\ sending # None
    /\ \A r \in Requests : request[r].kind # "sent"

\* sendMessage returns: the message is stored, and the page is loaded.  On a
\* screen that is gone, the first setState of _loadHistory throws.
SendSucceeds(r) ==
    /\ AwaitsSend
    /\ sending \in Stored
    /\ request[r].pc = "idle"
    /\ request' = [request EXCEPT ![r] = Asked("sent")]
    /\ loading' = TRUE
    /\ UNCHANGED <<shown, mounted, sending, link, server>>

\* sendMessage throws, though the message may have been, or be, stored.
SendFails ==
    /\ AwaitsSend
    /\ sending' = None
    /\ UNCHANGED <<shown, mounted, loading, request, link, server>>

-----------------------------------------------------------------------------
(***************************************************************************)
(* _connectWs, _scheduleReconnect and _handleWsEvent.                      *)
(***************************************************************************)
\* _scheduleReconnect, with _ws as w: a timer that is active stays.
ScheduleReconnect(w) == timer' = (timer \/ (mounted /\ w = None))

\* The ticket is issued, and WebSocket.connect is called with it.
TicketIssued ==
    /\ connecting = "ticket"
    /\ connecting' = "upgrade"
    /\ UNCHANGED <<screen, ws, timer, server>>

\* Mutant of Connected: the screen may have been closed meanwhile.
ConnectedLate(s) ==
    /\ connecting = "upgrade"
    /\ socket[s] = "unused"
    /\ connecting' = "no"
    /\ ws' = s
    /\ timer' = FALSE
    /\ socket' = [socket EXCEPT ![s] = "open"]
    /\ UNCHANGED <<screen, stored, afloat, frames, pushed>>

\* The socket is kept and listened to; it is closed at once if the screen has
\* been closed meanwhile.
Connected(s) ==
    /\ connecting = "upgrade"
    /\ socket[s] = "unused"
    /\ connecting' = "no"
    /\ \/ /\ mounted
          /\ ws' = s
          /\ timer' = FALSE
          /\ socket' = [socket EXCEPT ![s] = "open"]
       \/ /\ ~mounted
          /\ socket' = [socket EXCEPT ![s] = "closed"]
          /\ UNCHANGED <<ws, timer>>
    /\ UNCHANGED <<screen, stored, afloat, frames, pushed>>

ConnectFails ==
    /\ connecting # "no"
    /\ connecting' = "no"
    /\ ScheduleReconnect(ws)
    /\ UNCHANGED <<screen, ws, server>>

\* _reconnectTimer calls _connectWs, which has a look at the state first.
Reconnect ==
    /\ timer
    /\ timer' = FALSE
    /\ connecting' = IF mounted /\ connecting = "no" /\ ws = None
                     THEN "ticket" ELSE connecting
    /\ UNCHANGED <<screen, ws, server>>

\* Mutant of SocketEnds: the reconnection is scheduled before _ws is reset.
SchedulesFirst(s) ==
    /\ socket[s] \in {"open", "closing"}
    /\ socket' = [socket EXCEPT ![s] = "closed"]
    /\ ws' = None
    /\ ScheduleReconnect(ws)
    /\ UNCHANGED <<screen, connecting, stored, afloat, frames, pushed>>

\* onError or onDone, which do not look at which socket has ended.
SocketEnds(s) ==
    /\ socket[s] \in {"open", "closing"}
    /\ socket' = [socket EXCEPT ![s] = "closed"]
    /\ ws' = None
    /\ ScheduleReconnect(None)
    /\ UNCHANGED <<screen, connecting, stored, afloat, frames, pushed>>

\* Mutant of Receive: messages of other chats are added too.
ReceiveAny(s) ==
    /\ socket[s] \in {"open", "closing"}
    /\ frames[s] # <<>>
    /\ frames' = [frames EXCEPT ![s] = Tail(@)]
    /\ IF mounted THEN shown' = Append(shown, Head(frames[s])) ELSE UNCHANGED shown
    /\ UNCHANGED <<mounted, loading, sending, request, link, stored, afloat, socket, pushed>>

\* A pushed message of the peer is added to the list, even if it is there.
Receive(s) ==
    /\ socket[s] \in {"open", "closing"}
    /\ frames[s] # <<>>
    /\ frames' = [frames EXCEPT ![s] = Tail(@)]
    /\ IF mounted /\ Head(frames[s]) \in Incoming
       THEN shown' = Append(shown, Head(frames[s]))
       ELSE UNCHANGED shown
    /\ UNCHANGED <<mounted, loading, sending, request, link, stored, afloat, socket, pushed>>

\* The user leaves the chat.  onDone of the socket comes later.
Dispose ==
    /\ mounted
    /\ mounted' = FALSE
    /\ timer' = FALSE
    /\ socket' = [s \in Sockets |-> IF s = ws THEN "closing" ELSE socket[s]]
    /\ UNCHANGED <<shown, loading, sending, request, ws, connecting, stored, afloat,
                   frames, pushed>>

-----------------------------------------------------------------------------
(***************************************************************************)
(* The server.                                                             *)
(***************************************************************************)
Store(m) ==
    /\ m \in afloat
    /\ afloat' = afloat \ {m}
    /\ stored' = IF m \in Foreign THEN stored ELSE Append(stored, m)
    /\ UNCHANGED <<screen, link, socket, frames, pushed>>

\* A message is pushed once, after it is stored, to the connection on the map,
\* or not at all.
Push(m, s) ==
    /\ m \in (Incoming \cup Foreign) \ (afloat \cup pushed)
    /\ socket[s] = "open"
    /\ frames' = [frames EXCEPT ![s] = Append(@, m)]
    /\ pushed' = pushed \cup {m}
    /\ UNCHANGED <<screen, link, stored, afloat, socket>>

-----------------------------------------------------------------------------
\* initState has called _loadHistory and _connectWs.
Init ==
    /\ shown = <<>>
    /\ mounted = TRUE
    /\ loading = TRUE
    /\ sending = None
    /\ \E r \in Requests :
           request = [q \in Requests |-> IF q = r THEN Asked("open") ELSE Free]
    /\ ws = None
    /\ connecting = "ticket"
    /\ timer = FALSE
    /\ stored = <<>>
    /\ afloat = Incoming \cup Foreign
    /\ socket = [s \in Sockets |-> "unused"]
    /\ frames = [s \in Sockets |-> <<>>]
    /\ pushed = {}

Pages(r) ==
    \/ Poll(r)
    \/ Select(r)
    \/ Show(r)
    \/ RequestFails(r)
    \/ SendSucceeds(r)

Socket(s) ==
    \/ Connected(s)
    \/ SocketEnds(s)
    \/ Receive(s)
    \/ \E m \in Messages : Push(m, s)

Next ==
    \/ \E r \in Requests : Pages(r)
    \/ \E s \in Sockets : Socket(s)
    \/ \E m \in Messages : Send(m) \/ Store(m)
    \/ SendFails
    \/ TicketIssued
    \/ ConnectFails
    \/ Reconnect
    \/ Dispose

Spec == Init /\ [][Next]_vars

\* The timer keeps firing while the screen is open, and requests are not
\* answered with errors forever.
FairSpec ==
    /\ Spec
    /\ SF_vars(\E r \in Requests : Poll(r))
    /\ SF_vars(\E r \in Requests : Select(r))
    /\ SF_vars(\E r \in Requests : Show(r))

-----------------------------------------------------------------------------
(***************************************************************************)
(* Properties.                                                             *)
(***************************************************************************)
\* Every field holds a value of its type, and an open screen is loading only
\* while a call of _loadHistory is under way: polls wait for it to end.
TypeOK ==
    /\ mounted /\ loading => \E r \in Requests : request[r].kind # "poll"
    /\ shown \in Page
    /\ mounted \in BOOLEAN
    /\ loading \in BOOLEAN
    /\ sending \in Outgoing \cup {None}
    /\ request \in [Requests -> Request]
    /\ ws \in Sockets \cup {None}
    /\ connecting \in {"no", "ticket", "upgrade"}
    /\ timer \in BOOLEAN
    /\ stored \in Seq(Incoming \cup Outgoing)
    /\ afloat \subseteq Messages
    /\ socket \in [Sockets -> {"unused", "open", "closing", "closed"}]
    /\ frames \in [Sockets -> Page]
    /\ pushed \subseteq Messages \ afloat

\* The list is a page of the chat's history, as it was at some time, followed
\* by messages the peer has sent, each once: although pages overtake pushes
\* and each other, nothing of another chat is shown, and no message more
\* than twice.
PageThenPushes ==
    \E n \in 0 .. Len(shown) :
        LET pushes == SubSeq(shown, n + 1, Len(shown))
        IN  /\ \E k \in 0 .. Len(stored) :
                   SubSeq(shown, 1, n) = Newest(PageLimit, SubSeq(stored, 1, k))
            /\ Range(pushes) \subseteq Incoming \cap Stored
            /\ IsInjective(pushes)

\* An open screen has a socket, is connecting one, or has the timer set that
\* will: the guards of _connectWs and _scheduleReconnect never leave it
\* without any of the three, nor with two sockets.
KeepsReconnecting ==
    /\ mounted => \/ ws # None /\ socket[ws] = "open"
                  \/ connecting # "no"
                  \/ timer
    /\ \A s \in Sockets : socket[s] = "open" => s = ws

\* When the user has left the chat, no socket stays open and no timer is
\* set, not even by the connection attempt that was under way.
ScreenLeavesNothing == ~mounted => ~timer /\ \A s \in Sockets : socket[s] # "open"

\* While the screen is open the list comes to be the history, and stays it,
\* once no more messages are sent: later polls repair what late pages and
\* repeated pushes have done to it.
ListConverges == <>[](mounted => shown = History)
=============================================================================
