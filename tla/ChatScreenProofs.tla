-------------------------- MODULE ChatScreenProofs --------------------------
(***************************************************************************)
(* Proofs about ChatScreen, for every number of messages, requests and     *)
(* sockets and every size of a page.                                       *)
(***************************************************************************)
EXTENDS ChatScreen, SequenceTheorems, TLAPS

-----------------------------------------------------------------------------
\* Outgoing messages are never pushed: a message that is sent was not.
TypeInv == TypeOK /\ pushed \cap Outgoing = {}

\* The socket that is kept is the open one; a socket is being connected only
\* if there is none; a timer is set only while the screen is open.
LinkInv ==
    /\ \A s \in Sockets : socket[s] = "open" => s = ws /\ mounted
    /\ \A s \in Sockets : socket[s] = "closing" => ~mounted
    /\ mounted /\ ws # None => socket[ws] = "open"
    /\ connecting # "no" => ws = None
    /\ mounted => ws # None \/ connecting # "no" \/ timer
    /\ timer => mounted

-----------------------------------------------------------------------------
\* A page of history h, as it is or as it was.
IsPage(page, h) == \E k \in 0 .. Len(h) : page = Newest(PageLimit, SubSeq(h, 1, k))

PagesInv ==
    \A r \in Requests : request[r].pc = "answered" => IsPage(request[r].page, stored)

\* A message that was pushed waits in one place, or has been received.
FramesInv ==
    /\ Incoming \subseteq afloat \cup Stored
    /\ \A s \in Sockets : Range(frames[s]) \subseteq pushed /\ IsInjective(frames[s])
    /\ \A s, t \in Sockets : s # t => Range(frames[s]) \cap Range(frames[t]) = {}

\* The list is a page up to position n, and what follows will not come again.
ReceivedAfter(n) ==
    /\ IsPage(SubSeq(shown, 1, n), stored)
    /\ \A i \in n + 1 .. Len(shown) :
           /\ shown[i] \in Incoming \cap pushed
           /\ \A s \in Sockets : shown[i] \notin Range(frames[s])
    /\ \A i, j \in n + 1 .. Len(shown) : shown[i] = shown[j] => i = j

ListInv == \E n \in 0 .. Len(shown) : ReceivedAfter(n)

ChatInv == TypeInv /\ LinkInv /\ PagesInv /\ FramesInv /\ ListInv

-----------------------------------------------------------------------------
(***************************************************************************)
(* Sequences.                                                              *)
(***************************************************************************)
LEMMA Appended ==
  ASSUME NEW S, NEW s \in Seq(S), NEW e \in S
  PROVE  /\ Append(s, e) \in Seq(S)
         /\ Len(Append(s, e)) = Len(s) + 1
         /\ \A i \in 1 .. Len(s) : Append(s, e)[i] = s[i]
         /\ Append(s, e)[Len(s) + 1] = e
         /\ Range(Append(s, e)) = Range(s) \cup {e}
<1>1. /\ Append(s, e) \in Seq(S)
      /\ Len(Append(s, e)) = Len(s) + 1
      /\ \A i \in 1 .. Len(s) : Append(s, e)[i] = s[i]
      /\ Append(s, e)[Len(s) + 1] = e
  BY AppendProperties
<1>2. /\ Len(s) \in Nat /\ DOMAIN s = 1 .. Len(s)
      /\ DOMAIN Append(s, e) = 1 .. Len(s) + 1
  BY <1>1, LenProperties
<1>3. 1 .. Len(s) + 1 = 1 .. Len(s) \cup {Len(s) + 1}
  BY <1>2
<1> QED
  BY <1>1, <1>2, <1>3 DEF Range

\* The first element of a sequence without repetitions is not in the rest.
LEMMA TailOf ==
  ASSUME NEW S, NEW s \in Seq(S), s # <<>>
  PROVE  /\ Head(s) \in S /\ Head(s) \in Range(s)
         /\ Tail(s) \in Seq(S)
         /\ Range(Tail(s)) \subseteq Range(s)
         /\ IsInjective(s) => IsInjective(Tail(s)) /\ Head(s) \notin Range(Tail(s))
<1>1. /\ Head(s) \in S /\ Head(s) = s[1]
      /\ Tail(s) \in Seq(S) /\ Len(Tail(s)) = Len(s) - 1
      /\ \A i \in 1 .. Len(Tail(s)) : Tail(s)[i] = s[i + 1]
  BY HeadTailProperties
<1>2. /\ Len(s) \in Nat \ {0} /\ DOMAIN s = 1 .. Len(s)
      /\ DOMAIN Tail(s) = 1 .. Len(s) - 1
  BY <1>1, EmptySeq, LenProperties
<1>3. Head(s) \in Range(s)
  BY <1>1, <1>2 DEF Range
<1>4. \A i \in 1 .. Len(s) - 1 : i + 1 \in 1 .. Len(s) /\ i + 1 # 1 /\ Tail(s)[i] = s[i + 1]
  BY <1>1, <1>2
<1>5. Range(Tail(s)) \subseteq Range(s)
  BY <1>2, <1>4 DEF Range
<1>6. ASSUME IsInjective(s) PROVE IsInjective(Tail(s)) /\ Head(s) \notin Range(Tail(s))
  <2>1. \A i, j \in 1 .. Len(s) - 1 : Tail(s)[i] = Tail(s)[j] => i + 1 = j + 1
    BY <1>2, <1>4, <1>6 DEF IsInjective
  <2>2. IsInjective(Tail(s))
    BY <1>2, <2>1 DEF IsInjective
  <2>3. \A i \in 1 .. Len(s) - 1 : Tail(s)[i] # s[1]
    BY <1>2, <1>4, <1>6 DEF IsInjective
  <2> QED
    BY <1>1, <1>2, <2>2, <2>3 DEF Range
<1> QED
  BY <1>1, <1>3, <1>5, <1>6

LEMMA AppendDistinct ==
  ASSUME NEW S, NEW s \in Seq(S), NEW e \in S, IsInjective(s), e \notin Range(s)
  PROVE  IsInjective(Append(s, e))
<1>1. /\ Append(s, e) \in Seq(S) /\ Len(Append(s, e)) = Len(s) + 1
      /\ \A i \in 1 .. Len(s) : Append(s, e)[i] = s[i]
      /\ Append(s, e)[Len(s) + 1] = e
  BY Appended
<1>2. /\ Len(s) \in Nat /\ DOMAIN s = 1 .. Len(s)
      /\ DOMAIN Append(s, e) = 1 .. Len(s) + 1
  BY <1>1, LenProperties
<1>3. \A i \in 1 .. Len(s) : s[i] # e
  BY <1>2 DEF Range
<1> QED
  BY <1>1, <1>2, <1>3 DEF IsInjective

\* The end, and the beginning, of a sequence.
LEMMA Part ==
  ASSUME NEW S, NEW s \in Seq(S), NEW n \in 0 .. Len(s)
  PROVE  /\ SubSeq(s, 1, n) \in Seq(S) /\ Len(SubSeq(s, 1, n)) = n
         /\ \A i \in 1 .. n : SubSeq(s, 1, n)[i] = s[i]
         /\ SubSeq(s, n + 1, Len(s)) \in Seq(S)
         /\ Len(SubSeq(s, n + 1, Len(s))) = Len(s) - n
         /\ \A i \in 1 .. Len(s) - n : SubSeq(s, n + 1, Len(s))[i] = s[n + i]
<1>1. Len(s) \in Nat /\ n \in Nat /\ \A i \in 1 .. Len(s) : s[i] \in S
  BY ElementOfSeq, LenProperties
<1>2. \A i \in 1 .. n : s[i] \in S
  BY <1>1
<1>3. \A i \in n + 1 .. Len(s) : s[i] \in S
  BY <1>1
<1>4. /\ SubSeq(s, 1, n) \in Seq(S) /\ Len(SubSeq(s, 1, n)) = n
      /\ \A i \in 1 .. n : SubSeq(s, 1, n)[i] = s[i]
  BY <1>1, <1>2, SubSeqProperties
<1>5. /\ SubSeq(s, n + 1, Len(s)) \in Seq(S)
      /\ Len(SubSeq(s, n + 1, Len(s))) = Len(s) - n
      /\ \A i \in 1 .. Len(s) - n : SubSeq(s, n + 1, Len(s))[i] = s[n + i]
  BY <1>1, <1>3, SubSeqProperties
<1> QED
  BY <1>4, <1>5

\* What has been appended changes no part of what was there.
LEMMA PartOfAppended ==
  ASSUME NEW S, NEW s \in Seq(S), NEW e \in S, NEW n \in 0 .. Len(s)
  PROVE  SubSeq(Append(s, e), 1, n) = SubSeq(s, 1, n)
<1>1. /\ Len(s) \in Nat /\ n \in 0 .. Len(Append(s, e)) /\ Append(s, e) \in Seq(S)
      /\ \A i \in 1 .. Len(s) : Append(s, e)[i] = s[i]
  BY Appended, LenProperties
<1>2. /\ SubSeq(s, 1, n) \in Seq(S) /\ Len(SubSeq(s, 1, n)) = n
      /\ \A i \in 1 .. n : SubSeq(s, 1, n)[i] = s[i]
  BY Part
<1>3. /\ SubSeq(Append(s, e), 1, n) \in Seq(S) /\ Len(SubSeq(Append(s, e), 1, n)) = n
      /\ \A i \in 1 .. n : SubSeq(Append(s, e), 1, n)[i] = Append(s, e)[i]
  BY <1>1, Part
<1> QED
  BY <1>1, <1>2, <1>3, SeqEqual

\* A page is made of messages of the chat.
LEMMA NewestIsPage ==
  ASSUME NEW S, NEW s \in Seq(S)
  PROVE  Newest(PageLimit, s) \in Seq(S)
<1>1. Len(s) \in Nat /\ PageLimit \in Nat
  BY LenProperties, ChatMessagesAssumption
<1> DEFINE first == IF Len(s) > PageLimit THEN Len(s) - PageLimit + 1 ELSE 1
<1>2. first \in Int /\ first >= 1
  BY <1>1
<1> HIDE DEF first
<1>3. \A i \in first .. Len(s) : s[i] \in S
  BY <1>1, <1>2, ElementOfSeq
<1>4. SubSeq(s, first, Len(s)) \in Seq(S)
  BY <1>1, <1>2, <1>3, SubSeqProperties
<1> QED
  BY <1>4 DEF Newest, first

-----------------------------------------------------------------------------
(***************************************************************************)
(* Types.                                                                  *)
(***************************************************************************)
LEMMA Pieces ==
  /\ Free \in Request /\ Free.pc = "idle" /\ Free.kind = "poll"
  /\ \A kind \in {"open", "sent", "poll"} :
         Asked(kind) \in Request /\ Asked(kind).pc = "asked" /\ Asked(kind).kind = kind
<1>1. <<>> \in Page
  BY EmptySeq DEF Page
<1> QED
  BY <1>1 DEF Free, Asked, Request

\* Request r changes to t.
RequestBecomes(r, t) ==
    /\ request' \in [Requests -> Request]
    /\ request'[r] = t
    /\ \A q \in Requests \ {r} : request'[q] = request[q]

\* What the actions of request r do to it.
LEMMA RequestMoves ==
  ASSUME TypeInv, NEW r \in Requests, Pages(r)
  PROVE  \E t \in Request :
             /\ RequestBecomes(r, t)
             /\ \/ Poll(r) /\ t.pc = "asked"
                \/ Select(r) /\ t.kind = request[r].kind /\ t.page = History
                \/ (Show(r) \/ RequestFails(r)) /\ t.pc = "idle"
                \/ SendSucceeds(r) /\ t.pc = "asked" /\ t.kind = "sent"
<1>0. request \in [Requests -> Request] /\ request[r] \in Request
  BY DEF TypeInv, TypeOK
<1>1. ASSUME NEW t \in Request, request' = [request EXCEPT ![r] = t]
      PROVE  RequestBecomes(r, t)
  BY <1>0, <1>1 DEF RequestBecomes
<1>2. CASE Poll(r)
  BY <1>1, <1>2, Pieces DEF Poll
<1>3. CASE Select(r)
  <2> DEFINE t == [request[r] EXCEPT !.pc = "answered", !.page = History]
  <2>1. History \in Page
    <3>1. stored \in Seq(Messages)
      BY SeqMonotonic DEF TypeInv, TypeOK, Messages
    <3> QED
      BY <3>1, NewestIsPage DEF History, Page
  <2>2. t \in Request /\ t.kind = request[r].kind /\ t.page = History
    BY <1>0, <2>1 DEF Request
  <2>3. request' = [request EXCEPT ![r] = t]
    BY <1>0, <1>3 DEF Select
  <2> HIDE DEF t
  <2> QED
    BY <1>1, <1>3, <2>2, <2>3
<1>4. CASE Show(r) \/ RequestFails(r)
  BY <1>1, <1>4, Pieces DEF Show, RequestFails, End
<1>5. CASE SendSucceeds(r)
  BY <1>1, <1>5, Pieces DEF SendSucceeds
<1> QED
  BY <1>2, <1>3, <1>4, <1>5 DEF Pages

LEMMA TypeStep ==
  ASSUME TypeInv, [Next]_vars
  PROVE  TypeInv'
<1> USE DEF TypeInv, TypeOK
<1>0. ASSUME NEW w, ScheduleReconnect(w) PROVE timer' \in BOOLEAN
  BY <1>0, Zenon DEF ScheduleReconnect
<1>1. ASSUME NEW r \in Requests, Pages(r) PROVE TypeInv'
  <2>1. PICK t \in Request :
             /\ RequestBecomes(r, t)
             /\ \/ Poll(r) /\ t.pc = "asked"
                \/ Select(r) /\ t.kind = request[r].kind /\ t.page = History
                \/ (Show(r) \/ RequestFails(r)) /\ t.pc = "idle"
                \/ SendSucceeds(r) /\ t.pc = "asked" /\ t.kind = "sent"
    BY <1>1, RequestMoves
  <2>2. UNCHANGED <<mounted, ws, connecting, timer, stored, afloat, socket, frames, pushed>>
    BY <1>1 DEF Pages, Poll, Select, Show, RequestFails, SendSucceeds, link, server
  <2>3. shown' \in Page
    <3>1. UNCHANGED shown \/ shown' = request[r].page
      BY <2>1 DEF Poll, Select, Show, RequestFails, SendSucceeds
    <3> QED
      BY <3>1 DEF Request
  <2>4. loading' \in BOOLEAN /\ sending' \in Outgoing \cup {None}
    BY <2>1 DEF Poll, Select, Show, RequestFails, SendSucceeds, End
  <2>5. mounted' /\ loading' => \E q \in Requests : request'[q].kind # "poll"
    <3> SUFFICES ASSUME mounted, loading' PROVE \E q \in Requests : request'[q].kind # "poll"
      BY <2>2
    <3>1. CASE Poll(r)
      BY <3>1 DEF Poll
    <3>2. CASE t.kind # "poll"
      BY <2>1, <3>2 DEF RequestBecomes
    <3>3. CASE /\ \/ Select(r) /\ t.kind = request[r].kind
                  \/ Show(r) \/ RequestFails(r)
               /\ t.kind = "poll"
      <4>1. loading /\ request[r].kind = "poll"
        BY <3>3 DEF Select, Show, RequestFails, End
      <4>2. PICK q \in Requests : request[q].kind # "poll"
        BY <4>1
      <4> QED
        BY <2>1, <4>1, <4>2 DEF RequestBecomes
    <3> QED
      BY <2>1, <3>1, <3>2, <3>3
  <2> QED
    BY <2>1, <2>2, <2>3, <2>4, <2>5 DEF RequestBecomes
<1>2. ASSUME NEW s \in Sockets, Connected(s) \/ SocketEnds(s) PROVE TypeInv'
  <2>1. timer' \in BOOLEAN
    BY <1>0, <1>2 DEF Connected, SocketEnds
  <2>2. /\ UNCHANGED <<screen, stored, afloat, frames, pushed>>
        /\ connecting' \in {connecting, "no"} /\ ws' \in {s, ws, None}
        /\ socket' \in {[socket EXCEPT ![s] = "open"], [socket EXCEPT ![s] = "closed"]}
    BY <1>2 DEF Connected, SocketEnds
  <2> QED
    BY <2>1, <2>2 DEF screen
<1>3. ASSUME NEW s \in Sockets, Receive(s) PROVE TypeInv'
  <2>1. Head(frames[s]) \in Messages /\ Tail(frames[s]) \in Page
    BY <1>3, TailOf DEF Receive, Page
  <2>2. Append(shown, Head(frames[s])) \in Page
    BY <2>1, Appended DEF Page
  <2>3. shown' \in Page /\ frames' \in [Sockets -> Page]
    BY <1>3, <2>1, <2>2 DEF Receive
  <2> QED
    BY <1>3, <2>3 DEF Receive, link
<1>4. ASSUME NEW s \in Sockets, NEW m \in Messages, Push(m, s) PROVE TypeInv'
  <2>1. Append(frames[s], m) \in Page
    BY Appended DEF Page
  <2>2. frames' \in [Sockets -> Page]
    BY <1>4, <2>1 DEF Push
  <2>3. m \notin Outgoing /\ m \notin afloat
    BY <1>4, ChatMessagesAssumption DEF Push
  <2> QED
    BY <1>4, <2>2, <2>3 DEF Push, screen, link
<1>5. ASSUME NEW m \in Messages, Send(m) PROVE TypeInv'
  BY <1>5 DEF Send, link, Messages
<1>6. ASSUME NEW m \in Messages, Store(m) PROVE TypeInv'
  <2>1. m \notin Foreign => Append(stored, m) \in Seq(Incoming \cup Outgoing)
    BY Appended DEF Messages
  <2> QED
    BY <1>6, <2>1 DEF Store, screen, link
<1>7. CASE SendFails
  BY <1>7 DEF SendFails, link, server
<1>8. CASE TicketIssued \/ ConnectFails \/ Reconnect
  <2>1. timer' \in BOOLEAN
    BY <1>0, <1>8 DEF TicketIssued, ConnectFails, Reconnect
  <2>2. /\ UNCHANGED <<screen, ws, server>>
        /\ connecting' \in {"no", "ticket", "upgrade"}
    BY <1>8 DEF TicketIssued, ConnectFails, Reconnect
  <2> QED
    BY <2>1, <2>2 DEF screen, server
<1>9. CASE Dispose
  BY <1>9 DEF Dispose
<1>10. CASE UNCHANGED vars
  BY <1>10 DEF vars, screen, link, server
<1> QED
  BY <1>1, <1>2, <1>3, <1>4, <1>5, <1>6, <1>7, <1>8, <1>9, <1>10 DEF Next, Socket

-----------------------------------------------------------------------------
(***************************************************************************)
(* The connection.                                                         *)
(***************************************************************************)
LEMMA LinkStep ==
  ASSUME TypeInv, LinkInv, [Next]_vars
  PROVE  LinkInv'
<1> USE ChatMessagesAssumption DEF LinkInv
<1>0. /\ socket \in [Sockets -> {"unused", "open", "closing", "closed"}]
      /\ ws \in Sockets \cup {None} /\ mounted \in BOOLEAN /\ timer \in BOOLEAN
      /\ None \notin Sockets
  BY DEF TypeInv, TypeOK
<1>a. ASSUME NEW w, ScheduleReconnect(w) PROVE timer' <=> (timer \/ (mounted /\ w = None))
  BY <1>a, Zenon DEF ScheduleReconnect
<1>b. ASSUME UNCHANGED <<mounted, link, socket>> PROVE LinkInv'
  BY <1>b DEF link
<1>1. ASSUME NEW r \in Requests, Pages(r) PROVE LinkInv'
  BY <1>1, <1>b DEF Pages, Poll, Select, Show, RequestFails, SendSucceeds, server
<1>2. ASSUME NEW s \in Sockets, Connected(s) PROVE LinkInv'
  <2>1. /\ connecting # "no" /\ ws = None /\ UNCHANGED mounted /\ connecting' = "no"
        /\ \A q \in Sockets : socket[q] # "open"
        /\ \A q \in Sockets \ {s} : socket'[q] = socket[q]
    BY <1>0, <1>2 DEF Connected, screen
  <2>2. CASE mounted /\ ws' = s /\ timer' = FALSE /\ socket' = [socket EXCEPT ![s] = "open"]
    <3>1. socket'[s] = "open"
      BY <1>0, <2>2
    <3> QED
      BY <1>0, <2>1, <2>2, <3>1
  <2>3. CASE ~mounted /\ socket' = [socket EXCEPT ![s] = "closed"] /\ UNCHANGED <<ws, timer>>
    <3>1. socket'[s] = "closed"
      BY <1>0, <2>3
    <3> QED
      BY <1>0, <2>1, <2>3, <3>1
  <2> QED
    BY <1>2, <2>2, <2>3 DEF Connected
<1>3. ASSUME NEW s \in Sockets, SocketEnds(s) PROVE LinkInv'
  <2>1. /\ UNCHANGED <<mounted, connecting>> /\ ws' = None /\ socket'[s] = "closed"
        /\ \A q \in Sockets \ {s} : socket'[q] = socket[q]
        /\ timer' <=> (timer \/ mounted)
    BY <1>0, <1>3, <1>a DEF SocketEnds, screen
  <2>2. mounted => s = ws
    BY <1>3 DEF SocketEnds
  <2> QED
    BY <1>0, <2>1, <2>2
<1>4. ASSUME NEW s \in Sockets, Receive(s) \/ \E m \in Messages : Push(m, s) PROVE LinkInv'
  BY <1>4, <1>b DEF Receive, Push, screen
<1>5. ASSUME NEW m \in Messages, Send(m) \/ Store(m) PROVE LinkInv'
  BY <1>5, <1>b DEF Send, Store, screen
<1>6. CASE SendFails
  BY <1>6, <1>b DEF SendFails, server
<1>7. CASE TicketIssued
  BY <1>7 DEF TicketIssued, screen, server
<1>8. CASE ConnectFails
  <2>1. /\ UNCHANGED <<mounted, ws, socket>> /\ connecting' = "no" /\ ws = None
        /\ timer' <=> (timer \/ mounted)
    BY <1>8, <1>a DEF ConnectFails, screen, server
  <2> QED
    BY <2>1
<1>9. CASE Reconnect
  BY <1>9 DEF Reconnect, screen, server
<1>10. CASE Dispose
  <2>1. \A s \in Sockets : socket'[s] = IF s = ws THEN "closing" ELSE socket[s]
    BY <1>10 DEF Dispose
  <2> QED
    BY <1>0, <1>10, <2>1 DEF Dispose
<1>11. CASE UNCHANGED vars
  BY <1>11, <1>b DEF vars, screen, server
<1> QED
  BY <1>1, <1>2, <1>3, <1>4, <1>5, <1>6, <1>7, <1>8, <1>9, <1>10, <1>11 DEF Next, Socket

-----------------------------------------------------------------------------
(***************************************************************************)
(* Pages and pushes.                                                       *)
(***************************************************************************)
\* The history only grows, and so it has the pages that it had.
LEMMA HistoryStep ==
  ASSUME TypeInv, [Next]_vars
  PROVE  /\ \/ UNCHANGED stored
            \/ \E m \in Incoming \cup Outgoing : Store(m) /\ stored' = Append(stored, m)
         /\ \A page : IsPage(page, stored) => IsPage(page, stored')
         /\ Stored \subseteq Stored'
<1>1. \/ UNCHANGED stored
      \/ \E m \in Incoming \cup Outgoing : Store(m) /\ stored' = Append(stored, m)
  <2>1. ASSUME NEW m \in Messages, Store(m)
        PROVE  \/ UNCHANGED stored
               \/ m \in Incoming \cup Outgoing /\ stored' = Append(stored, m)
    BY <2>1 DEF Store, Messages
  <2>2. CASE ~(\E m \in Messages : Store(m))
    BY <2>2 DEF Next, Pages, Socket, Poll, Select, Show, RequestFails, SendSucceeds, Connected,
                SocketEnds, Receive, Push, Send, SendFails, TicketIssued, ConnectFails,
                Reconnect, Dispose, vars, server
  <2> QED
    BY <2>1, <2>2
<1>2. ASSUME NEW m \in Incoming \cup Outgoing, stored' = Append(stored, m)
      PROVE  /\ \A page : IsPage(page, stored) => IsPage(page, stored')
             /\ Stored \subseteq Stored'
  <2>1. stored \in Seq(Incoming \cup Outgoing) /\ Len(stored) \in Nat
    BY LenProperties DEF TypeInv, TypeOK
  <2>2. Len(stored') = Len(stored) + 1 /\ Range(stored') = Range(stored) \cup {m}
    BY <1>2, <2>1, Appended
  <2>3. \A k \in 0 .. Len(stored) :
            k \in 0 .. Len(stored') /\ SubSeq(stored', 1, k) = SubSeq(stored, 1, k)
    BY <1>2, <2>1, <2>2, PartOfAppended
  <2>4. \A page : IsPage(page, stored) => IsPage(page, stored')
    BY <2>3 DEF IsPage
  <2> QED
    BY <2>2, <2>4 DEF Stored
<1> QED
  BY <1>1, <1>2 DEF Stored

LEMMA PagesStep ==
  ASSUME TypeInv, PagesInv, [Next]_vars
  PROVE  PagesInv'
<1>0. \A page : IsPage(page, stored) => IsPage(page, stored')
  BY HistoryStep
<1>1. ASSUME NEW r \in Requests, Pages(r) PROVE PagesInv'
  <2>1. PICK t \in Request :
             /\ RequestBecomes(r, t)
             /\ \/ t.pc # "answered"
                \/ Select(r) /\ t.page = History
    BY <1>1, RequestMoves
  <2>2. Select(r) => IsPage(History, stored')
    <3>1. stored \in Seq(Incoming \cup Outgoing) /\ Len(stored) \in Nat
      BY LenProperties DEF TypeInv, TypeOK
    <3>2. SubSeq(stored, 1, Len(stored)) = stored /\ Len(stored) \in 0 .. Len(stored)
      BY <3>1, SubSeqFull
    <3>3. IsPage(History, stored)
      BY <3>2 DEF IsPage, History
    <3> QED
      BY <1>0, <3>3
  <2>3. \A q \in Requests \ {r} : request'[q] = request[q]
    BY <2>1 DEF RequestBecomes
  <2>4. request'[r] = t
    BY <2>1 DEF RequestBecomes
  <2> QED
    BY <1>0, <2>1, <2>2, <2>3, <2>4 DEF PagesInv
<1>2. CASE ~(\E r \in Requests : Pages(r))
  <2>1. UNCHANGED request
    BY <1>2 DEF Next, Socket, Connected, SocketEnds, Receive, Push, Send, Store, SendFails,
                TicketIssued, ConnectFails, Reconnect, Dispose, vars, screen
  <2> QED
    BY <1>0, <2>1 DEF PagesInv
<1> QED
  BY <1>1, <1>2

\* What happens to the frames and to the list.
LEMMA DeliveryCases ==
  ASSUME [Next]_vars
  PROVE  \/ \E s \in Sockets : Receive(s)
         \/ \E s \in Sockets, m \in Messages : Push(m, s)
         \/ /\ UNCHANGED <<frames, pushed>>
            /\ \/ UNCHANGED shown
               \/ \E r \in Requests : /\ request[r].pc = "answered"
                                      /\ shown' = request[r].page
<1>1. CASE \E s \in Sockets : Receive(s) \/ \E m \in Messages : Push(m, s)
  BY <1>1
<1>2. ASSUME NEW r \in Requests, Pages(r)
      PROVE  /\ UNCHANGED <<frames, pushed>>
             /\ \/ UNCHANGED shown
                \/ request[r].pc = "answered" /\ shown' = request[r].page
  BY <1>2 DEF Pages, Poll, Select, Show, RequestFails, SendSucceeds, server
<1>3. CASE /\ ~(\E s \in Sockets : Receive(s) \/ \E m \in Messages : Push(m, s))
           /\ ~(\E r \in Requests : Pages(r))
  BY <1>3 DEF Next, Socket, Connected, SocketEnds, Send, Store, SendFails, TicketIssued,
              ConnectFails, Reconnect, Dispose, vars, screen, server
<1> QED
  BY <1>1, <1>2, <1>3

\* Receiving takes the first frame of one socket; pushing adds one to one.
LEMMA FramesMove ==
  ASSUME TypeInv, NEW s \in Sockets, NEW f \in Page, frames' = [frames EXCEPT ![s] = f]
  PROVE  frames'[s] = f /\ \A q \in Sockets \ {s} : frames'[q] = frames[q]
BY DEF TypeInv, TypeOK

LEMMA FramesStep ==
  ASSUME TypeInv, FramesInv, [Next]_vars
  PROVE  FramesInv'
<1>0. /\ frames \in [Sockets -> Page] /\ Stored \subseteq Stored'
      /\ stored \in Seq(Incoming \cup Outgoing)
  BY HistoryStep DEF TypeInv, TypeOK
<1>1. Incoming \subseteq afloat' \cup Stored'
  <2>1. ASSUME NEW m \in Messages, Store(m) PROVE Incoming \subseteq afloat' \cup Stored'
    <3>1. m \in Incoming => m \in Stored'
      <4> SUFFICES ASSUME m \in Incoming PROVE m \in Stored'
        OBVIOUS
      <4>1. stored' = Append(stored, m)
        BY <2>1, ChatMessagesAssumption DEF Store
      <4> QED
        BY <1>0, <4>1, Appended DEF Stored
    <3> QED
      BY <1>0, <2>1, <3>1 DEF Store, FramesInv
  <2>2. CASE ~(\E m \in Messages : Store(m))
    <3>1. afloat \subseteq afloat'
      BY <2>2 DEF Next, Pages, Socket, Poll, Select, Show, RequestFails, SendSucceeds, Connected,
                  SocketEnds, Receive, Push, Send, SendFails, TicketIssued, ConnectFails,
                  Reconnect, Dispose, vars, server
    <3> QED
      BY <1>0, <3>1 DEF FramesInv
  <2> QED
    BY <2>1, <2>2
<1>2. ASSUME NEW s \in Sockets, Receive(s) PROVE FramesInv'
  <2>1. frames[s] \in Seq(Messages) /\ frames[s] # <<>> /\ IsInjective(frames[s])
    BY <1>0, <1>2 DEF Receive, Page, FramesInv
  <2>2. /\ Tail(frames[s]) \in Page
        /\ Range(Tail(frames[s])) \subseteq Range(frames[s]) /\ IsInjective(Tail(frames[s]))
    BY <2>1, TailOf DEF Page
  <2>3. /\ frames'[s] = Tail(frames[s]) /\ \A q \in Sockets \ {s} : frames'[q] = frames[q]
        /\ UNCHANGED pushed
    BY <1>2, <2>2, FramesMove DEF Receive
  <2>4. \A q \in Sockets : /\ Range(frames'[q]) \subseteq Range(frames[q])
                           /\ IsInjective(frames'[q])
    BY <2>2, <2>3 DEF FramesInv
  <2> QED
    BY <1>1, <2>3, <2>4 DEF FramesInv
<1>3. ASSUME NEW s \in Sockets, NEW m \in Messages, Push(m, s) PROVE FramesInv'
  <2>1. /\ frames[s] \in Seq(Messages) /\ IsInjective(frames[s]) /\ m \notin pushed
        /\ \A q \in Sockets : m \notin Range(frames[q])
    BY <1>0, <1>3 DEF Push, Page, FramesInv
  <2>2. /\ Append(frames[s], m) \in Page
        /\ Range(Append(frames[s], m)) = Range(frames[s]) \cup {m}
        /\ IsInjective(Append(frames[s], m))
    BY <2>1, Appended, AppendDistinct DEF Page
  <2>3. /\ frames'[s] = Append(frames[s], m) /\ \A q \in Sockets \ {s} : frames'[q] = frames[q]
        /\ pushed' = pushed \cup {m}
    BY <1>3, <2>2, FramesMove DEF Push
  <2>4. \A q \in Sockets : Range(frames'[q]) \subseteq pushed' /\ IsInjective(frames'[q])
    BY <2>2, <2>3 DEF FramesInv
  <2>5. \A q, t \in Sockets : q # t => Range(frames'[q]) \cap Range(frames'[t]) = {}
    <3>1. \A q \in Sockets :
              Range(frames'[q]) = IF q = s THEN Range(frames[q]) \cup {m} ELSE Range(frames[q])
      BY <2>2, <2>3
    <3>2. \A q, t \in Sockets : q # t => Range(frames[q]) \cap Range(frames[t]) = {}
      BY DEF FramesInv
    <3>3. ASSUME NEW q \in Sockets, NEW t \in Sockets, q # t
          PROVE  Range(frames'[q]) \cap Range(frames'[t]) = {}
      <4>1. CASE q = s
        BY <2>1, <3>1, <3>2, <3>3, <4>1
      <4>2. CASE q # s
        BY <2>1, <3>1, <3>2, <3>3, <4>2
      <4> QED
        BY <4>1, <4>2
    <3> QED
      BY <3>3
  <2> QED
    BY <1>1, <2>4, <2>5 DEF FramesInv
<1>4. CASE UNCHANGED <<frames, pushed>>
  BY <1>1, <1>4 DEF FramesInv
<1> QED
  BY <1>2, <1>3, <1>4, DeliveryCases

LEMMA ListStep ==
  ASSUME TypeInv, PagesInv, FramesInv, ListInv, [Next]_vars
  PROVE  ListInv'
<1>0. /\ shown \in Seq(Messages) /\ Len(shown) \in Nat
      /\ \A page : IsPage(page, stored) => IsPage(page, stored')
  BY HistoryStep, LenProperties DEF TypeInv, TypeOK, Page
<1>a. PICK n \in 0 .. Len(shown) : ReceivedAfter(n)
  BY DEF ListInv
\* The list stays, and no message in it is pushed again.
<1>1. ASSUME UNCHANGED shown, pushed \subseteq pushed',
             \A i \in n + 1 .. Len(shown), s \in Sockets : shown[i] \notin Range(frames'[s])
      PROVE  ListInv'
  BY <1>0, <1>1, <1>a DEF ListInv, ReceivedAfter
<1>2. ASSUME NEW s \in Sockets, Receive(s) PROVE ListInv'
  <2> DEFINE m == Head(frames[s])
  <2>1. /\ frames[s] \in Seq(Messages) /\ frames[s] # <<>> /\ IsInjective(frames[s])
        /\ Range(frames[s]) \subseteq pushed
    BY <1>2 DEF Receive, Page, FramesInv, TypeInv, TypeOK
  <2>2. /\ m \in Messages /\ m \in Range(frames[s]) /\ Tail(frames[s]) \in Page
        /\ Range(Tail(frames[s])) \subseteq Range(frames[s]) /\ m \notin Range(Tail(frames[s]))
    BY <2>1, TailOf DEF Page
  <2>3. /\ frames'[s] = Tail(frames[s]) /\ \A q \in Sockets \ {s} : frames'[q] = frames[q]
        /\ UNCHANGED <<pushed, stored>>
    BY <1>2, <2>2, FramesMove DEF Receive
  <2>4. \A q \in Sockets : Range(frames'[q]) \subseteq Range(frames[q]) /\ m \notin Range(frames'[q])
    BY <2>2, <2>3 DEF FramesInv
  <2>5. CASE UNCHANGED shown
    BY <1>1, <1>a, <2>3, <2>4, <2>5 DEF ReceivedAfter
  <2>6. CASE shown' = Append(shown, m) /\ m \in Incoming
    <3> HIDE DEF m
    <3>1. /\ Len(shown') = Len(shown) + 1 /\ shown'[Len(shown) + 1] = m
          /\ \A i \in 1 .. Len(shown) : shown'[i] = shown[i]
      BY <1>0, <2>2, <2>6, Appended
    <3>2. SubSeq(shown', 1, n) = SubSeq(shown, 1, n)
      BY <1>0, <2>2, <2>6, PartOfAppended
    <3>3. \A i \in n + 1 .. Len(shown) :
              /\ i \in 1 .. Len(shown) /\ shown[i] \in Incoming \cap pushed
              /\ \A q \in Sockets : shown[i] \notin Range(frames[q])
              /\ shown[i] # m
      BY <1>0, <1>a, <2>2 DEF ReceivedAfter
    <3>4. \A i \in n + 1 .. Len(shown') : i \in n + 1 .. Len(shown) \/ i = Len(shown) + 1
      BY <1>0, <3>1
    <3>5. \A i \in n + 1 .. Len(shown') :
              /\ shown'[i] \in Incoming \cap pushed'
              /\ \A q \in Sockets : shown'[i] \notin Range(frames'[q])
      BY <2>1, <2>2, <2>3, <2>4, <2>6, <3>1, <3>3, <3>4
    <3>6. \A i, j \in n + 1 .. Len(shown') : shown'[i] = shown'[j] => i = j
      BY <1>a, <3>1, <3>3, <3>4 DEF ReceivedAfter
    <3>7. IsPage(SubSeq(shown', 1, n), stored')
      BY <1>0, <1>a, <3>2 DEF ReceivedAfter
    <3>8. n \in 0 .. Len(shown')
      BY <1>0, <3>1
    <3> QED
      BY <3>5, <3>6, <3>7, <3>8 DEF ListInv, ReceivedAfter
  <2> QED
    BY <1>2, <2>5, <2>6 DEF Receive
<1>3. ASSUME NEW s \in Sockets, NEW m \in Messages, Push(m, s) PROVE ListInv'
  <2>1. /\ frames[s] \in Seq(Messages) /\ m \notin pushed
    BY <1>3 DEF Push, Page, TypeInv, TypeOK
  <2>2. Append(frames[s], m) \in Page /\ Range(Append(frames[s], m)) = Range(frames[s]) \cup {m}
    BY <2>1, Appended DEF Page
  <2>3. /\ frames'[s] = Append(frames[s], m) /\ \A q \in Sockets \ {s} : frames'[q] = frames[q]
        /\ pushed' = pushed \cup {m} /\ UNCHANGED shown
    BY <1>3, <2>2, FramesMove DEF Push, screen
  <2>4. \A q \in Sockets : Range(frames'[q]) \subseteq Range(frames[q]) \cup {m}
    BY <2>2, <2>3
  <2> QED
    BY <1>1, <1>a, <2>1, <2>3, <2>4 DEF ReceivedAfter
<1>4. CASE UNCHANGED <<frames, pushed, shown>>
  BY <1>1, <1>4, <1>a DEF ReceivedAfter
\* A page takes the place of the list.
<1>5. ASSUME UNCHANGED <<frames, pushed>>,
             NEW r \in Requests, request[r].pc = "answered", shown' = request[r].page
      PROVE  ListInv'
  <2>1. shown' \in Seq(Messages) /\ Len(shown') \in Nat
    BY <1>5, LenProperties DEF TypeInv, TypeOK, Request, Page
  <2>2. SubSeq(shown', 1, Len(shown')) = shown'
    BY <2>1, SubSeqFull
  <2>3. IsPage(shown', stored')
    BY <1>0, <1>5 DEF PagesInv
  <2>4. Len(shown') \in 0 .. Len(shown') /\ Len(shown') + 1 .. Len(shown') = {}
    BY <2>1
  <2> QED
    BY <2>2, <2>3, <2>4 DEF ListInv, ReceivedAfter
<1> QED
  BY <1>2, <1>3, <1>4, <1>5, DeliveryCases

-----------------------------------------------------------------------------
(***************************************************************************)
(* The theorems.                                                           *)
(***************************************************************************)
LEMMA InitHolds == Init => ChatInv
<1> SUFFICES ASSUME Init PROVE ChatInv
  OBVIOUS
<1> USE Pieces, ChatMessagesAssumption DEF Init
<1>0. <<>> \in Page /\ <<>> \in Seq(Incoming \cup Outgoing) /\ Len(<<>>) = 0
  BY EmptySeq DEF Page
<1>1. TypeInv
  <2>1. PICK r \in Requests :
            request = [q \in Requests |-> IF q = r THEN Asked("open") ELSE Free]
    OBVIOUS
  <2>2. request \in [Requests -> Request] /\ request[r].kind = "open"
    BY <2>1
  <2> QED
    BY <1>0, <2>2 DEF TypeInv, TypeOK, Messages
<1>2. LinkInv
  BY DEF LinkInv
<1>3. PagesInv
  BY DEF PagesInv
<1>4. FramesInv
  <2>1. Range(<<>>) = {} /\ IsInjective(<<>>)
    BY DEF Range, IsInjective
  <2> QED
    BY <2>1 DEF FramesInv
<1>5. ListInv
  <2>1. SubSeq(<<>>, 1, 0) = <<>>
    BY SubSeqEmpty
  <2>2. Newest(PageLimit, <<>>) = <<>>
    BY <1>0, <2>1 DEF Newest
  <2>3. IsPage(SubSeq(shown, 1, 0), stored)
    <3>1. IsPage(<<>>, <<>>)
      <4>1. 0 \in 0 .. Len(<<>>)
        BY <1>0
      <4>2. <<>> = Newest(PageLimit, SubSeq(<<>>, 1, 0))
        BY <2>1, <2>2
      <4> QED
        BY <4>1, <4>2 DEF IsPage
    <3>2. shown = <<>> /\ stored = <<>>
      OBVIOUS
    <3> QED
      BY <2>1, <3>1, <3>2
  <2>4. 0 \in 0 .. Len(shown) /\ 1 .. Len(shown) = {}
    BY <1>0
  <2> QED
    BY <2>3, <2>4 DEF ListInv, ReceivedAfter
<1> QED
  BY <1>1, <1>2, <1>3, <1>4, <1>5 DEF ChatInv

\* The inductive invariant: a socket, an attempt to connect and the timer
\* exclude or follow each other; a page that travels was the history when it
\* was selected, and a message that was pushed is in one place only.
THEOREM ChatInvariant == Spec => []ChatInv
<1>1. ChatInv /\ [Next]_vars => ChatInv'
  BY TypeStep, LinkStep, PagesStep, FramesStep, ListStep DEF ChatInv
<1> QED
  BY InitHolds, <1>1, PTL DEF Spec

\* Every field holds a value of its type, and _loading is set only while a
\* call of _loadHistory will reset it: the screen does not stop polling.
THEOREM ChatTypeCorrect == Spec => []TypeOK
<1>1. ChatInv => TypeOK
  BY DEF ChatInv, TypeInv
<1> QED
  BY <1>1, ChatInvariant, PTL

\* An open screen has its one socket, is connecting it, or has a timer set
\* that will, whatever fails and whenever: _connectWs and _scheduleReconnect
\* leave no gap between their guards.
THEOREM ScreenReconnects == Spec => []KeepsReconnecting
<1>1. ChatInv => KeepsReconnecting
  BY DEF ChatInv, LinkInv, KeepsReconnecting
<1> QED
  BY <1>1, ChatInvariant, PTL

\* After dispose no socket is open and no timer is set: an attempt to connect
\* that outlives the screen closes its own socket.
THEOREM DisposeIsFinal == Spec => []ScreenLeavesNothing
<1>1. ChatInv => ScreenLeavesNothing
  BY DEF ChatInv, LinkInv, ScreenLeavesNothing
<1> QED
  BY <1>1, ChatInvariant, PTL

\* The list is always a page that the history had, and then messages of the
\* peer, each once: a page that is late takes the place of all of the list,
\* and a frame is received once.
THEOREM ListIsPageThenPushes == Spec => []PageThenPushes
<1>1. ChatInv => PageThenPushes
  <2> SUFFICES ASSUME ChatInv PROVE PageThenPushes
    OBVIOUS
  <2>1. PICK n \in 0 .. Len(shown) : ReceivedAfter(n)
    BY DEF ChatInv, ListInv
  <2> DEFINE pushes == SubSeq(shown, n + 1, Len(shown))
  <2>2. shown \in Seq(Messages) /\ Len(shown) \in Nat
    BY LenProperties DEF ChatInv, TypeInv, TypeOK, Page
  <2>3. /\ pushes \in Seq(Messages) /\ Len(pushes) = Len(shown) - n
        /\ \A i \in 1 .. Len(shown) - n : pushes[i] = shown[n + i]
    BY <2>2, Part
  <2> HIDE DEF pushes
  <2>4. DOMAIN pushes = 1 .. Len(shown) - n
    BY <2>3, LenProperties
  <2>5. \A i \in 1 .. Len(shown) - n : n + i \in n + 1 .. Len(shown)
    BY <2>2
  <2>6. Incoming \cap pushed \subseteq Incoming \cap Stored
    BY DEF ChatInv, TypeInv, TypeOK, FramesInv
  <2>7. Range(pushes) \subseteq Incoming \cap Stored
    BY <2>1, <2>3, <2>4, <2>5, <2>6 DEF Range, ReceivedAfter
  <2>8. IsInjective(pushes)
    <3>1. \A i, j \in 1 .. Len(shown) - n : pushes[i] = pushes[j] => n + i = n + j
      BY <2>1, <2>3, <2>5 DEF ReceivedAfter
    <3> QED
      BY <2>2, <2>4, <3>1 DEF IsInjective
  <2> QED
    BY <2>1, <2>7, <2>8 DEF PageThenPushes, ReceivedAfter, IsPage, pushes
<1> QED
  BY <1>1, ChatInvariant, PTL
=============================================================================
