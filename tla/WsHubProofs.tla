---------------------------- MODULE WsHubProofs -----------------------------
(***************************************************************************)
(* Proofs about WsHub, for every number of users, connections, tickets and *)
(* messages, every lifetime of a ticket and every size of the buffers.     *)
(*                                                                         *)
(* What the properties say of the maps and of the pushes rests on what     *)
(* each goroutine knows of the frame that it handles: whose message it is, *)
(* that it is stored, whom it is for, and that everything its connection   *)
(* has had pushed before precedes it in the history.                       *)
(***************************************************************************)
EXTENDS WsHub, SequenceTheorems, FiniteSetTheorems, TLAPS

-----------------------------------------------------------------------------
\* A ticket has let in nobody, or one connection and is spent.
TicketInv ==
    \A t \in Tickets :
        \/ admitted[t] = {}
        \/ t \in issued \ DOMAIN tickets /\ \E c \in Conns : admitted[t] = {c}

\* The goroutine is at a step of the frame that it read last ...
Handling == {"sending", "acking", "searching", "finding", "pushing"}

\* ... and has been told that it is stored.
Told == Handling \ {"sending"}

\* What a goroutine knows.
Knows(c) ==
    /\ conn[c].pc = "new" => conn[c].user = None
    /\ conn[c].pc \notin {"new", "done"} => conn[c].user \in Users
    /\ conn[c].pc \in Handling =>
           conn[c].msg \in DOMAIN sent /\ sent[conn[c].msg].from = c
    /\ conn[c].pc \in Told => conn[c].msg \in Range(stored)
    /\ conn[c].pc \in {"finding", "pushing"} => conn[c].rcpt = sent[conn[c].msg].to
    /\ conn[c].pc = "pushing" =>
           conn[c].rcv \in Conns /\ conn[conn[c].rcv].user = conn[c].rcpt

GoroutineInv == \A c \in Conns : Knows(c)

HubInv == TypeOK /\ GoroutineInv /\ OnlineIsServed

\* Of two connections of a user that are served, each has met one.
MetInv ==
    \A c, d \in Conns :
        (c # d /\ IsServing(c) /\ IsServing(d) /\ conn[c].user = conn[d].user)
            => met[c] # {}

\* Wherever the message of a frame is stored, the messages that its sender
\* has had pushed are stored before it.
AfterPushed(c) ==
    conn[c].pc \in Handling =>
        \A d \in Conns : \A i \in DOMAIN pushed[d] :
            sent[pushed[d][i]].from = c =>
                \A l \in DOMAIN stored : stored[l] = conn[c].msg =>
                    \E k \in DOMAIN stored : k < l /\ stored[k] = pushed[d][i]

OrderInv == \A c \in Conns : AfterPushed(c)

-----------------------------------------------------------------------------
\* A property about steps says what holds after each action.
LEMMA HubCases ==
  ASSUME Next
  PROVE  \/ \E u \in Users : IssueWSTicket(u)
         \/ \E c \in Conns, t \in Tickets : RedeemTicket(c, t)
         \/ \E c \in Conns : Upgrade(c) \/ Register(c) \/ Disconnect(c)
         \/ \E c \in Conns, m \in Messages, u \in Users : ReadMessage(c, m, u)
         \/ \E c \in Conns : ReadInvalid(c) \/ ReadFails(c)
         \/ \E c \in Conns : SendSucceeds(c) \/ SendFails(c)
         \/ \E c \in Conns : WriteError(c) \/ WriteAck(c)
         \/ \E c \in Conns : SearchRecipient(c) \/ FindRecipient(c) \/ Push(c)
         \/ \E m \in Messages : StoreMessage(m)
         \/ \E c \in Conns : PeerReads(c) \/ PeerLeaves(c)
         \/ Tick
         \/ Restart
  BY DEF Next, Handle, Request

\* A sequence that grows keeps its elements.
LEMMA Appended ==
  ASSUME NEW S, NEW s \in Seq(S), NEW e \in S
  PROVE  /\ Append(s, e) \in Seq(S)
         /\ DOMAIN s = 1 .. Len(s) /\ Len(s) \in Nat
         /\ DOMAIN Append(s, e) = DOMAIN s \cup {Len(s) + 1}
         /\ \A i \in DOMAIN s : i < Len(s) + 1 /\ Append(s, e)[i] = s[i]
         /\ Append(s, e)[Len(s) + 1] = e
<1> Append(s, e) \in Seq(S) /\ DOMAIN Append(s, e) = 1 .. Len(s) + 1
  BY AppendProperties, LenProperties
<1> QED
  BY AppendProperties, LenProperties

-----------------------------------------------------------------------------
(***************************************************************************)
(* Types, and what the goroutines know.                                    *)
(***************************************************************************)
LEMMA HubTypeInit == Init => TypeOK
<1> USE HubNumbersAssumption DEF Init, TypeOK
<1>1. Init => conn \in [Conns -> Conn]
  BY DEF Conn, Fresh, Steps
<1>2. <<>> \in Seq({})
  BY EmptySeq
<1> QED
  BY <1>1, <1>2

\* Each action changes one goroutine's state, or none.
Others(c) == \A d \in Conns \ {c} : conn'[d] = conn[d]

Becomes(c, r) ==
    /\ conn' \in [Conns -> Conn]
    /\ conn'[c] = r
    /\ Others(c)

LEMMA Update ==
  ASSUME conn \in [Conns -> Conn], NEW c \in Conns, NEW r \in Conn,
         conn' = [conn EXCEPT ![c] = r]
  PROVE  Becomes(c, r)
BY DEF Becomes, Others

LEMMA GotoStep ==
  ASSUME conn \in [Conns -> Conn], NEW c \in Conns, NEW p \in Steps, Goto(c, p)
  PROVE  \E r \in Conn :
             /\ Becomes(c, r)
             /\ r.pc = p /\ r.user = conn[c].user /\ r.msg = conn[c].msg
             /\ r.rcpt = conn[c].rcpt /\ r.rcv = conn[c].rcv
<1> DEFINE r == [conn[c] EXCEPT !.pc = p]
<1>1. conn' = [conn EXCEPT ![c] = r]
  BY DEF Goto
<1>2. /\ r \in Conn
      /\ r.pc = p /\ r.user = conn[c].user /\ r.msg = conn[c].msg
      /\ r.rcpt = conn[c].rcpt /\ r.rcv = conn[c].rcv
  BY DEF Conn
<1> HIDE DEF r
<1> QED
  BY <1>1, <1>2, Update

LEMMA ReadingStep ==
  ASSUME conn \in [Conns -> Conn], NEW c \in Conns, BackToReading(c)
  PROVE  \E r \in Conn : Becomes(c, r) /\ r.pc = "reading" /\ r.user = conn[c].user
<1> DEFINE r == [conn[c] EXCEPT !.pc = "reading", !.msg = None, !.rcpt = None, !.rcv = None]
<1>1. conn' = [conn EXCEPT ![c] = r]
  BY DEF BackToReading
<1>2. r \in Conn /\ r.pc = "reading" /\ r.user = conn[c].user
  BY DEF Conn, Steps, Serving
<1> HIDE DEF r
<1> QED
  BY <1>1, <1>2, Update

LEMMA RedeemedStep ==
  ASSUME conn \in [Conns -> Conn], NEW c \in Conns, NEW u \in Users,
         conn' = [conn EXCEPT ![c].pc = "upgrading", ![c].user = u]
  PROVE  \E r \in Conn : Becomes(c, r) /\ r.pc = "upgrading" /\ r.user = u
<1> DEFINE r == [conn[c] EXCEPT !.pc = "upgrading", !.user = u]
<1>1. conn' = [conn EXCEPT ![c] = r]
  OBVIOUS
<1>2. r \in Conn /\ r.pc = "upgrading" /\ r.user = u
  BY DEF Conn, Steps
<1> HIDE DEF r
<1> QED
  BY <1>1, <1>2, Update

LEMMA MessageStep ==
  ASSUME conn \in [Conns -> Conn], NEW c \in Conns, NEW m \in Messages, NEW u \in Users,
         ReadMessage(c, m, u)
  PROVE  \E r \in Conn :
             Becomes(c, r) /\ r.pc = "sending" /\ r.user = conn[c].user /\ r.msg = m
<1> DEFINE r == [conn[c] EXCEPT !.pc = "sending", !.msg = m]
<1>1. conn' = [conn EXCEPT ![c] = r]
  BY DEF ReadMessage
<1>2. r \in Conn /\ r.pc = "sending" /\ r.user = conn[c].user /\ r.msg = m
  BY DEF Conn, Steps, Serving
<1> HIDE DEF r
<1> QED
  BY <1>1, <1>2, Update

LEMMA FoundStep ==
  ASSUME conn \in [Conns -> Conn], NEW c \in Conns, NEW u \in Users, Found(c, u)
  PROVE  \E r \in Conn :
             /\ Becomes(c, r)
             /\ r.pc = "finding" /\ r.user = conn[c].user /\ r.msg = conn[c].msg
             /\ r.rcpt = u
<1> DEFINE r == [conn[c] EXCEPT !.pc = "finding", !.rcpt = u]
<1>1. conn' = [conn EXCEPT ![c] = r]
  BY DEF Found
<1>2. /\ r \in Conn
      /\ r.pc = "finding" /\ r.user = conn[c].user /\ r.msg = conn[c].msg /\ r.rcpt = u
  BY DEF Conn, Steps, Serving
<1> HIDE DEF r
<1> QED
  BY <1>1, <1>2, Update

LEMMA OnlineStep ==
  ASSUME conn \in [Conns -> Conn], NEW c \in Conns, NEW d \in Conns,
         conn' = [conn EXCEPT ![c].pc = "pushing", ![c].rcv = d]
  PROVE  \E r \in Conn :
             /\ Becomes(c, r)
             /\ r.pc = "pushing" /\ r.user = conn[c].user /\ r.msg = conn[c].msg
             /\ r.rcpt = conn[c].rcpt /\ r.rcv = d
<1> DEFINE r == [conn[c] EXCEPT !.pc = "pushing", !.rcv = d]
<1>1. conn' = [conn EXCEPT ![c] = r]
  OBVIOUS
<1>2. /\ r \in Conn
      /\ r.pc = "pushing" /\ r.user = conn[c].user /\ r.msg = conn[c].msg
      /\ r.rcpt = conn[c].rcpt /\ r.rcv = d
  BY DEF Conn, Steps, Serving
<1> HIDE DEF r
<1> QED
  BY <1>1, <1>2, Update

\* A frame that enters a buffer fits.
LEMMA WriteFits ==
  ASSUME unread \in [Conns -> 0 .. Buffer], NEW c \in Conns, CanWrite(c), Written(c)
  PROVE  unread' \in [Conns -> 0 .. Buffer]
<1>1. CASE Gone(c)
  BY <1>1 DEF Written
<1>2. CASE ~Gone(c)
  <2>1. unread[c] + 1 \in 0 .. Buffer
    BY <1>2, HubNumbersAssumption DEF CanWrite
  <2> QED
    BY <1>2, <2>1 DEF Written
<1> QED
  BY <1>1, <1>2

LEMMA ConnTypeStep ==
  ASSUME TypeOK, GoroutineInv, [Next]_vars
  PROVE  conn' \in [Conns -> Conn]
<1>0. conn \in [Conns -> Conn]
  BY DEF TypeOK
<1>1. ASSUME NEW c \in Conns, NEW p \in Steps, Goto(c, p) PROVE conn' \in [Conns -> Conn]
  BY <1>0, <1>1, GotoStep DEF Becomes
<1>2. ASSUME NEW c \in Conns, BackToReading(c) PROVE conn' \in [Conns -> Conn]
  BY <1>0, <1>2, ReadingStep DEF Becomes
<1>3. ASSUME NEW c \in Conns, NEW t \in Tickets, RedeemTicket(c, t)
      PROVE  conn' \in [Conns -> Conn]
  <2>1. CASE Valid(t)
    <3>1. tickets[t].user \in Users
      BY <2>1 DEF Valid, TypeOK
    <3> QED
      BY <1>0, <1>3, <2>1, <3>1, RedeemedStep DEF RedeemTicket, Becomes
  <2>2. CASE ~Valid(t)
    BY <1>1, <1>3, <2>2 DEF RedeemTicket, Steps
  <2> QED
    BY <2>1, <2>2
<1>4. ASSUME NEW c \in Conns,
             \/ Upgrade(c) \/ Register(c) \/ ReadInvalid(c) \/ ReadFails(c)
             \/ SendSucceeds(c) \/ SendFails(c) \/ WriteAck(c)
      PROVE  conn' \in [Conns -> Conn]
  <2>1. \E p \in Steps : Goto(c, p)
    BY <1>4 DEF Upgrade, Register, ReadInvalid, ReadFails, SendSucceeds, SendFails,
                WriteAck, Steps, Serving
  <2> QED
    BY <1>1, <2>1
<1>5. ASSUME NEW c \in Conns, Disconnect(c) PROVE conn' \in [Conns -> Conn]
  BY <1>1, <1>5 DEF Disconnect, Goto, Steps
<1>6. ASSUME NEW c \in Conns, NEW m \in Messages, NEW u \in Users, ReadMessage(c, m, u)
      PROVE  conn' \in [Conns -> Conn]
  BY <1>0, <1>6, MessageStep DEF Becomes
<1>7. ASSUME NEW c \in Conns, WriteError(c) \/ Push(c) PROVE conn' \in [Conns -> Conn]
  BY <1>2, <1>7 DEF WriteError, Push
<1>8. ASSUME NEW c \in Conns, SearchRecipient(c) PROVE conn' \in [Conns -> Conn]
  <2>1. conn[c].msg \in DOMAIN sent
    BY <1>8 DEF SearchRecipient, GoroutineInv, Knows, Handling
  <2>2. sent[conn[c].msg].to \in Users
    BY <2>1 DEF TypeOK
  <2>3. BackToReading(c) \/ Found(c, sent[conn[c].msg].to)
    BY <1>8 DEF SearchRecipient
  <2> QED
    BY <1>0, <1>2, <2>2, <2>3, FoundStep DEF Becomes
<1>9. ASSUME NEW c \in Conns, FindRecipient(c) PROVE conn' \in [Conns -> Conn]
  <2>1. CASE conn[c].rcpt \in DOMAIN online
    <3>1. online[conn[c].rcpt] \in Conns
      BY <2>1 DEF TypeOK
    <3> QED
      BY <1>0, <1>9, <2>1, <3>1, OnlineStep DEF FindRecipient, Becomes
  <2>2. CASE conn[c].rcpt \notin DOMAIN online
    BY <1>2, <1>9, <2>2 DEF FindRecipient
  <2> QED
    BY <2>1, <2>2
<1>10. ASSUME Restart PROVE conn' \in [Conns -> Conn]
  <2>1. ASSUME NEW c \in Conns PROVE [conn[c] EXCEPT !.pc = "done"] \in Conn
    BY <1>0 DEF Conn, Steps
  <2> QED
    BY <1>0, <1>10, <2>1 DEF Restart
<1>11. ASSUME UNCHANGED conn PROVE conn' \in [Conns -> Conn]
  BY <1>0, <1>11
<1>12. ASSUME \/ \E u \in Users : IssueWSTicket(u)
              \/ \E m \in Messages : StoreMessage(m)
              \/ \E c \in Conns : PeerReads(c) \/ PeerLeaves(c)
              \/ Tick
              \/ UNCHANGED vars
       PROVE  UNCHANGED conn
  BY <1>12 DEF IssueWSTicket, StoreMessage, PeerReads, PeerLeaves, Tick, vars
<1> QED
  BY <1>3, <1>4, <1>5, <1>6, <1>7, <1>8, <1>9, <1>10, <1>11, <1>12, HubCases

LEMMA HubTypeStep ==
  ASSUME TypeOK, GoroutineInv, [Next]_vars
  PROVE  TypeOK'
<1> USE ConnTypeStep DEF TypeOK
<1>1. ASSUME NEW u \in Users, IssueWSTicket(u) PROVE TypeOK'
  BY <1>1, HubNumbersAssumption DEF IssueWSTicket, service
<1>2. ASSUME NEW c \in Conns, NEW t \in Tickets, RedeemTicket(c, t) PROVE TypeOK'
  <2>1. admitted' \in [Tickets -> SUBSET Conns]
    <3>1. admitted' = admitted \/ admitted' = [admitted EXCEPT ![t] = @ \cup {c}]
      BY <1>2 DEF RedeemTicket
    <3>2. admitted[t] \cup {c} \in SUBSET Conns
      OBVIOUS
    <3> QED
      BY <3>1, <3>2
  <2>2. DOMAIN tickets' \subseteq DOMAIN tickets
        /\ tickets' \in [DOMAIN tickets' -> [user : Users, expires : Nat]]
    BY <1>2 DEF RedeemTicket, Without
  <2> QED
    BY <1>2, <2>1, <2>2 DEF RedeemTicket, service
<1>3. ASSUME NEW c \in Conns, Upgrade(c) PROVE TypeOK'
  BY <1>3 DEF Upgrade, hub, service, history
<1>4. ASSUME NEW c \in Conns, Register(c) PROVE TypeOK'
  <2>1. conn[c].user \in Users
    BY <1>4 DEF Register, GoroutineInv, Knows
  <2>2. DOMAIN online' \subseteq Users /\ online' \in [DOMAIN online' -> Conns]
    BY <1>4, <2>1 DEF Register
  <2>3. met' \in [Conns -> SUBSET Conns]
    BY <1>4 DEF Register, Siblings
  <2> QED
    BY <1>4, <2>2, <2>3 DEF Register, service
<1>5. ASSUME NEW c \in Conns, Disconnect(c) PROVE TypeOK'
  BY <1>5 DEF Disconnect, Without, service, history
<1>6. ASSUME NEW c \in Conns, NEW m \in Messages, NEW u \in Users, ReadMessage(c, m, u)
      PROVE  TypeOK'
  <2>1. DOMAIN sent \subseteq DOMAIN sent' /\ DOMAIN sent' = DOMAIN sent \cup {m}
    BY <1>6 DEF ReadMessage
  <2>2. stored' \in Seq(DOMAIN sent') /\ pushed' \in [Conns -> Seq(DOMAIN sent')]
    BY <1>6, <2>1, SeqMonotonic DEF ReadMessage
  <2>3. sent' \in [DOMAIN sent' -> [from : Conns, to : Users]]
    BY <1>6 DEF ReadMessage
  <2> QED
    BY <1>6, <2>1, <2>2, <2>3 DEF ReadMessage, hub
<1>7. ASSUME NEW c \in Conns,
             \/ ReadInvalid(c) \/ ReadFails(c) \/ SendSucceeds(c) \/ SendFails(c)
             \/ SearchRecipient(c) \/ FindRecipient(c)
      PROVE  TypeOK'
  BY <1>7 DEF ReadInvalid, ReadFails, SendSucceeds, SendFails, SearchRecipient,
              FindRecipient, hub, service, history
<1>8. ASSUME NEW c \in Conns, WriteError(c) \/ WriteAck(c) PROVE TypeOK'
  <2>1. unread' \in [Conns -> 0 .. Buffer]
    BY <1>8, WriteFits DEF WriteError, WriteAck
  <2> QED
    BY <1>8, <2>1 DEF WriteError, WriteAck, hub, service, history
<1>9. ASSUME NEW c \in Conns, Push(c) PROVE TypeOK'
  <2>1. conn[c].rcv \in Conns /\ conn[c].msg \in DOMAIN sent
    BY <1>9 DEF Push, GoroutineInv, Knows, Handling
  <2>2. unread' \in [Conns -> 0 .. Buffer]
    BY <1>9, <2>1, WriteFits DEF Push
  <2>3. pushed' \in [Conns -> Seq(DOMAIN sent)]
    <3>1. Append(pushed[conn[c].rcv], conn[c].msg) \in Seq(DOMAIN sent)
      BY <2>1, AppendProperties
    <3> QED
      BY <1>9, <2>1, <3>1 DEF Push
  <2> QED
    BY <1>9, <2>2, <2>3 DEF Push, hub, service
<1>10. ASSUME NEW m \in Messages, StoreMessage(m) PROVE TypeOK'
  <2>1. Append(stored, m) \in Seq(DOMAIN sent)
    BY <1>10, AppendProperties DEF StoreMessage
  <2> QED
    BY <1>10, <2>1 DEF StoreMessage, hub, history
<1>11. ASSUME NEW c \in Conns, PeerReads(c) PROVE TypeOK'
  <2>1. unread[c] - 1 \in 0 .. Buffer
    BY <1>11, HubNumbersAssumption DEF PeerReads
  <2> QED
    BY <1>11, <2>1 DEF PeerReads, hub, service, history
<1>12. ASSUME NEW c \in Conns, PeerLeaves(c) PROVE TypeOK'
  BY <1>12 DEF PeerLeaves, hub, service, history
<1>13. CASE Tick
  <2>1. now' \in 0 .. MaxTime
    BY <1>13, HubNumbersAssumption DEF Tick
  <2> QED
    BY <1>13, <2>1 DEF Tick, hub, service, history
<1>14. CASE Restart
  <2>1. /\ tickets' \in [DOMAIN tickets' -> [user : Users, expires : Nat]]
        /\ DOMAIN tickets' = {} /\ DOMAIN online' = {}
        /\ online' \in [DOMAIN online' -> Conns]
    BY <1>14 DEF Restart
  <2> QED
    BY <1>14, <2>1 DEF Restart, service, history
<1>15. CASE UNCHANGED vars
  BY <1>15 DEF vars, hub, service, history
<1> QED
  BY <1>1, <1>2, <1>3, <1>4, <1>5, <1>6, <1>7, <1>8, <1>9, <1>10, <1>11, <1>12, <1>13,
     <1>14, <1>15, HubCases

\* What a goroutine knows stays true while others move: the tables grow, and
\* a connection that is not new keeps its user.
TablesGrow ==
    /\ Range(stored) \subseteq Range(stored')
    /\ DOMAIN sent \subseteq DOMAIN sent'
    /\ \A m \in DOMAIN sent : sent'[m] = sent[m]

UsersStay == \A c \in Conns : conn[c].pc # "new" => conn'[c].user = conn[c].user

LEMMA TablesGrowStep ==
  ASSUME TypeOK, [Next]_vars
  PROVE  TablesGrow
<1>1. ASSUME NEW m \in Messages, StoreMessage(m) PROVE TablesGrow
  <2>1. m \in DOMAIN sent
    BY <1>1 DEF StoreMessage, TypeOK
  <2>2. Range(stored) \subseteq Range(Append(stored, m))
    BY <2>1, Appended DEF TypeOK, Range
  <2> QED
    BY <1>1, <2>2 DEF StoreMessage, TablesGrow, history
<1>2. ASSUME NEW c \in Conns, NEW m \in Messages, NEW u \in Users, ReadMessage(c, m, u)
      PROVE  TablesGrow
  BY <1>2 DEF ReadMessage, TablesGrow
<1>3. CASE UNCHANGED <<stored, sent>>
  BY <1>3 DEF TablesGrow
<1>4. ASSUME NEW u \in Users, IssueWSTicket(u) PROVE UNCHANGED <<stored, sent>>
  BY <1>4 DEF IssueWSTicket, service
<1>5. ASSUME NEW c \in Conns, NEW t \in Tickets, RedeemTicket(c, t)
      PROVE  UNCHANGED <<stored, sent>>
  BY <1>5 DEF RedeemTicket, service
<1>6. ASSUME NEW c \in Conns,
             \/ Upgrade(c) \/ Register(c) \/ Disconnect(c) \/ ReadInvalid(c)
             \/ ReadFails(c) \/ SendSucceeds(c) \/ SendFails(c) \/ WriteError(c)
             \/ WriteAck(c) \/ SearchRecipient(c) \/ FindRecipient(c) \/ Push(c)
             \/ PeerReads(c) \/ PeerLeaves(c)
      PROVE  UNCHANGED <<stored, sent>>
  BY <1>6 DEF Upgrade, Register, Disconnect, ReadInvalid, ReadFails, SendSucceeds,
              SendFails, WriteError, WriteAck, SearchRecipient, FindRecipient, Push,
              PeerReads, PeerLeaves, service, history
<1>7. CASE Tick \/ Restart \/ UNCHANGED vars
  BY <1>3, <1>7 DEF Tick, Restart, vars, service, history
<1> QED
  BY <1>1, <1>2, <1>3, <1>4, <1>5, <1>6, <1>7, HubCases

LEMMA KnowledgeLasts ==
  ASSUME TypeOK, GoroutineInv, TablesGrow, UsersStay, NEW c \in Conns, conn'[c] = conn[c]
  PROVE  Knows(c)'
<1>0. Knows(c)
  BY DEF GoroutineInv
<1>1. ASSUME conn[c].pc = "pushing" PROVE conn'[conn[c].rcv].user = conn[c].rcpt
  <2>1. conn[c].rcv \in Conns /\ conn[conn[c].rcv].user = sent[conn[c].msg].to
        /\ conn[c].msg \in DOMAIN sent
    BY <1>0, <1>1 DEF Knows, Handling
  <2>2. conn[conn[c].rcv].user # None
    BY <2>1, HubNoneAssumption DEF TypeOK
  <2>3. conn[conn[c].rcv].pc # "new"
    BY <2>1, <2>2 DEF GoroutineInv, Knows
  <2> QED
    BY <1>0, <1>1, <2>1, <2>3 DEF Knows, UsersStay
<1> QED
  BY <1>0, <1>1 DEF Knows, TablesGrow, Handling, Told

\* So a step of c keeps the invariant if it keeps what c itself knows.
LEMMA OneKnows ==
  ASSUME TypeOK, GoroutineInv, TablesGrow, NEW c \in Conns, NEW r \in Conn, Becomes(c, r),
         conn[c].pc # "new" => r.user = conn[c].user,
         UsersStay => Knows(c)'
  PROVE  GoroutineInv'
<1>1. UsersStay
  BY DEF Becomes, Others, UsersStay
<1>2. ASSUME NEW d \in Conns \ {c} PROVE Knows(d)'
  BY <1>1, KnowledgeLasts DEF Becomes, Others
<1> QED
  BY <1>1, <1>2 DEF GoroutineInv

LEMMA GoroutineStep ==
  ASSUME TypeOK, GoroutineInv, OnlineIsServed, [Next]_vars
  PROVE  GoroutineInv'
<1>0. conn \in [Conns -> Conn] /\ TablesGrow
  BY TablesGrowStep DEF TypeOK
<1>1. ASSUME NEW c \in Conns, NEW t \in Tickets, RedeemTicket(c, t) PROVE GoroutineInv'
  <2>1. CASE Valid(t)
    <3>1. tickets[t].user \in Users
      BY <2>1 DEF Valid, TypeOK
    <3>2. PICK r \in Conn :
              Becomes(c, r) /\ r.pc = "upgrading" /\ r.user = tickets[t].user
      BY <1>0, <1>1, <2>1, <3>1, RedeemedStep DEF RedeemTicket
    <3>3. Knows(c)'
      BY <3>1, <3>2 DEF Becomes, Knows, Handling, Told
    <3> QED
      BY <1>0, <1>1, <3>2, <3>3, OneKnows DEF RedeemTicket
  <2>2. CASE ~Valid(t)
    <3>1. PICK r \in Conn : Becomes(c, r) /\ r.pc = "done" /\ r.user = conn[c].user
      BY <1>0, <1>1, <2>2, GotoStep DEF RedeemTicket, Steps
    <3>2. Knows(c)'
      BY <3>1 DEF Becomes, Knows, Handling, Told
    <3> QED
      BY <1>0, <3>1, <3>2, OneKnows
  <2> QED
    BY <2>1, <2>2
\* Steps out of the handling of a frame, or before it.
<1>2. ASSUME NEW c \in Conns, NEW r \in Conn, Becomes(c, r), r.user = conn[c].user,
             conn[c].pc # "new", r.pc \notin Handling \cup {"new"}, conn[c].pc # "done"
      PROVE  GoroutineInv'
  <2>1. Knows(c)'
    BY <1>2 DEF Becomes, GoroutineInv, Knows, Told, Handling
  <2> QED
    BY <1>0, <1>2, <2>1, OneKnows
<1>3. ASSUME NEW c \in Conns, NEW p \in {"registering", "reading", "erring", "closing", "done"},
             Goto(c, p), conn[c].pc \notin {"new", "done"}
      PROVE  GoroutineInv'
  <2>1. PICK r \in Conn : Becomes(c, r) /\ r.pc = p /\ r.user = conn[c].user
    BY <1>0, <1>3, GotoStep DEF Steps, Serving
  <2> QED
    BY <1>2, <1>3, <2>1 DEF Handling
<1>4. ASSUME NEW c \in Conns, BackToReading(c), conn[c].pc \notin {"new", "done"}
      PROVE  GoroutineInv'
  <2>1. PICK r \in Conn : Becomes(c, r) /\ r.pc = "reading" /\ r.user = conn[c].user
    BY <1>0, <1>4, ReadingStep
  <2> QED
    BY <1>2, <1>4, <2>1 DEF Handling
<1>5. ASSUME NEW c \in Conns,
             \/ Upgrade(c) \/ Register(c) \/ Disconnect(c) \/ ReadInvalid(c)
             \/ ReadFails(c) \/ SendFails(c)
      PROVE  GoroutineInv'
  <2>1. \E p \in {"registering", "reading", "erring", "closing", "done"} : Goto(c, p)
    BY <1>5 DEF Upgrade, Register, Disconnect, ReadInvalid, ReadFails, SendFails, Goto
  <2>2. conn[c].pc \notin {"new", "done"}
    BY <1>5 DEF Upgrade, Register, Disconnect, ReadInvalid, ReadFails, SendFails
  <2> QED
    BY <1>3, <2>1, <2>2
<1>6. ASSUME NEW c \in Conns, WriteError(c) \/ Push(c) PROVE GoroutineInv'
  BY <1>4, <1>6 DEF WriteError, Push
<1>7. ASSUME NEW c \in Conns, NEW m \in Messages, NEW u \in Users, ReadMessage(c, m, u)
      PROVE  GoroutineInv'
  <2>1. PICK r \in Conn :
            Becomes(c, r) /\ r.pc = "sending" /\ r.user = conn[c].user /\ r.msg = m
    BY <1>0, <1>7, MessageStep
  <2>2. m \in DOMAIN sent' /\ sent'[m].from = c /\ conn[c].pc = "reading"
    BY <1>7 DEF ReadMessage
  <2>3. Knows(c)'
    BY <2>1, <2>2 DEF Becomes, GoroutineInv, Knows, Handling, Told
  <2> QED
    BY <1>0, <2>1, <2>3, OneKnows
<1>8. ASSUME NEW c \in Conns, SendSucceeds(c) \/ WriteAck(c) PROVE GoroutineInv'
  <2>1. PICK p \in {"acking", "searching"} : Goto(c, p)
    BY <1>8 DEF SendSucceeds, WriteAck
  <2>2. PICK r \in Conn :
            Becomes(c, r) /\ r.pc = p /\ r.user = conn[c].user /\ r.msg = conn[c].msg
    BY <1>0, <2>1, GotoStep DEF Steps, Serving
  <2>3. conn[c].pc \in {"sending", "acking"} /\ conn[c].msg \in Range(stored)
    BY <1>8 DEF SendSucceeds, WriteAck, GoroutineInv, Knows, Told, Handling, Range
  <2>4. Knows(c)'
    BY <1>0, <2>2, <2>3 DEF Becomes, GoroutineInv, Knows, Handling, Told, TablesGrow
  <2> QED
    BY <1>0, <2>2, <2>4, OneKnows
<1>9. ASSUME NEW c \in Conns, SearchRecipient(c) PROVE GoroutineInv'
  <2>0. conn[c].pc = "searching" /\ conn[c].msg \in DOMAIN sent
    BY <1>9 DEF SearchRecipient, GoroutineInv, Knows, Handling
  <2>1. CASE BackToReading(c)
    BY <1>4, <2>0, <2>1
  <2>2. CASE Found(c, sent[conn[c].msg].to)
    <3>1. sent[conn[c].msg].to \in Users
      BY <2>0 DEF TypeOK
    <3>2. PICK r \in Conn :
              /\ Becomes(c, r)
              /\ r.pc = "finding" /\ r.user = conn[c].user /\ r.msg = conn[c].msg
              /\ r.rcpt = sent[conn[c].msg].to
      BY <1>0, <2>2, <3>1, FoundStep
    <3>3. Knows(c)'
      BY <1>0, <2>0, <3>2 DEF Becomes, GoroutineInv, Knows, Handling, Told, TablesGrow
    <3> QED
      BY <1>0, <3>2, <3>3, OneKnows
  <2> QED
    BY <1>9, <2>1, <2>2 DEF SearchRecipient
<1>10. ASSUME NEW c \in Conns, FindRecipient(c) PROVE GoroutineInv'
  <2>0. conn[c].pc = "finding"
    BY <1>10 DEF FindRecipient
  <2>1. CASE conn[c].rcpt \in DOMAIN online
    <3> DEFINE d == online[conn[c].rcpt]
    <3>1. d \in Conns /\ conn[d].user = conn[c].rcpt /\ IsServing(d)
      BY <2>1 DEF TypeOK, OnlineIsServed
    <3>2. PICK r \in Conn :
              /\ Becomes(c, r)
              /\ r.pc = "pushing" /\ r.user = conn[c].user /\ r.msg = conn[c].msg
              /\ r.rcpt = conn[c].rcpt /\ r.rcv = d
      BY <1>0, <1>10, <2>1, <3>1, OnlineStep DEF FindRecipient
    <3>3. conn'[d].user = conn[d].user
      BY <3>1, <3>2 DEF Becomes, Others
    <3>4. Knows(c)'
      BY <1>0, <2>0, <3>1, <3>2, <3>3
         DEF Becomes, GoroutineInv, Knows, Handling, Told, TablesGrow
    <3> QED
      BY <1>0, <3>2, <3>4, OneKnows
  <2>2. CASE conn[c].rcpt \notin DOMAIN online
    BY <1>4, <1>10, <2>0, <2>2 DEF FindRecipient
  <2> QED
    BY <2>1, <2>2
<1>11. CASE Restart
  <2>1. ASSUME NEW c \in Conns
        PROVE  \/ conn[c].pc = "new" /\ conn'[c] = conn[c]
               \/ conn'[c].pc = "done"
    BY <1>0, <1>11 DEF Restart, Conn
  <2>2. ASSUME NEW c \in Conns PROVE Knows(c)'
    BY <2>1 DEF GoroutineInv, Knows, Handling, Told
  <2> QED
    BY <2>2 DEF GoroutineInv
<1>12. ASSUME UNCHANGED conn PROVE GoroutineInv'
  BY <1>0, <1>12, KnowledgeLasts DEF GoroutineInv, UsersStay
<1>13. ASSUME \/ \E u \in Users : IssueWSTicket(u)
              \/ \E m \in Messages : StoreMessage(m)
              \/ \E c \in Conns : PeerReads(c) \/ PeerLeaves(c)
              \/ Tick
              \/ UNCHANGED vars
       PROVE  UNCHANGED conn
  BY <1>13 DEF IssueWSTicket, StoreMessage, PeerReads, PeerLeaves, Tick, vars
<1> QED
  BY <1>1, <1>5, <1>6, <1>7, <1>8, <1>9, <1>10, <1>11, <1>12, <1>13, HubCases

-----------------------------------------------------------------------------
(***************************************************************************)
(* The map of online users.                                                *)
(***************************************************************************)
\* Only Register, Disconnect and Restart change who is served.
SameService(c) ==
    /\ IsServing(c)' <=> IsServing(c)
    /\ IsServing(c) => conn'[c].user = conn[c].user

LEMMA ServiceStep ==
  ASSUME TypeOK, GoroutineInv, [Next]_vars, NEW c \in Conns
  PROVE  SameService(c) \/ Register(c) \/ Disconnect(c) \/ Restart
<1>0. conn \in [Conns -> Conn]
  BY DEF TypeOK
<1>1. ASSUME NEW d \in Conns, NEW r \in Conn, Becomes(d, r),
             conn[d].pc \in Serving => r.user = conn[d].user,
             conn[d].pc \in Serving <=> r.pc \in Serving
      PROVE  SameService(c)
  BY <1>0, <1>1 DEF Becomes, Others, SameService, IsServing
<1>2. ASSUME NEW d \in Conns, NEW p \in Steps, Goto(d, p),
             conn[d].pc \in Serving <=> p \in Serving
      PROVE  SameService(c)
  BY <1>0, <1>1, <1>2, GotoStep
<1>3. ASSUME NEW d \in Conns, BackToReading(d), conn[d].pc \in Serving PROVE SameService(c)
  BY <1>0, <1>1, <1>3, ReadingStep DEF Serving
<1>4. ASSUME NEW d \in Conns, NEW t \in Tickets, RedeemTicket(d, t) PROVE SameService(c)
  <2>1. CASE Valid(t)
    <3>1. tickets[t].user \in Users
      BY <2>1 DEF Valid, TypeOK
    <3> QED
      BY <1>0, <1>1, <1>4, <2>1, <3>1, RedeemedStep DEF RedeemTicket, Serving
  <2>2. CASE ~Valid(t)
    BY <1>2, <1>4, <2>2 DEF RedeemTicket, Steps, Serving
  <2> QED
    BY <2>1, <2>2
<1>5. ASSUME NEW d \in Conns,
             \/ Upgrade(d) \/ ReadInvalid(d) \/ ReadFails(d)
             \/ SendSucceeds(d) \/ SendFails(d) \/ WriteAck(d)
      PROVE  SameService(c)
  <2>1. \E p \in Steps : Goto(d, p) /\ (conn[d].pc \in Serving <=> p \in Serving)
    BY <1>5 DEF Upgrade, ReadInvalid, ReadFails, SendSucceeds, SendFails, WriteAck,
                Steps, Serving
  <2> QED
    BY <1>2, <2>1
<1>6. ASSUME NEW d \in Conns, Register(d) \/ Disconnect(d)
      PROVE  SameService(c) \/ Register(c) \/ Disconnect(c)
  <2>1. CASE d = c
    BY <1>6, <2>1
  <2>2. CASE d # c
    <3>1. conn'[c] = conn[c]
      BY <1>0, <1>6, <2>2 DEF Register, Disconnect, Goto
    <3> QED
      BY <3>1 DEF SameService, IsServing
  <2> QED
    BY <2>1, <2>2
<1>7. ASSUME NEW d \in Conns, NEW m \in Messages, NEW u \in Users, ReadMessage(d, m, u)
      PROVE  SameService(c)
  <2>1. conn[d].pc \in Serving
    BY <1>7 DEF ReadMessage, Serving
  <2> QED
    BY <1>0, <1>1, <1>7, <2>1, MessageStep DEF Serving
<1>8. ASSUME NEW d \in Conns, WriteError(d) \/ Push(d) PROVE SameService(c)
  <2>1. conn[d].pc \in Serving /\ BackToReading(d)
    BY <1>8 DEF WriteError, Push, Serving
  <2> QED
    BY <1>3, <2>1
<1>9. ASSUME NEW d \in Conns, SearchRecipient(d) PROVE SameService(c)
  <2>1. sent[conn[d].msg].to \in Users
    BY <1>9 DEF SearchRecipient, GoroutineInv, Knows, Handling, TypeOK
  <2>2. BackToReading(d) \/ Found(d, sent[conn[d].msg].to)
    BY <1>9 DEF SearchRecipient
  <2>3. conn[d].pc \in Serving
    BY <1>9 DEF SearchRecipient, Serving
  <2> QED
    BY <1>0, <1>1, <1>3, <2>1, <2>2, <2>3, FoundStep DEF Serving
<1>10. ASSUME NEW d \in Conns, FindRecipient(d) PROVE SameService(c)
  <2>0. conn[d].pc \in Serving
    BY <1>10 DEF FindRecipient, Serving
  <2>1. CASE conn[d].rcpt \in DOMAIN online
    <3>1. online[conn[d].rcpt] \in Conns
      BY <2>1 DEF TypeOK
    <3> QED
      BY <1>0, <1>1, <1>10, <2>0, <2>1, <3>1, OnlineStep DEF FindRecipient, Serving
  <2>2. CASE conn[d].rcpt \notin DOMAIN online
    BY <1>3, <1>10, <2>0, <2>2 DEF FindRecipient
  <2> QED
    BY <2>1, <2>2
<1>11. ASSUME \/ \E u \in Users : IssueWSTicket(u)
              \/ \E m \in Messages : StoreMessage(m)
              \/ \E d \in Conns : PeerReads(d) \/ PeerLeaves(d)
              \/ Tick
              \/ UNCHANGED vars
       PROVE  UNCHANGED conn
  BY <1>11 DEF IssueWSTicket, StoreMessage, PeerReads, PeerLeaves, Tick, vars
<1>12. ASSUME UNCHANGED conn PROVE SameService(c)
  BY <1>0, <1>12 DEF SameService, IsServing
<1> QED
  BY <1>4, <1>5, <1>6, <1>7, <1>8, <1>9, <1>10, <1>11, <1>12, HubCases

\* The other steps change neither the map nor who has met whom.
LEMMA MapStep ==
  ASSUME [Next]_vars, ~Restart, ~(\E c \in Conns : Register(c) \/ Disconnect(c))
  PROVE  UNCHANGED <<online, met>>
<1>1. ASSUME NEW u \in Users, IssueWSTicket(u) PROVE UNCHANGED <<online, met>>
  BY <1>1 DEF IssueWSTicket
<1>2. ASSUME NEW c \in Conns, NEW t \in Tickets, RedeemTicket(c, t)
      PROVE  UNCHANGED <<online, met>>
  BY <1>2 DEF RedeemTicket
<1>3. ASSUME NEW c \in Conns, NEW m \in Messages, NEW u \in Users, ReadMessage(c, m, u)
      PROVE  UNCHANGED <<online, met>>
  BY <1>3 DEF ReadMessage, hub
<1>4. ASSUME NEW c \in Conns,
             \/ Upgrade(c) \/ ReadInvalid(c) \/ ReadFails(c) \/ SendSucceeds(c)
             \/ SendFails(c) \/ WriteError(c) \/ WriteAck(c) \/ SearchRecipient(c)
             \/ FindRecipient(c) \/ Push(c) \/ PeerReads(c) \/ PeerLeaves(c)
      PROVE  UNCHANGED <<online, met>>
  BY <1>4 DEF Upgrade, ReadInvalid, ReadFails, SendSucceeds, SendFails, WriteError, WriteAck,
              SearchRecipient, FindRecipient, Push, PeerReads, PeerLeaves, hub, history
<1>5. ASSUME NEW m \in Messages, StoreMessage(m) PROVE UNCHANGED <<online, met>>
  BY <1>5 DEF StoreMessage, hub, history
<1>6. CASE Tick \/ UNCHANGED vars
  BY <1>6 DEF Tick, vars, hub, history
<1> QED
  BY <1>1, <1>2, <1>3, <1>4, <1>5, <1>6, HubCases

LEMMA OnlineInvStep ==
  ASSUME TypeOK, GoroutineInv, OnlineIsServed, [Next]_vars
  PROVE  OnlineIsServed'
<1> USE DEF OnlineIsServed
<1>0. \A u \in DOMAIN online : online[u] \in Conns
  BY DEF TypeOK
<1>1. CASE Restart
  BY <1>1 DEF Restart
<1>2. ASSUME NEW c \in Conns, Register(c) PROVE OnlineIsServed'
  <2>1. conn \in [Conns -> Conn] /\ conn' = [conn EXCEPT ![c].pc = "reading"]
    BY <1>2 DEF Register, Goto, TypeOK
  <2>2. ASSUME NEW d \in Conns PROVE conn'[d].user = conn[d].user
    BY <2>1 DEF Conn
  <2>3. IsServing(c)'
    BY <2>1 DEF IsServing, Serving, Conn
  <2>4. ASSUME NEW d \in Conns, IsServing(d), d # c PROVE IsServing(d)'
    BY <2>1, <2>4 DEF IsServing
  <2> QED
    BY <1>0, <1>2, <2>2, <2>3, <2>4 DEF Register
<1>3. ASSUME NEW c \in Conns, Disconnect(c) PROVE OnlineIsServed'
  <2>1. ASSUME NEW u \in DOMAIN online' PROVE u \in DOMAIN online /\ online'[u] = online[u]
                                             /\ online[u] # c
    BY <1>3 DEF Disconnect, Without
  <2>2. ASSUME NEW d \in Conns, d # c PROVE conn'[d] = conn[d]
    BY <1>3, <2>2 DEF Disconnect, TypeOK
  <2> QED
    BY <1>0, <2>1, <2>2 DEF IsServing
<1>4. CASE ~Restart /\ ~(\E c \in Conns : Register(c) \/ Disconnect(c))
  <2>1. UNCHANGED online
    BY <1>4, MapStep
  <2>2. \A c \in Conns : SameService(c)
    BY <1>4, ServiceStep
  <2> QED
    BY <1>0, <2>1, <2>2 DEF SameService
<1> QED
  BY <1>1, <1>2, <1>3, <1>4

\* Types, what the goroutines know and the map support each other.
THEOREM HubInvariant == Spec => []HubInv
<1>1. Init => HubInv
  <2>1. Init => GoroutineInv
    BY DEF Init, GoroutineInv, Knows, Fresh, Handling, Told
  <2> QED
    BY <2>1, HubTypeInit DEF HubInv, Init, OnlineIsServed
<1>2. HubInv /\ [Next]_vars => HubInv'
  BY HubTypeStep, GoroutineStep, OnlineInvStep DEF HubInv
<1> QED
  BY <1>1, <1>2, PTL DEF Spec

\* Every map and every goroutine of the gateway holds values of its type; no
\* buffer overflows, whatever is written to it by however many writers.
THEOREM HubTypeCorrect == Spec => []TypeOK
BY HubInvariant, PTL DEF HubInv

\* The map never leads to a finished connection nor to another user's.
THEOREM MapLeadsToServed == Spec => []OnlineIsServed
BY HubInvariant, PTL DEF HubInv

-----------------------------------------------------------------------------
(***************************************************************************)
(* Replacement.                                                            *)
(***************************************************************************)
LEMMA MetInvStep ==
  ASSUME HubInv, MetInv, [Next]_vars
  PROVE  MetInv'
<1> USE DEF HubInv, MetInv
<1>0. conn \in [Conns -> Conn] /\ met \in [Conns -> SUBSET Conns]
  BY DEF TypeOK
<1>1. CASE Restart
  BY <1>0, <1>1 DEF Restart, IsServing, Serving, Conn
<1>2. ASSUME NEW c \in Conns, Register(c) PROVE MetInv'
  <2>1. /\ conn[c].pc = "registering"
        /\ \A d \in Conns : conn'[d].user = conn[d].user
        /\ \A d \in Conns \ {c} : conn'[d] = conn[d]
    BY <1>0, <1>2 DEF Register, Goto, Conn
  <2>2. /\ met'[c] = Siblings(c)
        /\ \A d \in Conns : met[d] \subseteq met'[d] \/ d = c
        /\ \A d \in Siblings(c) : c \in met'[d]
    BY <1>0, <1>2 DEF Register, Siblings
  <2>3. \A d \in Conns \ {c} :
            (IsServing(d)' /\ conn[d].user = conn[c].user) <=> d \in Siblings(c)
    BY <2>1 DEF IsServing, Siblings
  <2>4. ASSUME NEW d \in Conns, NEW e \in Conns, d # e, IsServing(d)', IsServing(e)',
               conn[d].user = conn[e].user
        PROVE  met'[d] # {}
    <3>1. CASE d = c
      BY <2>2, <2>3, <2>4, <3>1
    <3>2. CASE e = c
      BY <2>2, <2>3, <2>4, <3>2
    <3>3. CASE d # c /\ e # c
      BY <2>1, <2>2, <2>4, <3>3 DEF IsServing
    <3> QED
      BY <3>1, <3>2, <3>3
  <2> QED
    BY <2>1, <2>4
<1>3. ASSUME NEW c \in Conns, Disconnect(c) PROVE MetInv'
  <2>1. ~IsServing(c)' /\ \A d \in Conns \ {c} : conn'[d] = conn[d]
    BY <1>0, <1>3 DEF Disconnect, IsServing, Serving, Conn
  <2> QED
    BY <1>3, <2>1 DEF Disconnect, IsServing, history
<1>4. CASE ~Restart /\ ~(\E c \in Conns : Register(c) \/ Disconnect(c))
  BY <1>4, MapStep, ServiceStep DEF SameService
<1> QED
  BY <1>1, <1>2, <1>3, <1>4

LEMMA UnlistedStep ==
  ASSUME HubInv, MetInv, UnlistedOnlyIfReplaced, [Next]_vars
  PROVE  UnlistedOnlyIfReplaced'
<1> USE DEF HubInv, UnlistedOnlyIfReplaced
<1>0. conn \in [Conns -> Conn] /\ met \in [Conns -> SUBSET Conns]
  BY DEF TypeOK
<1>1. CASE Restart
  BY <1>0, <1>1 DEF Restart, IsServing, Serving, Conn
<1>2. ASSUME NEW c \in Conns, Register(c) PROVE UnlistedOnlyIfReplaced'
  <2>1. /\ conn[c].pc = "registering"
        /\ \A d \in Conns : conn'[d].user = conn[d].user
        /\ \A d \in Conns \ {c} : conn'[d] = conn[d]
    BY <1>0, <1>2 DEF Register, Goto, Conn
  <2>2. /\ \A d \in Conns : met[d] \subseteq met'[d] \/ d = c
        /\ \A d \in Siblings(c) : c \in met'[d]
    BY <1>0, <1>2 DEF Register, Siblings
  <2>3. /\ conn[c].user \in DOMAIN online' /\ online'[conn[c].user] = c
        /\ \A u \in DOMAIN online : u \in DOMAIN online' /\ (u # conn[c].user => online'[u] = online[u])
    BY <1>2 DEF Register
  <2>4. ASSUME NEW d \in Conns, d # c, IsServing(d)'
        PROVE  \/ conn[d].user \in DOMAIN online' /\ online'[conn[d].user] = d
               \/ met'[d] # {}
    <3>1. IsServing(d)
      BY <2>1, <2>4 DEF IsServing
    <3>2. CASE conn[d].user = conn[c].user
      BY <2>2, <2>4, <3>1, <3>2 DEF Siblings
    <3>3. CASE conn[d].user # conn[c].user
      BY <2>2, <2>3, <2>4, <3>1, <3>3
    <3> QED
      BY <3>2, <3>3
  <2> QED
    BY <2>1, <2>3, <2>4
<1>3. ASSUME NEW c \in Conns, Disconnect(c) PROVE UnlistedOnlyIfReplaced'
  <2>1. /\ IsServing(c) /\ ~IsServing(c)' /\ met' = met
        /\ \A d \in Conns \ {c} : conn'[d] = conn[d]
        /\ online' = Without(online, conn[c].user)
    BY <1>0, <1>3 DEF Disconnect, IsServing, Serving, Conn, history
  <2>2. ASSUME NEW d \in Conns \ {c}, IsServing(d)
        PROVE  \/ conn[d].user \in DOMAIN online' /\ online'[conn[d].user] = d
               \/ met[d] # {}
    <3>1. CASE conn[d].user = conn[c].user
      BY <2>1, <2>2, <3>1 DEF MetInv
    <3>2. CASE conn[d].user # conn[c].user
      BY <2>1, <2>2, <3>2 DEF Without
    <3> QED
      BY <3>1, <3>2
  <2> QED
    BY <2>1, <2>2 DEF IsServing
<1>4. CASE ~Restart /\ ~(\E c \in Conns : Register(c) \/ Disconnect(c))
  BY <1>4, MapStep, ServiceStep DEF SameService
<1> QED
  BY <1>1, <1>2, <1>3, <1>4

\* A served connection falls out of the map only by being replaced: it has
\* met another connection of its user.
THEOREM OnlyReplacementUnlists == Spec => []UnlistedOnlyIfReplaced
<1>1. Init => MetInv /\ UnlistedOnlyIfReplaced
  BY DEF Init, MetInv, UnlistedOnlyIfReplaced, IsServing, Serving, Fresh
<1>2. HubInv /\ MetInv /\ UnlistedOnlyIfReplaced /\ [Next]_vars
          => MetInv' /\ UnlistedOnlyIfReplaced'
  BY MetInvStep, UnlistedStep
<1> QED
  BY <1>1, <1>2, HubInvariant, PTL DEF Spec

-----------------------------------------------------------------------------
(***************************************************************************)
(* Tickets.                                                                *)
(***************************************************************************)
LEMMA TicketStep ==
  ASSUME TypeOK, TicketInv, [Next]_vars
  PROVE  TicketInv'
<1> USE DEF TicketInv
<1>0. admitted \in [Tickets -> SUBSET Conns] /\ DOMAIN tickets \subseteq issued
  BY DEF TypeOK
<1>1. ASSUME NEW u \in Users, IssueWSTicket(u) PROVE TicketInv'
  <2>1. PICK t \in Tickets \ issued :
            /\ DOMAIN tickets' = DOMAIN tickets \cup {t}
            /\ issued' = issued \cup {t} /\ admitted' = admitted
    BY <1>1 DEF IssueWSTicket
  <2>2. ASSUME NEW x \in Tickets, x \in issued \ DOMAIN tickets
        PROVE  x \in issued' \ DOMAIN tickets'
    BY <2>1, <2>2
  <2> QED
    BY <2>1, <2>2
<1>2. ASSUME NEW c \in Conns, NEW t \in Tickets, RedeemTicket(c, t) PROVE TicketInv'
  <2>1. DOMAIN tickets' = DOMAIN tickets \ {t} /\ issued' = issued
    BY <1>2 DEF RedeemTicket, Without
  <2>2. CASE Valid(t)
    <3>1. t \in issued /\ admitted[t] = {}
      BY <1>0, <2>2 DEF Valid
    <3>2. admitted' = [admitted EXCEPT ![t] = {c}]
      BY <1>2, <2>2, <3>1 DEF RedeemTicket
    <3> QED
      BY <1>0, <2>1, <3>1, <3>2
  <2>3. CASE ~Valid(t)
    BY <1>2, <2>1, <2>3 DEF RedeemTicket
  <2> QED
    BY <2>2, <2>3
<1>3. CASE Restart
  BY <1>0, <1>3 DEF Restart, history
<1>4. ASSUME NEW c \in Conns, NEW m \in Messages, NEW u \in Users, ReadMessage(c, m, u)
      PROVE  UNCHANGED <<tickets, issued, admitted>>
  BY <1>4 DEF ReadMessage, hub
<1>5. ASSUME NEW c \in Conns,
             \/ Upgrade(c) \/ Register(c) \/ Disconnect(c) \/ ReadInvalid(c)
             \/ ReadFails(c) \/ SendSucceeds(c) \/ SendFails(c) \/ WriteError(c)
             \/ WriteAck(c) \/ SearchRecipient(c) \/ FindRecipient(c) \/ Push(c)
             \/ PeerReads(c) \/ PeerLeaves(c)
      PROVE  UNCHANGED <<tickets, issued, admitted>>
  BY <1>5 DEF Upgrade, Register, Disconnect, ReadInvalid, ReadFails, SendSucceeds,
              SendFails, WriteError, WriteAck, SearchRecipient, FindRecipient, Push,
              PeerReads, PeerLeaves, hub, history
<1>6. ASSUME NEW m \in Messages, StoreMessage(m) PROVE UNCHANGED <<tickets, issued, admitted>>
  BY <1>6 DEF StoreMessage, hub, history
<1>7. ASSUME Tick \/ UNCHANGED vars PROVE UNCHANGED <<tickets, issued, admitted>>
  BY <1>7 DEF Tick, vars, hub, history
<1>8. ASSUME UNCHANGED <<tickets, issued, admitted>> PROVE TicketInv'
  BY <1>8
<1> QED
  BY <1>1, <1>2, <1>3, <1>4, <1>5, <1>6, <1>7, <1>8, HubCases

\* A ticket lets in one connection, however many requests present it and
\* whatever expires or restarts in between.
THEOREM TicketsAreSpent == Spec => []TicketAdmitsOnce
<1>1. Init => TicketInv
  BY DEF Init, TicketInv
<1>2. TypeOK /\ TicketInv /\ [Next]_vars => TicketInv'
  BY TicketStep
<1>3. TicketInv => TicketAdmitsOnce
  <2> SUFFICES ASSUME TicketInv, NEW t \in Tickets PROVE Cardinality(admitted[t]) <= 1
    BY DEF TicketAdmitsOnce
  <2>1. CASE admitted[t] = {}
    BY <2>1, FS_EmptySet
  <2>2. ASSUME NEW c \in Conns, admitted[t] = {c} PROVE Cardinality(admitted[t]) <= 1
    <3>1. Cardinality({c}) = 1
      BY FS_Singleton
    <3> QED
      BY <2>2, <3>1
  <2> QED
    BY <2>1, <2>2 DEF TicketInv
<1> QED
  BY <1>1, <1>2, <1>3, HubTypeCorrect, PTL DEF Spec

-----------------------------------------------------------------------------
(***************************************************************************)
(* Pushes.                                                                 *)
(***************************************************************************)
\* Only Push pushes.
LEMMA PushedStep ==
  ASSUME [Next]_vars, ~(\E c \in Conns : Push(c))
  PROVE  UNCHANGED pushed
<1>1. ASSUME NEW c \in Conns, NEW m \in Messages, NEW u \in Users, ReadMessage(c, m, u)
      PROVE  UNCHANGED pushed
  BY <1>1 DEF ReadMessage
<1>2. ASSUME NEW c \in Conns, NEW t \in Tickets, RedeemTicket(c, t) PROVE UNCHANGED pushed
  BY <1>2 DEF RedeemTicket
<1>3. ASSUME NEW c \in Conns,
             \/ Upgrade(c) \/ Register(c) \/ Disconnect(c) \/ ReadInvalid(c)
             \/ ReadFails(c) \/ SendSucceeds(c) \/ SendFails(c) \/ WriteError(c)
             \/ WriteAck(c) \/ SearchRecipient(c) \/ FindRecipient(c)
             \/ PeerReads(c) \/ PeerLeaves(c)
      PROVE  UNCHANGED pushed
  BY <1>3 DEF Upgrade, Register, Disconnect, ReadInvalid, ReadFails, SendSucceeds,
              SendFails, WriteError, WriteAck, SearchRecipient, FindRecipient,
              PeerReads, PeerLeaves, history
<1>4. CASE \/ \E u \in Users : IssueWSTicket(u)
           \/ \E m \in Messages : StoreMessage(m)
           \/ Tick \/ Restart \/ UNCHANGED vars
  BY <1>4 DEF IssueWSTicket, StoreMessage, Tick, Restart, vars, history
<1> QED
  BY <1>1, <1>2, <1>3, <1>4, HubCases

\* Who has been pushed to keeps his user.
LEMMA UsersStayStep ==
  ASSUME TypeOK, GoroutineInv, [Next]_vars, NEW c \in Conns, conn[c].pc # "new"
  PROVE  conn'[c].user = conn[c].user
<1>0. conn \in [Conns -> Conn]
  BY DEF TypeOK
<1>1. ASSUME NEW d \in Conns, NEW r \in Conn, Becomes(d, r), r.user = conn[d].user
      PROVE  conn'[c].user = conn[c].user
  BY <1>1 DEF Becomes, Others
<1>2. ASSUME NEW d \in Conns, NEW p \in Steps, Goto(d, p) PROVE conn'[c].user = conn[c].user
  BY <1>0, <1>1, <1>2, GotoStep
<1>3. ASSUME NEW d \in Conns, BackToReading(d) PROVE conn'[c].user = conn[c].user
  BY <1>0, <1>1, <1>3, ReadingStep
<1>4. ASSUME NEW d \in Conns, NEW t \in Tickets, RedeemTicket(d, t)
      PROVE  conn'[c].user = conn[c].user
  <2>1. d # c
    BY <1>4 DEF RedeemTicket
  <2> QED
    BY <1>0, <1>4, <2>1 DEF RedeemTicket, Goto
<1>5. ASSUME NEW d \in Conns,
             \/ Upgrade(d) \/ Register(d) \/ Disconnect(d) \/ ReadInvalid(d)
             \/ ReadFails(d) \/ SendSucceeds(d) \/ SendFails(d) \/ WriteAck(d)
      PROVE  conn'[c].user = conn[c].user
  <2>1. \E p \in Steps : Goto(d, p)
    BY <1>5 DEF Upgrade, Register, Disconnect, ReadInvalid, ReadFails, SendSucceeds,
                SendFails, WriteAck, Goto, Steps, Serving
  <2> QED
    BY <1>2, <2>1
<1>6. ASSUME NEW d \in Conns, NEW m \in Messages, NEW u \in Users, ReadMessage(d, m, u)
      PROVE  conn'[c].user = conn[c].user
  BY <1>0, <1>1, <1>6, MessageStep
<1>7. ASSUME NEW d \in Conns, WriteError(d) \/ Push(d) PROVE conn'[c].user = conn[c].user
  BY <1>3, <1>7 DEF WriteError, Push
<1>8. ASSUME NEW d \in Conns, SearchRecipient(d) PROVE conn'[c].user = conn[c].user
  <2>1. sent[conn[d].msg].to \in Users
    BY <1>8 DEF SearchRecipient, GoroutineInv, Knows, Handling, TypeOK
  <2>2. BackToReading(d) \/ Found(d, sent[conn[d].msg].to)
    BY <1>8 DEF SearchRecipient
  <2> QED
    BY <1>0, <1>1, <1>3, <2>1, <2>2, FoundStep
<1>9. ASSUME NEW d \in Conns, FindRecipient(d) PROVE conn'[c].user = conn[c].user
  <2>1. CASE conn[d].rcpt \in DOMAIN online
    <3>1. online[conn[d].rcpt] \in Conns
      BY <2>1 DEF TypeOK
    <3> QED
      BY <1>0, <1>1, <1>9, <2>1, <3>1, OnlineStep DEF FindRecipient
  <2>2. CASE conn[d].rcpt \notin DOMAIN online
    BY <1>3, <1>9, <2>2 DEF FindRecipient
  <2> QED
    BY <2>1, <2>2
<1>10. CASE Restart
  BY <1>0, <1>10 DEF Restart, Conn
<1>11. ASSUME \/ \E u \in Users : IssueWSTicket(u)
              \/ \E m \in Messages : StoreMessage(m)
              \/ \E d \in Conns : PeerReads(d) \/ PeerLeaves(d)
              \/ Tick
              \/ UNCHANGED vars
       PROVE  UNCHANGED conn
  BY <1>11 DEF IssueWSTicket, StoreMessage, PeerReads, PeerLeaves, Tick, vars
<1> QED
  BY <1>4, <1>5, <1>6, <1>7, <1>8, <1>9, <1>10, <1>11, HubCases

LEMMA AddressedStep ==
  ASSUME HubInv, PushedIsStoredAndAddressed, [Next]_vars
  PROVE  PushedIsStoredAndAddressed'
<1> USE DEF HubInv
<1>0. TablesGrow /\ pushed \in [Conns -> Seq(DOMAIN sent)]
  BY TablesGrowStep DEF TypeOK
<1>1. ASSUME NEW c \in Conns, NEW m \in Range(pushed[c])
      PROVE  m \in Range(stored') /\ sent'[m].to = conn'[c].user
  <2>1. m \in DOMAIN sent
    BY <1>0, ElementOfSeq, LenProperties DEF Range
  <2>2. m \in Range(stored) /\ sent[m].to = conn[c].user
    BY DEF PushedIsStoredAndAddressed
  <2>3. conn[c].pc # "new"
    BY <2>1, <2>2, HubNoneAssumption DEF TypeOK, GoroutineInv, Knows
  <2> QED
    BY <1>0, <2>1, <2>2, <2>3, UsersStayStep DEF TablesGrow
<1>2. CASE ~(\E c \in Conns : Push(c))
  BY <1>1, <1>2, PushedStep DEF PushedIsStoredAndAddressed
<1>3. ASSUME NEW c \in Conns, Push(c) PROVE PushedIsStoredAndAddressed'
  <2> DEFINE d == conn[c].rcv
             m == conn[c].msg
  <2>1. /\ d \in Conns /\ m \in DOMAIN sent /\ m \in Range(stored)
        /\ sent[m].to = conn[d].user
    BY <1>3 DEF Push, GoroutineInv, Knows, Handling, Told
  <2>2. m \in Range(stored') /\ sent'[m].to = conn'[d].user
    <3>1. conn[d].pc # "new"
      BY <2>1, HubNoneAssumption DEF TypeOK, GoroutineInv, Knows
    <3> QED
      BY <1>0, <2>1, <3>1, UsersStayStep DEF TablesGrow
  <2>3. ASSUME NEW e \in Conns, NEW x \in Range(pushed'[e])
        PROVE  x \in Range(pushed[e]) \/ (e = d /\ x = m)
    <3>1. CASE UNCHANGED pushed
      BY <3>1
    <3>2. CASE pushed' = [pushed EXCEPT ![d] = Append(@, m)]
      <4>1. CASE e # d
        BY <1>0, <2>1, <3>2, <4>1
      <4>2. CASE e = d
        <5>1. pushed'[e] = Append(pushed[d], m) /\ pushed[d] \in Seq(DOMAIN sent)
          BY <1>0, <2>1, <3>2, <4>2
        <5> QED
          BY <2>1, <4>2, <5>1, Appended DEF Range
      <4> QED
        BY <4>1, <4>2
    <3> QED
      BY <1>3, <3>1, <3>2 DEF Push
  <2> QED
    BY <1>1, <2>2, <2>3 DEF PushedIsStoredAndAddressed
<1> QED
  BY <1>2, <1>3

\* Nothing is pushed before it is stored, nor to anybody but its addressee,
\* though the connection was looked up before its goroutine wrote to it.
THEOREM PushesAreOfTheHistory == Spec => []PushedIsStoredAndAddressed
<1>1. Init => PushedIsStoredAndAddressed
  BY DEF Init, PushedIsStoredAndAddressed, Range
<1>2. HubInv /\ PushedIsStoredAndAddressed /\ [Next]_vars => PushedIsStoredAndAddressed'
  BY AddressedStep
<1> QED
  BY <1>1, <1>2, HubInvariant, PTL DEF Spec

\* A goroutine keeps its frame until it is done with it.
KeepsFrame(c) ==
    conn'[c].pc \in Handling => conn[c].pc \in Handling /\ conn'[c].msg = conn[c].msg

LEMMA FrameStep ==
  ASSUME TypeOK, GoroutineInv, [Next]_vars, NEW c \in Conns
  PROVE  KeepsFrame(c) \/ \E m \in Messages, u \in Users : ReadMessage(c, m, u)
<1>0. conn \in [Conns -> Conn]
  BY DEF TypeOK
<1>1. ASSUME NEW d \in Conns, NEW r \in Conn, Becomes(d, r),
             r.pc \in Handling => conn[d].pc \in Handling /\ r.msg = conn[d].msg
      PROVE  KeepsFrame(c)
  BY <1>1 DEF Becomes, Others, KeepsFrame
<1>2. ASSUME NEW d \in Conns, NEW p \in Steps, Goto(d, p),
             p \in Handling => conn[d].pc \in Handling
      PROVE  KeepsFrame(c)
  BY <1>0, <1>1, <1>2, GotoStep
<1>3. ASSUME NEW d \in Conns, BackToReading(d) PROVE KeepsFrame(c)
  BY <1>0, <1>1, <1>3, ReadingStep DEF Handling
<1>4. ASSUME NEW d \in Conns, NEW t \in Tickets, RedeemTicket(d, t) PROVE KeepsFrame(c)
  <2>1. CASE Valid(t)
    <3>1. tickets[t].user \in Users
      BY <2>1 DEF Valid, TypeOK
    <3> QED
      BY <1>0, <1>1, <1>4, <2>1, <3>1, RedeemedStep DEF RedeemTicket, Handling
  <2>2. CASE ~Valid(t)
    BY <1>2, <1>4, <2>2 DEF RedeemTicket, Steps, Handling
  <2> QED
    BY <2>1, <2>2
<1>5. ASSUME NEW d \in Conns,
             \/ Upgrade(d) \/ Register(d) \/ Disconnect(d) \/ ReadInvalid(d)
             \/ ReadFails(d) \/ SendSucceeds(d) \/ SendFails(d) \/ WriteAck(d)
      PROVE  KeepsFrame(c)
  <2>1. \E p \in Steps : Goto(d, p) /\ (p \in Handling => conn[d].pc \in Handling)
    BY <1>5 DEF Upgrade, Register, Disconnect, ReadInvalid, ReadFails, SendSucceeds,
                SendFails, WriteAck, Goto, Steps, Serving, Handling
  <2> QED
    BY <1>2, <2>1
<1>6. ASSUME NEW d \in Conns, NEW m \in Messages, NEW u \in Users, ReadMessage(d, m, u), d # c
      PROVE  KeepsFrame(c)
  BY <1>0, <1>6, MessageStep DEF Becomes, Others, KeepsFrame
<1>7. ASSUME NEW d \in Conns, WriteError(d) \/ Push(d) PROVE KeepsFrame(c)
  BY <1>3, <1>7 DEF WriteError, Push
<1>8. ASSUME NEW d \in Conns, SearchRecipient(d) PROVE KeepsFrame(c)
  <2>1. sent[conn[d].msg].to \in Users /\ conn[d].pc \in Handling
    BY <1>8 DEF SearchRecipient, GoroutineInv, Knows, Handling, TypeOK
  <2>2. BackToReading(d) \/ Found(d, sent[conn[d].msg].to)
    BY <1>8 DEF SearchRecipient
  <2> QED
    BY <1>0, <1>1, <1>3, <2>1, <2>2, FoundStep
<1>9. ASSUME NEW d \in Conns, FindRecipient(d) PROVE KeepsFrame(c)
  <2>0. conn[d].pc \in Handling
    BY <1>9 DEF FindRecipient, Handling
  <2>1. CASE conn[d].rcpt \in DOMAIN online
    <3>1. online[conn[d].rcpt] \in Conns
      BY <2>1 DEF TypeOK
    <3> QED
      BY <1>0, <1>1, <1>9, <2>0, <2>1, <3>1, OnlineStep DEF FindRecipient
  <2>2. CASE conn[d].rcpt \notin DOMAIN online
    BY <1>3, <1>9, <2>2 DEF FindRecipient
  <2> QED
    BY <2>1, <2>2
<1>10. CASE Restart
  BY <1>0, <1>10 DEF Restart, Conn, KeepsFrame, Handling
<1>11. ASSUME \/ \E u \in Users : IssueWSTicket(u)
              \/ \E m \in Messages : StoreMessage(m)
              \/ \E d \in Conns : PeerReads(d) \/ PeerLeaves(d)
              \/ Tick
              \/ UNCHANGED vars
       PROVE  UNCHANGED conn
  BY <1>11 DEF IssueWSTicket, StoreMessage, PeerReads, PeerLeaves, Tick, vars
<1>12. ASSUME UNCHANGED conn PROVE KeepsFrame(c)
  BY <1>12 DEF KeepsFrame
<1> QED
  BY <1>4, <1>5, <1>6, <1>7, <1>8, <1>9, <1>10, <1>11, <1>12, HubCases

\* The history only grows at its end.
LEMMA HistoryStep ==
  ASSUME TypeOK, [Next]_vars
  PROVE  \A k \in DOMAIN stored :
             /\ k \in DOMAIN stored' /\ stored'[k] = stored[k]
             /\ \A l \in DOMAIN stored' \ DOMAIN stored : k < l
<1>1. ASSUME NEW m \in Messages, StoreMessage(m), stored' = Append(stored, m)
      PROVE  \A k \in DOMAIN stored :
                 /\ k \in DOMAIN stored' /\ stored'[k] = stored[k]
                 /\ \A l \in DOMAIN stored' \ DOMAIN stored : k < l
  <2>1. m \in DOMAIN sent /\ stored \in Seq(DOMAIN sent)
    BY <1>1 DEF StoreMessage, TypeOK
  <2> QED
    BY <1>1, <2>1, Appended
<1>2. ASSUME NEW m \in Messages, StoreMessage(m)
      PROVE  stored' = Append(stored, m) \/ UNCHANGED stored
  BY <1>2 DEF StoreMessage
<1>3. CASE UNCHANGED stored
  BY <1>3
<1>5. ASSUME NEW c \in Conns, NEW t \in Tickets, RedeemTicket(c, t) PROVE UNCHANGED stored
  BY <1>5 DEF RedeemTicket, service
<1>6. ASSUME NEW u \in Users, IssueWSTicket(u) PROVE UNCHANGED stored
  BY <1>6 DEF IssueWSTicket, service
<1>7. ASSUME NEW c \in Conns, NEW m \in Messages, NEW u \in Users, ReadMessage(c, m, u)
      PROVE  UNCHANGED stored
  BY <1>7 DEF ReadMessage
<1>8. ASSUME NEW c \in Conns,
             \/ Upgrade(c) \/ Register(c) \/ Disconnect(c) \/ ReadInvalid(c)
             \/ ReadFails(c) \/ SendSucceeds(c) \/ SendFails(c) \/ WriteError(c)
             \/ WriteAck(c) \/ SearchRecipient(c) \/ FindRecipient(c) \/ Push(c)
             \/ PeerReads(c) \/ PeerLeaves(c)
      PROVE  UNCHANGED stored
  BY <1>8 DEF Upgrade, Register, Disconnect, ReadInvalid, ReadFails, SendSucceeds,
              SendFails, WriteError, WriteAck, SearchRecipient, FindRecipient, Push,
              PeerReads, PeerLeaves, service
<1>9. CASE Tick \/ Restart \/ UNCHANGED vars
  BY <1>3, <1>9 DEF Tick, Restart, vars, service
<1> QED
  BY <1>1, <1>2, <1>3, <1>5, <1>6, <1>7, <1>8, <1>9, HubCases

LEMMA OrderStep ==
  ASSUME HubInv, PushedIsStoredAndAddressed, OrderInv, [Next]_vars
  PROVE  OrderInv'
<1> USE DEF HubInv
<1>0. TablesGrow /\ pushed \in [Conns -> Seq(DOMAIN sent)]
  BY TablesGrowStep DEF TypeOK
<1>1. ASSUME NEW d \in Conns, NEW i \in DOMAIN pushed[d]
      PROVE  /\ pushed[d][i] \in DOMAIN sent
             /\ \E k \in DOMAIN stored : stored[k] = pushed[d][i]
  <2>1. pushed[d][i] \in Range(pushed[d])
    BY DEF Range
  <2> QED
    BY <1>0, <2>1, ElementOfSeq, LenProperties DEF PushedIsStoredAndAddressed, Range
\* What was pushed before the step stays behind the frame.
<1>2. ASSUME NEW c \in Conns, conn'[c].pc \in Handling,
             NEW d \in Conns, NEW i \in DOMAIN pushed[d], sent[pushed[d][i]].from = c,
             NEW l \in DOMAIN stored', stored'[l] = conn'[c].msg
      PROVE  \E k \in DOMAIN stored' : k < l /\ stored'[k] = pushed[d][i]
  <2>1. PICK k0 \in DOMAIN stored : stored[k0] = pushed[d][i]
    BY <1>1
  <2>2. CASE l \notin DOMAIN stored
    BY <2>1, <2>2, HistoryStep
  <2>3. CASE l \in DOMAIN stored
    <3>1. stored'[l] = stored[l]
      BY <2>3, HistoryStep
    <3>2. KeepsFrame(c)
      <4>1. ASSUME NEW m \in Messages, NEW u \in Users, ReadMessage(c, m, u) PROVE FALSE
        <5>0. conn \in [Conns -> Conn]
          BY DEF TypeOK
        <5>1. PICK r \in Conn : Becomes(c, r) /\ r.msg = m
          BY <4>1, <5>0, MessageStep
        <5>2. stored[l] = m
          BY <1>2, <3>1, <5>1 DEF Becomes
        <5>3. stored[l] \in DOMAIN sent
          BY <2>3, ElementOfSeq, LenProperties DEF TypeOK
        <5> QED
          BY <4>1, <5>2, <5>3 DEF ReadMessage
      <4> QED
        BY <4>1, FrameStep
    <3>3. \E k \in DOMAIN stored : k < l /\ stored[k] = pushed[d][i]
      BY <1>2, <2>3, <3>1, <3>2 DEF OrderInv, AfterPushed, KeepsFrame
    <3> QED
      BY <3>3, HistoryStep
  <2> QED
    BY <2>2, <2>3
<1>3. CASE ~(\E c \in Conns : Push(c))
  <2>1. pushed' = pushed
    BY <1>3, PushedStep
  <2>2. ASSUME NEW d \in Conns, NEW i \in DOMAIN pushed[d]
        PROVE  sent'[pushed[d][i]].from = sent[pushed[d][i]].from
    BY <1>0, <1>1 DEF TablesGrow
  <2> QED
    BY <1>2, <2>1, <2>2 DEF OrderInv, AfterPushed
<1>4. ASSUME NEW e \in Conns, Push(e) PROVE OrderInv'
  <2> DEFINE rcv == conn[e].rcv
             m == conn[e].msg
  <2>1. rcv \in Conns /\ m \in DOMAIN sent /\ sent[m].from = e /\ sent' = sent
    BY <1>4 DEF Push, GoroutineInv, Knows, Handling
  <2>2. conn'[e].pc \notin Handling
    BY <1>4, ReadingStep DEF Push, TypeOK, Becomes, Handling
  <2>3. ASSUME NEW d \in Conns, NEW i \in DOMAIN pushed'[d]
        PROVE  \/ i \in DOMAIN pushed[d] /\ pushed'[d][i] = pushed[d][i]
               \/ pushed'[d][i] = m
    <3>1. CASE UNCHANGED pushed
      BY <3>1
    <3>2. CASE pushed' = [pushed EXCEPT ![rcv] = Append(@, m)]
      <4>1. CASE d # rcv
        BY <1>0, <2>1, <3>2, <4>1
      <4>2. CASE d = rcv
        <5>1. pushed'[d] = Append(pushed[d], m) /\ pushed[d] \in Seq(DOMAIN sent)
          BY <1>0, <2>1, <3>2, <4>2
        <5> QED
          BY <2>1, <5>1, Appended
      <4> QED
        BY <4>1, <4>2
    <3> QED
      BY <1>4, <3>1, <3>2 DEF Push
  <2>4. ASSUME NEW c \in Conns, conn'[c].pc \in Handling,
               NEW d \in Conns, NEW i \in DOMAIN pushed'[d], sent[pushed'[d][i]].from = c
        PROVE  i \in DOMAIN pushed[d] /\ pushed'[d][i] = pushed[d][i]
    BY <2>1, <2>2, <2>3, <2>4
  <2> QED
    BY <1>2, <2>1, <2>4 DEF OrderInv, AfterPushed
<1> QED
  BY <1>3, <1>4

LEMMA FollowStep ==
  ASSUME HubInv, PushedIsStoredAndAddressed, OrderInv, PushesFollowHistory, [Next]_vars
  PROVE  PushesFollowHistory'
<1> USE DEF HubInv
<1> DEFINE Follows(x, y, s) == \E k, l \in DOMAIN s : k < l /\ s[k] = x /\ s[l] = y
<1>0. TablesGrow /\ pushed \in [Conns -> Seq(DOMAIN sent)]
  BY TablesGrowStep DEF TypeOK
<1>1. ASSUME NEW x, NEW y, Follows(x, y, stored) PROVE Follows(x, y, stored')
  BY <1>1, HistoryStep
<1>2. ASSUME NEW d \in Conns, NEW i \in DOMAIN pushed[d]
      PROVE  pushed[d][i] \in DOMAIN sent /\ sent'[pushed[d][i]] = sent[pushed[d][i]]
  <2>1. pushed[d][i] \in DOMAIN sent
    BY <1>0, ElementOfSeq, LenProperties
  <2> QED
    BY <1>0, <2>1 DEF TablesGrow
<1>3. ASSUME NEW d \in Conns, NEW i \in DOMAIN pushed[d], NEW j \in DOMAIN pushed[d], i < j,
             sent'[pushed[d][i]].from = sent'[pushed[d][j]].from
      PROVE  Follows(pushed[d][i], pushed[d][j], stored')
  <2>1. Follows(pushed[d][i], pushed[d][j], stored)
    BY <1>2, <1>3 DEF PushesFollowHistory
  <2> QED
    BY <1>1, <2>1
<1>4. CASE ~(\E c \in Conns : Push(c))
  <2>1. pushed' = pushed
    BY <1>4, PushedStep
  <2> QED
    BY <1>3, <2>1 DEF PushesFollowHistory
<1>5. ASSUME NEW e \in Conns, Push(e) PROVE PushesFollowHistory'
  <2> DEFINE rcv == conn[e].rcv
             m == conn[e].msg
  <2>1. /\ rcv \in Conns /\ m \in DOMAIN sent /\ sent[m].from = e
        /\ m \in Range(stored) /\ conn[e].pc \in Handling
    BY <1>5 DEF Push, GoroutineInv, Knows, Handling, Told
  <2>2. sent' = sent /\ stored' = stored
    BY <1>5 DEF Push, service
  <2>3. CASE UNCHANGED pushed
    BY <1>3, <2>3 DEF PushesFollowHistory
  <2>4. CASE pushed' = [pushed EXCEPT ![rcv] = Append(@, m)]
    <3>1. /\ pushed[rcv] \in Seq(DOMAIN sent) /\ pushed'[rcv] = Append(pushed[rcv], m)
          /\ \A d \in Conns \ {rcv} : pushed'[d] = pushed[d]
      BY <1>0, <2>1, <2>4
    <3>2. /\ DOMAIN pushed'[rcv] = DOMAIN pushed[rcv] \cup {Len(pushed[rcv]) + 1}
          /\ \A i \in DOMAIN pushed[rcv] :
                 i < Len(pushed[rcv]) + 1 /\ pushed'[rcv][i] = pushed[rcv][i]
          /\ pushed'[rcv][Len(pushed[rcv]) + 1] = m
          /\ DOMAIN pushed[rcv] = 1 .. Len(pushed[rcv]) /\ Len(pushed[rcv]) \in Nat
      BY <2>1, <3>1, Appended
    <3>3. ASSUME NEW i \in DOMAIN pushed[rcv], sent[pushed[rcv][i]].from = e
          PROVE  Follows(pushed[rcv][i], m, stored)
      <4>1. PICK l \in DOMAIN stored : stored[l] = m
        BY <2>1 DEF Range
      <4> QED
        BY <2>1, <3>3, <4>1 DEF OrderInv, AfterPushed
    <3>4. ASSUME NEW i \in DOMAIN pushed'[rcv], NEW j \in DOMAIN pushed'[rcv], i < j,
                 sent[pushed'[rcv][i]].from = sent[pushed'[rcv][j]].from
          PROVE  Follows(pushed'[rcv][i], pushed'[rcv][j], stored)
      <4>1. i \in DOMAIN pushed[rcv] /\ pushed'[rcv][i] = pushed[rcv][i]
        BY <3>2, <3>4
      <4>2. CASE j \in DOMAIN pushed[rcv]
        <5>1. pushed'[rcv][j] = pushed[rcv][j]
          BY <3>2, <4>2
        <5> QED
          BY <2>1, <3>4, <4>1, <4>2, <5>1 DEF PushesFollowHistory
      <4>3. CASE j = Len(pushed[rcv]) + 1
        <5>1. pushed'[rcv][j] = m
          BY <3>2, <4>3
        <5>2. sent[pushed[rcv][i]].from = e
          BY <2>1, <3>4, <4>1, <5>1
        <5> HIDE DEF Follows, m, rcv
        <5> QED
          BY <3>3, <4>1, <5>1, <5>2
      <4> QED
        BY <3>2, <4>2, <4>3
    <3>5. ASSUME NEW d \in Conns, NEW i \in DOMAIN pushed'[d], NEW j \in DOMAIN pushed'[d],
                 i < j, sent[pushed'[d][i]].from = sent[pushed'[d][j]].from
          PROVE  Follows(pushed'[d][i], pushed'[d][j], stored)
      <4>1. CASE d = rcv
        BY <3>4, <3>5, <4>1
      <4>2. CASE d # rcv
        BY <3>1, <3>5, <4>2 DEF PushesFollowHistory
      <4> QED
        BY <4>1, <4>2
    <3> QED
      BY <2>2, <3>5 DEF PushesFollowHistory
  <2> QED
    BY <1>5, <2>3, <2>4 DEF Push
<1> QED
  BY <1>4, <1>5

\* The messages of one connection are pushed, on any connection, in the order
\* in which the history has them: its goroutine handles a frame at a time.
THEOREM PushesKeepOrder == Spec => []PushesFollowHistory
<1>1. Init => OrderInv /\ PushesFollowHistory
  BY DEF Init, OrderInv, AfterPushed, PushesFollowHistory
<1>2. HubInv /\ PushedIsStoredAndAddressed /\ OrderInv /\ PushesFollowHistory /\ [Next]_vars
          => OrderInv' /\ PushesFollowHistory'
  BY OrderStep, FollowStep
<1> QED
  BY <1>1, <1>2, HubInvariant, PushesAreOfTheHistory, PTL DEF Spec
=============================================================================
