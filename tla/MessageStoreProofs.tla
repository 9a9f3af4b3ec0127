------------------------- MODULE MessageStoreProofs -------------------------
(***************************************************************************)
(* Proofs about MessageStore, for every number of users, messages and      *)
(* keys, every page limit, and any finite number of calls in progress.     *)
(*                                                                         *)
(* The properties of a walk follow from what is known of the page that the *)
(* next response brings: its rows are older than the cursor, come in the   *)
(* order of their stamps, and leave out nothing that is newer than the     *)
(* last of them.  Between the SELECT and the response rows only appear.    *)
(***************************************************************************)
EXTENDS MessageStore, SequenceTheorems, FiniteSetTheorems, TLAPS

-----------------------------------------------------------------------------
\* An INSERT in progress is from a user to a user, ...
InsertInv ==
    \A c \in Clients : call[c].pc = "insert" => call[c].user \in Users /\ call[c].peer \in Users

\* ... and the table is finite at any time.
FiniteInv == IsFiniteSet(Visible)

StoreInv == TypeOK /\ InsertInv /\ FiniteInv

-----------------------------------------------------------------------------
Stamp(m) == messages[m].created

Sorted(s) == \A i, j \in DOMAIN s : i < j => InOrder(s[i], s[j])

OfWalk(c, m) == {messages[m].from, messages[m].to} = {walk[c].user, walk[c].peer}

\* A message of the conversation that was there when the walk began has been
\* shown, ties with the end of a page, or is still ahead of the cursor.
Covered(c, m) ==
    \/ m \in Range(walk[c].seen)
    \/ \E cut \in walk[c].cuts : Stamp(cut) = Stamp(m)
    \/ ~walk[c].done /\ Precedes(m, walk[c].cursor)

\* What a walk has seen ends at its cursor.
WalkOK(c) ==
    /\ Range(walk[c].seen) \cup walk[c].cuts \cup walk[c].start \subseteq Visible
    /\ IsInjective(walk[c].seen)
    /\ Sorted(walk[c].seen)
    /\ walk[c].cursor = None => walk[c].done \/ walk[c].seen = <<>>
    /\ walk[c].cursor # None =>
           /\ walk[c].cursor \in Visible
           /\ \A m \in Range(walk[c].seen) : InOrder(m, walk[c].cursor)
    /\ \A m \in walk[c].start : OfWalk(c, m) => Covered(c, m)

\* The page that a call has read continues the walk.
HasPage(c) == call[c].pc = "mark" \/ (call[c].pc = "reply" /\ call[c].page)

PageOK(c) ==
    HasPage(c) =>
        /\ ~walk[c].done
        /\ Range(call[c].rows) \subseteq Visible
        /\ IsInjective(call[c].rows)
        /\ Sorted(call[c].rows)
        /\ \A m \in Range(call[c].rows) : Precedes(m, walk[c].cursor)
        /\ \A m \in walk[c].start :
               (OfWalk(c, m) /\ Precedes(m, walk[c].cursor)) =>
                   \/ m \in Range(call[c].rows)
                   \/ /\ call[c].rows # <<>>
                      /\ InOrder(call[c].rows[Len(call[c].rows)], m)

WalkInv == \A c \in Readers : WalkOK(c) /\ PageOK(c)

\* A message that was visible when an INSERT began is not stamped later.
BeforeInv ==
    /\ \A m \in Visible : \A x \in before[m] : x \in Visible /\ Stamp(x) <= Stamp(m)
    /\ \A c \in Clients : call[c].pc = "insert" =>
           \A x \in before[call[c].msg] : x \in Visible /\ Stamp(x) <= call[c].at

-----------------------------------------------------------------------------
LEMMA StoreCases ==
  ASSUME Next
  PROVE  \/ \E c \in Senders, u, v \in Users : SendMessage(c, u, v)
         \/ \E c \in Senders : InsertCommits(c) \/ InsertFails(c)
         \/ \E c \in Readers, u, p \in Users, n \in Limits : FirstPage(c, u, p, n)
         \/ \E c \in Readers, n \in Limits : NextPage(c, n)
         \/ \E c \in Readers : MarkDelivered(c)
         \/ \E c \in Clients : Refuse(c) \/ Respond(c)
         \/ Tick
         \/ Restart
  BY DEF Next, Send, GetHistory

\* A function on 1 .. n is a sequence.
LEMMA Sequence ==
  ASSUME NEW S, NEW n \in Nat, NEW f \in [1 .. n -> S]
  PROVE  f \in Seq(S) /\ Len(f) = n /\ DOMAIN f = 1 .. n
OBVIOUS

\* What the database may answer: rows that precede the cursor, each once, in
\* order, and none left out that is newer than the last.
LEMMA PageProperties ==
  ASSUME FiniteInv, NEW u, NEW p, NEW cursor, NEW n \in Int,
         NEW page \in Pages(u, p, cursor, n)
  PROVE  /\ page \in Seq(Visible)
         /\ Range(page) \subseteq Conversation(u, p)
         /\ IsInjective(page)
         /\ Sorted(page)
         /\ \A m \in Range(page) : Precedes(m, cursor)
         /\ \A m \in Conversation(u, p) :
                Precedes(m, cursor) =>
                    \/ m \in Range(page)
                    \/ page # <<>> /\ InOrder(page[Len(page)], m)
<1> DEFINE rows == {m \in Conversation(u, p) : Precedes(m, cursor)}
           all  == Cardinality(rows)
           size == IF PageLimit(n) < all THEN PageLimit(n) ELSE all
<1>1. IsFiniteSet(rows) /\ all \in Nat
  BY FS_Subset, FS_CardinalityType DEF FiniteInv, Conversation
<1>2. PageLimit(n) \in Nat \ {0}
  BY DEF PageLimit
<1>3. size \in Nat /\ (size = 0 => rows = {})
  BY <1>1, <1>2, FS_EmptySet
<1>4. /\ page \in [1 .. size -> rows]
      /\ IsInjective(page)
      /\ \A i, j \in 1 .. size : i < j => InOrder(page[i], page[j])
      /\ \A i \in 1 .. size : \A m \in rows \ Range(page) : InOrder(page[i], m)
  BY DEF Pages
<1> HIDE DEF all, size
<1>5. page \in Seq(rows) /\ Len(page) = size /\ DOMAIN page = 1 .. size
  BY <1>3, <1>4, Sequence
<1>6. rows \subseteq Conversation(u, p) /\ Conversation(u, p) \subseteq Visible
  BY DEF Conversation
<1>7. page \in Seq(Visible)
  BY <1>5, <1>6, SeqMonotonic
<1>8. \A m \in Range(page) : m \in rows
  BY <1>4 DEF Range
<1>9. ASSUME NEW m \in rows, m \notin Range(page)
      PROVE  page # <<>> /\ InOrder(page[Len(page)], m)
  <2>1. size \in 1 .. size
    BY <1>3, <1>9
  <2> QED
    BY <1>4, <1>5, <1>9, <2>1
<1> QED
  BY <1>4, <1>5, <1>6, <1>7, <1>8, <1>9 DEF Sorted

-----------------------------------------------------------------------------
(***************************************************************************)
(* Types.                                                                  *)
(***************************************************************************)
\* One call changes.
CallBecomes(c, r) ==
    /\ call' \in [Clients -> Call]
    /\ call'[c] = r
    /\ \A d \in Clients \ {c} : call'[d] = call[d]

LEMMA CallUpdate ==
  ASSUME call \in [Clients -> Call], NEW c \in Clients, NEW r \in Call,
         call' = [call EXCEPT ![c] = r]
  PROVE  CallBecomes(c, r)
BY DEF CallBecomes

LEMMA IdleCall == Idle \in Call
BY EmptySeq, StoreNumbersAssumption DEF Idle, Call

LEMMA AnswerStep ==
  ASSUME call \in [Clients -> Call], NEW c \in Clients, Answer(c)
  PROVE  \E r \in Call : CallBecomes(c, r) /\ r.pc = "reply" /\ ~r.page /\ r.msg = None
<1> DEFINE r == [Idle EXCEPT !.pc = "reply"]
<1>1. r \in Call /\ r.pc = "reply" /\ ~r.page /\ r.msg = None
  BY IdleCall DEF Idle, Call
<1>2. call' = [call EXCEPT ![c] = r]
  BY DEF Answer
<1> HIDE DEF r
<1> QED
  BY <1>1, <1>2, CallUpdate

\* Rows that become visible are those of the calls that insert them.
LEMMA InsertedRows ==
  ASSUME StoreInv, NEW S \in SUBSET {c \in Clients : call[c].pc = "insert"}
  PROVE  /\ DOMAIN Inserted(S) = Visible \cup {call[c].msg : c \in S}
         /\ \A m \in Visible : Inserted(S)[m] = messages[m]
         /\ \A c \in S : call[c].msg \in Messages \ Visible
                         /\ Inserted(S)[call[c].msg] =
                                [from |-> call[c].user, to |-> call[c].peer,
                                 created |-> call[c].at, key |-> key, delivered |-> FALSE]
<1>1. \A c \in S : c \in Clients /\ call[c].pc = "insert"
  OBVIOUS
<1>2. \A c \in S : call[c].msg \in Messages \ Visible
                   /\ \A d \in S : call[d].msg = call[c].msg => d = c
  BY <1>1 DEF StoreInv, TypeOK
<1>3. ASSUME NEW c \in S
      PROVE  Inserted(S)[call[c].msg] =
                 [from |-> call[c].user, to |-> call[c].peer,
                  created |-> call[c].at, key |-> key, delivered |-> FALSE]
  <2>1. (CHOOSE d \in S : call[d].msg = call[c].msg) = c
    BY <1>2
  <2> QED
    BY <1>2, <2>1 DEF Inserted
<1> QED
  BY <1>2, <1>3 DEF Inserted

LEMMA InsertedTyped ==
  ASSUME StoreInv, NEW S \in SUBSET {c \in Clients : call[c].pc = "insert"},
         messages' = Inserted(S)
  PROVE  /\ DOMAIN messages' \subseteq Messages
         /\ messages' \in [DOMAIN messages' -> Row]
         /\ \A m \in DOMAIN messages' : messages'[m].created <= now
         /\ Visible \subseteq DOMAIN messages'
         /\ IsFiniteSet(DOMAIN messages')
<1>1. /\ DOMAIN messages' = Visible \cup {call[c].msg : c \in S}
      /\ \A m \in Visible : messages'[m] = messages[m]
      /\ \A c \in S : call[c].msg \in Messages \ Visible
                      /\ messages'[call[c].msg] =
                             [from |-> call[c].user, to |-> call[c].peer,
                              created |-> call[c].at, key |-> key, delivered |-> FALSE]
  BY InsertedRows
<1>2. ASSUME NEW c \in S
      PROVE  messages'[call[c].msg] \in Row /\ messages'[call[c].msg].created <= now
  <2>1. c \in Clients /\ call[c].pc = "insert" /\ call[c] \in Call
    BY DEF StoreInv, TypeOK
  <2>2. /\ call[c].user \in Users /\ call[c].peer \in Users
        /\ call[c].at \in 0 .. MaxTime /\ call[c].at <= now /\ key \in Keys
    BY <2>1 DEF StoreInv, TypeOK, InsertInv, Call
  <2>3. messages'[call[c].msg] =
            [from |-> call[c].user, to |-> call[c].peer,
             created |-> call[c].at, key |-> key, delivered |-> FALSE]
    BY <1>1
  <2> QED
    BY <2>2, <2>3 DEF Row
<1>3. messages' = [m \in DOMAIN messages' |-> messages'[m]]
  BY DEF Inserted
<1>4. \A m \in DOMAIN messages' : messages'[m] \in Row /\ messages'[m].created <= now
  BY <1>1, <1>2 DEF StoreInv, TypeOK
<1>5. IsFiniteSet({call[c].msg : c \in S})
  <2>1. S \subseteq Senders \cup Readers
    BY DEF Clients
  <2>2. IsFiniteSet(S)
    BY <2>1, StoreFiniteAssumption, FS_Subset
  <2> DEFINE T == {call[c].msg : c \in S}
             f == [c \in S |-> call[c].msg]
  <2>3. f \in Surjection(S, T)
    BY DEF Surjection
  <2> HIDE DEF f
  <2> QED
    BY <2>2, <2>3, FS_Surjection
<1>6. IsFiniteSet(DOMAIN messages')
  <2> DEFINE T == {call[c].msg : c \in S}
  <2>1. IsFiniteSet(Visible) /\ IsFiniteSet(T) /\ DOMAIN messages' = Visible \cup T
    BY <1>1, <1>5 DEF StoreInv, FiniteInv
  <2> HIDE DEF T
  <2> QED
    BY <2>1, FS_Union
<1>7. DOMAIN messages' \subseteq Messages
  BY <1>1 DEF StoreInv, TypeOK
<1>8. messages' \in [DOMAIN messages' -> Row]
  BY <1>3, <1>4
<1> QED
  BY <1>1, <1>4, <1>6, <1>7, <1>8

\* The part of TypeOK that relates the calls to the table.
Inserting ==
    \A c \in Clients : call[c].pc = "insert" =>
        /\ call[c].msg \in Messages \ Visible
        /\ call[c].at <= now
        /\ \A d \in Clients \ {c} : call[d].msg # call[c].msg

LEMMA TypeStep ==
  ASSUME StoreInv, [Next]_vars
  PROVE  TypeOK'
<1> USE DEF StoreInv, Visible, Inserting
<1>0. /\ call \in [Clients -> Call] /\ walk \in [Readers -> Walk] /\ Idle \in Call
      /\ Visible \subseteq Messages /\ None \notin Messages /\ Senders \cup Readers = Clients
  BY IdleCall, StoreNoneAssumption DEF TypeOK, Clients
\* A step that changes one call, and begins no INSERT.
<1>1. ASSUME NEW c \in Clients, NEW r \in Call, CallBecomes(c, r), r.pc # "insert",
             r.msg \in {None, call[c].msg},
             \/ DOMAIN messages' = Visible
             \/ /\ call[c].pc = "insert" /\ r.msg = None
                /\ DOMAIN messages' = Visible \cup {call[c].msg},
             UNCHANGED now
      PROVE  Inserting'
  BY <1>0, <1>1 DEF CallBecomes, TypeOK
<1>2. ASSUME NEW c \in Clients, Answer(c), UNCHANGED <<messages, key, now, walk, before>>,
             selected' = selected
      PROVE  TypeOK'
  BY <1>0, <1>1, <1>2, AnswerStep DEF TypeOK, CallBecomes
<1>3. ASSUME NEW c \in Senders, NEW u \in Users, NEW v \in Users, SendMessage(c, u, v)
      PROVE  TypeOK'
  <2>1. PICK m \in Messages \ Visible :
            /\ \A d \in Clients : call[d].msg # m
            /\ call' = [call EXCEPT ![c] =
                           [Idle EXCEPT !.pc = "insert", !.user = u, !.peer = v,
                                        !.msg = m, !.at = now]]
            /\ before' = [before EXCEPT ![m] = Visible]
    BY <1>3 DEF SendMessage
  <2> DEFINE r == [Idle EXCEPT !.pc = "insert", !.user = u, !.peer = v, !.msg = m, !.at = now]
  <2>2. r \in Call /\ r.pc = "insert" /\ r.msg = m /\ r.at = now
    BY <1>0 DEF Idle, Call, TypeOK
  <2> HIDE DEF r
  <2>3. CallBecomes(c, r)
    BY <1>0, <2>1, <2>2, CallUpdate DEF r
  <2>4. before' \in [Messages -> SUBSET Messages]
    BY <1>0, <2>1 DEF TypeOK
  <2>5. now <= now
    BY StoreNumbersAssumption DEF TypeOK
  <2> QED
    BY <1>0, <1>3, <2>1, <2>2, <2>3, <2>4, <2>5 DEF SendMessage, CallBecomes, TypeOK
<1>4. ASSUME NEW c \in Senders, InsertCommits(c) PROVE TypeOK'
  <2>1. messages' = Inserted({c}) /\ {c} \in SUBSET {d \in Clients : call[d].pc = "insert"}
    BY <1>0, <1>4 DEF InsertCommits
  <2>2. /\ DOMAIN messages' \subseteq Messages
        /\ messages' \in [DOMAIN messages' -> Row]
        /\ \A m \in DOMAIN messages' : messages'[m].created <= now
        /\ Visible \subseteq DOMAIN messages'
    BY <2>1, InsertedTyped
  <2>3. DOMAIN messages' = Visible \cup {call[c].msg}
    <3>1. DOMAIN messages' = Visible \cup {call[d].msg : d \in {c}}
      BY <2>1, InsertedRows
    <3> QED
      BY <3>1
  <2>4. PICK r \in Call : CallBecomes(c, r) /\ r.pc = "reply" /\ r.msg = None
    BY <1>0, <1>4, AnswerStep DEF InsertCommits
  <2>5. Inserting'
    BY <1>0, <1>1, <1>4, <2>3, <2>4 DEF InsertCommits
  <2> QED
    BY <1>4, <2>2, <2>4, <2>5 DEF InsertCommits, CallBecomes, TypeOK, history
<1>5. ASSUME NEW c \in Clients, InsertFails(c) \/ Refuse(c) PROVE TypeOK'
  BY <1>2, <1>5 DEF InsertFails, Refuse, history
<1>6. ASSUME NEW c \in Readers, NEW u, NEW p, NEW cursor, NEW n \in Limits,
             u \in Users \cup {None}, p \in Users \cup {None},
             SelectPage(c, u, p, cursor, n), walk' \in [Readers -> Walk]
      PROVE  TypeOK'
  <2>1. PICK page \in Pages(u, p, cursor, n) :
            IF Readable(page)
            THEN /\ call' = [call EXCEPT ![c] =
                                [Idle EXCEPT !.pc = "mark", !.user = u, !.peer = p,
                                             !.rows = page]]
                 /\ selected' = selected \cup {m \in Range(page) : messages[m].to = u}
            ELSE Answer(c) /\ UNCHANGED selected
    BY <1>6 DEF SelectPage
  <2>2. n \in Int
    BY StoreNumbersAssumption
  <2>3. page \in Seq(Messages) /\ Range(page) \subseteq Visible
    BY <1>0, <2>2, PageProperties, SeqMonotonic DEF Conversation
  <2>4. CASE Readable(page)
    <3> DEFINE r == [Idle EXCEPT !.pc = "mark", !.user = u, !.peer = p, !.rows = page]
    <3>1. r \in Call /\ r.pc = "mark" /\ r.msg = None
      BY <1>0, <1>6, <2>3 DEF Idle, Call
    <3>2. call' = [call EXCEPT ![c] = r]
      BY <2>1, <2>4
    <3> HIDE DEF r
    <3>3. CallBecomes(c, r)
      BY <1>0, <3>1, <3>2, CallUpdate
    <3>4. selected' \subseteq Visible
      BY <2>1, <2>3, <2>4 DEF TypeOK
    <3>5. UNCHANGED <<messages, key, now, before>>
      BY <1>6 DEF SelectPage
    <3>6. Inserting'
      BY <1>0, <1>1, <3>1, <3>3, <3>5
    <3> QED
      BY <1>6, <3>3, <3>4, <3>5, <3>6 DEF TypeOK, CallBecomes
  <2>5. CASE ~Readable(page)
    <3>1. PICK r \in Call : CallBecomes(c, r) /\ r.pc = "reply" /\ r.msg = None
      BY <1>0, <2>1, <2>5, AnswerStep
    <3>2. UNCHANGED <<messages, key, now, before, selected>>
      BY <1>6, <2>1, <2>5 DEF SelectPage
    <3>3. Inserting'
      BY <1>0, <1>1, <3>1, <3>2
    <3> QED
      BY <1>6, <3>1, <3>2, <3>3 DEF TypeOK, CallBecomes
  <2> QED
    BY <2>4, <2>5
<1>7. ASSUME NEW c \in Readers, NEW u \in Users, NEW p \in Users, NEW n \in Limits,
             FirstPage(c, u, p, n)
      PROVE  TypeOK'
  <2>1. [NoWalk EXCEPT !.user = u, !.peer = p, !.start = Visible] \in Walk
    BY <1>0, EmptySeq DEF NoWalk, Walk
  <2>2. walk' \in [Readers -> Walk]
    BY <1>0, <1>7, <2>1 DEF FirstPage
  <2> QED
    BY <1>6, <1>7, <2>2 DEF FirstPage
<1>8. ASSUME NEW c \in Readers, NEW n \in Limits, NextPage(c, n) PROVE TypeOK'
  <2>1. walk[c].user \in Users \cup {None} /\ walk[c].peer \in Users \cup {None}
    BY <1>0 DEF Walk
  <2>2. walk' \in [Readers -> Walk] /\ SelectPage(c, walk[c].user, walk[c].peer, walk[c].cursor, n)
    BY <1>0, <1>8 DEF NextPage
  <2> QED
    BY <1>6, <2>1, <2>2
<1>9. ASSUME NEW c \in Readers, MarkDelivered(c) PROVE TypeOK'
  <2> DEFINE r == [call[c] EXCEPT !.pc = "reply", !.page = TRUE]
  <2>1. r \in Call /\ r.pc = "reply" /\ r.msg = call[c].msg
    BY <1>0 DEF Call
  <2>2. call' = [call EXCEPT ![c] = r]
    BY <1>9 DEF MarkDelivered
  <2> HIDE DEF r
  <2>3. CallBecomes(c, r)
    BY <1>0, <2>1, <2>2, CallUpdate
  <2>4. /\ DOMAIN messages' = Visible /\ messages' \in [Visible -> Row]
        /\ \A m \in Visible : messages'[m].created = messages[m].created
    <3>1. \A m \in Visible : [messages[m] EXCEPT !.delivered = TRUE] \in Row
                             /\ [messages[m] EXCEPT !.delivered = TRUE].created
                                    = messages[m].created
      BY DEF TypeOK, Row
    <3> QED
      BY <1>9, <3>1 DEF MarkDelivered, TypeOK
  <2>5. UNCHANGED <<key, now, walk, before, selected>>
    BY <1>9 DEF MarkDelivered, history
  <2>6. Inserting'
    BY <1>0, <1>1, <2>1, <2>3, <2>4, <2>5
  <2> QED
    BY <2>3, <2>4, <2>5, <2>6 DEF TypeOK, CallBecomes
<1>10. ASSUME NEW c \in Clients, Respond(c) PROVE TypeOK'
  <2>1. CallBecomes(c, Idle) /\ Idle.pc = "idle" /\ Idle.msg = None
    BY <1>0, <1>10, CallUpdate DEF Respond, Idle
  <2>2. walk' \in [Readers -> Walk]
    <3>1. ASSUME NEW w \in Walk, NEW rows \in Seq(Messages) PROVE WithPage(w, rows) \in Walk
      <4>1. CASE rows = <<>>
        BY <4>1 DEF WithPage, Walk
      <4>2. CASE rows # <<>>
        <5>1. rows[Len(rows)] \in Messages
          BY <4>2, EmptySeq, ElementOfSeq
        <5>2. w.seen \o rows \in Seq(Messages)
          BY ConcatProperties DEF Walk
        <5> QED
          BY <4>2, <5>1, <5>2 DEF WithPage, Walk
      <4> QED
        BY <4>1, <4>2
    <3>2. call[c].rows \in Seq(Messages)
      BY <1>0 DEF Call
    <3>3. CASE walk' = [walk EXCEPT ![c] = WithPage(@, call[c].rows)]
      BY <1>0, <3>1, <3>2, <3>3
    <3> QED
      BY <1>0, <1>10, <3>3 DEF Respond
  <2>3. UNCHANGED <<messages, key, now, before, selected>>
    BY <1>10 DEF Respond, history
  <2>4. Inserting'
    BY <1>0, <1>1, <2>1, <2>3
  <2> QED
    BY <2>1, <2>2, <2>3, <2>4 DEF TypeOK, CallBecomes
<1>11. CASE Tick
  <2>1. now' \in 0 .. MaxTime /\ now' = now + 1 /\ now \in Nat
    BY <1>11, StoreNumbersAssumption DEF Tick, TypeOK
  <2>2. \A m \in Visible : messages[m].created <= now + 1
    BY <2>1 DEF TypeOK, Row
  <2>3. \A c \in Clients : call[c].pc = "insert" => call[c].at <= now + 1
    BY <1>0, <2>1 DEF TypeOK, Call
  <2> QED
    BY <1>11, <2>1, <2>2, <2>3 DEF Tick, TypeOK, history
<1>12. CASE Restart
  <2>1. PICK S \in SUBSET {c \in Clients : call[c].pc = "insert"} : messages' = Inserted(S)
    BY <1>12 DEF Restart
  <2>2. /\ DOMAIN messages' \subseteq Messages
        /\ messages' \in [DOMAIN messages' -> Row]
        /\ \A m \in DOMAIN messages' : messages'[m].created <= now
        /\ Visible \subseteq DOMAIN messages'
    BY <2>1, InsertedTyped
  <2>3. call' \in [Clients -> Call] /\ \A c \in Clients : call'[c].pc = "idle"
    BY <1>0, <1>12 DEF Restart, Idle
  <2> QED
    BY <1>12, <2>2, <2>3 DEF Restart, TypeOK, history
<1>13. CASE UNCHANGED vars
  BY <1>13 DEF vars, history, TypeOK
<1> QED
  BY <1>0, <1>3, <1>4, <1>5, <1>7, <1>8, <1>9, <1>10, <1>11, <1>12, <1>13, StoreCases

\* What a statement of another call may do to a row: nothing that a walk
\* looks at.  Rows are never deleted.
RowsStay ==
    \A m \in Visible :
        /\ m \in DOMAIN messages'
        /\ messages'[m].from = messages[m].from
        /\ messages'[m].to = messages[m].to
        /\ messages'[m].created = messages[m].created

LEMMA RowsStep ==
  ASSUME StoreInv, [Next]_vars
  PROVE  RowsStay /\ FiniteInv'
<1> USE DEF StoreInv, FiniteInv, Visible
<1>1. ASSUME NEW S \in SUBSET {c \in Clients : call[c].pc = "insert"}, messages' = Inserted(S)
      PROVE  RowsStay /\ FiniteInv'
  BY <1>1, InsertedRows, InsertedTyped DEF RowsStay
<1>2. ASSUME NEW c \in Senders, InsertCommits(c) PROVE RowsStay /\ FiniteInv'
  BY <1>1, <1>2 DEF InsertCommits, Clients
<1>3. CASE Restart
  BY <1>1, <1>3 DEF Restart
<1>4. ASSUME NEW c \in Readers, MarkDelivered(c) PROVE RowsStay /\ FiniteInv'
  <2>1. \A m \in Visible : messages[m] \in Row
    BY DEF TypeOK
  <2>2. CASE messages' = [m \in Visible |->
                             IF Addressed(c, m) THEN [messages[m] EXCEPT !.delivered = TRUE]
                                                ELSE messages[m]]
    BY <2>1, <2>2 DEF RowsStay, Row
  <2>3. CASE UNCHANGED messages
    BY <2>3 DEF RowsStay
  <2> QED
    BY <1>4, <2>2, <2>3 DEF MarkDelivered
<1>5. ASSUME UNCHANGED messages PROVE RowsStay /\ FiniteInv'
  BY <1>5 DEF RowsStay
<1>6. ASSUME NEW c \in Senders, NEW u \in Users, NEW v \in Users, SendMessage(c, u, v)
      PROVE  UNCHANGED messages
  BY <1>6 DEF SendMessage
<1>7. ASSUME NEW c \in Readers, NEW u \in Users, NEW p \in Users, NEW n \in Limits,
             FirstPage(c, u, p, n)
      PROVE  UNCHANGED messages
  BY <1>7 DEF FirstPage, SelectPage
<1>8. ASSUME NEW c \in Readers, NEW n \in Limits, NextPage(c, n) PROVE UNCHANGED messages
  BY <1>8 DEF NextPage, SelectPage
<1>9. ASSUME NEW c \in Clients, Refuse(c) \/ Respond(c) \/ InsertFails(c) PROVE UNCHANGED messages
  BY <1>9 DEF Refuse, Respond, InsertFails
<1>10. ASSUME Tick \/ UNCHANGED vars PROVE UNCHANGED messages
  BY <1>10 DEF Tick, vars
<1> QED
  BY <1>2, <1>3, <1>4, <1>5, <1>6, <1>7, <1>8, <1>9, <1>10, StoreCases DEF Clients

\* Only SendMessage begins an INSERT, and a call in progress is not changed
\* into another.
LEMMA InsertStep ==
  ASSUME StoreInv, [Next]_vars, NEW c \in Clients, call'[c].pc = "insert"
  PROVE  \/ \E u, v \in Users : SendMessage(c, u, v)
         \/ call[c].pc = "insert" /\ call'[c] = call[c]
<1>0. call \in [Clients -> Call] /\ Senders \subseteq Clients /\ Readers \subseteq Clients
  BY DEF StoreInv, TypeOK, Clients
<1>1. ASSUME NEW d \in Clients, Answer(d) PROVE call[c].pc = "insert" /\ call'[c] = call[c]
  BY <1>0, <1>1, AnswerStep DEF CallBecomes
<1>2. ASSUME NEW d \in Senders, NEW u \in Users, NEW v \in Users, SendMessage(d, u, v), d # c
      PROVE  call[c].pc = "insert" /\ call'[c] = call[c]
  BY <1>0, <1>2 DEF SendMessage
<1>3. ASSUME NEW d \in Clients, InsertCommits(d) \/ InsertFails(d) \/ Refuse(d)
      PROVE  call[c].pc = "insert" /\ call'[c] = call[c]
  BY <1>1, <1>3 DEF InsertCommits, InsertFails, Refuse
<1>4. ASSUME NEW d \in Readers, NEW u, NEW p, NEW cursor, NEW n, SelectPage(d, u, p, cursor, n)
      PROVE  call[c].pc = "insert" /\ call'[c] = call[c]
  <2>1. ASSUME NEW page, call' = [call EXCEPT ![d] =
                   [Idle EXCEPT !.pc = "mark", !.user = u, !.peer = p, !.rows = page]]
        PROVE  call[c].pc = "insert" /\ call'[c] = call[c]
    BY <1>0, <2>1 DEF Idle
  <2> QED
    BY <1>0, <1>1, <1>4, <2>1 DEF SelectPage
<1>5. ASSUME NEW d \in Readers, MarkDelivered(d)
      PROVE  call[c].pc = "insert" /\ call'[c] = call[c]
  BY <1>0, <1>5 DEF MarkDelivered, Call
<1>6. ASSUME NEW d \in Clients, Respond(d)
      PROVE  call[c].pc = "insert" /\ call'[c] = call[c]
  BY <1>0, <1>6 DEF Respond, Idle
<1>7. CASE Restart
  BY <1>7 DEF Restart, Idle
<1>8. CASE Tick \/ UNCHANGED vars
  BY <1>8 DEF Tick, vars
<1> QED
  BY <1>0, <1>2, <1>3, <1>4, <1>5, <1>6, <1>7, <1>8, StoreCases DEF FirstPage, NextPage

LEMMA InsertInvStep ==
  ASSUME StoreInv, [Next]_vars
  PROVE  InsertInv'
<1> SUFFICES ASSUME NEW c \in Clients, call'[c].pc = "insert"
             PROVE  call'[c].user \in Users /\ call'[c].peer \in Users
  BY DEF InsertInv
<1>1. ASSUME NEW u \in Users, NEW v \in Users, SendMessage(c, u, v)
      PROVE  call'[c].user \in Users /\ call'[c].peer \in Users
  BY <1>1 DEF SendMessage, StoreInv, TypeOK, Idle
<1>2. CASE call[c].pc = "insert" /\ call'[c] = call[c]
  BY <1>2 DEF StoreInv, InsertInv
<1> QED
  BY <1>1, <1>2, InsertStep

\* Types, with what they rest on: the table is finite at any time.
THEOREM StoreInvariant == Spec => []StoreInv
<1>1. Init => StoreInv
  <2>1. Init => TypeOK
    <3>1. Init => walk \in [Readers -> Walk]
      BY EmptySeq DEF Init, NoWalk, Walk
    <3>2. Init => call \in [Clients -> Call] /\ \A c \in Clients : call[c].pc = "idle"
      BY IdleCall DEF Init, Idle
    <3> QED
      BY <3>1, <3>2, StoreNumbersAssumption DEF Init, TypeOK, Visible
  <2>2. Init => InsertInv /\ FiniteInv
    BY FS_EmptySet DEF Init, InsertInv, FiniteInv, Visible, Idle
  <2> QED
    BY <2>1, <2>2 DEF StoreInv
<1>2. StoreInv /\ [Next]_vars => StoreInv'
  BY TypeStep, InsertInvStep, RowsStep DEF StoreInv
<1> QED
  BY <1>1, <1>2, PTL DEF Spec

\* Tables, calls and walks hold values of their types; stamps are not in the
\* future, and a message being inserted is in one call and not in the table.
THEOREM StoreTypeCorrect == Spec => []TypeOK
BY StoreInvariant, PTL DEF StoreInv

-----------------------------------------------------------------------------
(***************************************************************************)
(* The order in which messages are sent.                                   *)
(***************************************************************************)
\* A row that appears is that of an INSERT in progress.
LEMMA NewRows ==
  ASSUME StoreInv, [Next]_vars, NEW m \in DOMAIN messages' \ Visible
  PROVE  /\ UNCHANGED before
         /\ \E c \in Clients : /\ call[c].pc = "insert" /\ call[c].msg = m
                               /\ messages'[m].created = call[c].at
<1> USE DEF Visible, Clients
<1>1. ASSUME NEW S \in SUBSET {c \in Clients : call[c].pc = "insert"}, messages' = Inserted(S)
      PROVE  \E c \in Clients : /\ call[c].pc = "insert" /\ call[c].msg = m
                                /\ messages'[m].created = call[c].at
  <2>0. DOMAIN messages' = Visible \cup {call[c].msg : c \in S}
    BY <1>1, InsertedRows
  <2>1. PICK c \in S : call[c].msg = m
    BY <2>0
  <2>2. messages'[m] = [from |-> call[c].user, to |-> call[c].peer, created |-> call[c].at,
                        key |-> key, delivered |-> FALSE]
    BY <1>1, <2>1, InsertedRows
  <2> QED
    BY <2>1, <2>2
<1>2. ASSUME NEW c \in Senders, InsertCommits(c)
      PROVE  /\ UNCHANGED before
             /\ \E d \in Clients : /\ call[d].pc = "insert" /\ call[d].msg = m
                                   /\ messages'[m].created = call[d].at
  <2>1. {c} \in SUBSET {d \in Clients : call[d].pc = "insert"} /\ messages' = Inserted({c})
    BY <1>2 DEF InsertCommits
  <2> QED
    BY <1>1, <1>2, <2>1 DEF InsertCommits, history
<1>3. ASSUME Restart
      PROVE  /\ UNCHANGED before
             /\ \E c \in Clients : /\ call[c].pc = "insert" /\ call[c].msg = m
                                   /\ messages'[m].created = call[c].at
  BY <1>1, <1>3 DEF Restart, history
<1>4. DOMAIN messages' # Visible
  OBVIOUS
<1>5. ASSUME NEW c \in Readers, MarkDelivered(c) PROVE FALSE
  BY <1>4, <1>5 DEF MarkDelivered
<1>6. ASSUME NEW c \in Senders, NEW u \in Users, NEW v \in Users, SendMessage(c, u, v)
      PROVE  FALSE
  BY <1>4, <1>6 DEF SendMessage
<1>7. ASSUME NEW c \in Readers, NEW u \in Users, NEW p \in Users, NEW n \in Limits,
             FirstPage(c, u, p, n)
      PROVE  FALSE
  BY <1>4, <1>7 DEF FirstPage, SelectPage
<1>8. ASSUME NEW c \in Readers, NEW n \in Limits, NextPage(c, n) PROVE FALSE
  BY <1>4, <1>8 DEF NextPage, SelectPage
<1>9. ASSUME NEW c \in Clients, Refuse(c) \/ Respond(c) \/ InsertFails(c) PROVE FALSE
  BY <1>4, <1>9 DEF Refuse, Respond, InsertFails
<1>10. ASSUME Tick \/ UNCHANGED vars PROVE FALSE
  BY <1>4, <1>10 DEF Tick, vars
<1> QED
  BY <1>2, <1>3, <1>5, <1>6, <1>7, <1>8, <1>9, <1>10, StoreCases

\* What was visible when an INSERT began is noted once, when it begins.
LEMMA BeforeStays ==
  ASSUME StoreInv, [Next]_vars, NEW m \in Messages,
         m \in Visible \/ \E c \in Clients : call[c].msg = m
  PROVE  before'[m] = before[m]
<1> USE DEF history
<1>1. ASSUME NEW c \in Senders, NEW u \in Users, NEW v \in Users, SendMessage(c, u, v)
      PROVE  before'[m] = before[m]
  BY <1>1 DEF SendMessage, StoreInv, TypeOK
<1>2. ASSUME NEW c \in Clients,
             InsertCommits(c) \/ InsertFails(c) \/ Refuse(c) \/ Respond(c) \/ MarkDelivered(c)
      PROVE  UNCHANGED before
  BY <1>2 DEF InsertCommits, InsertFails, Refuse, Respond, MarkDelivered
<1>3. ASSUME NEW c \in Readers, NEW u \in Users, NEW p \in Users, NEW n \in Limits,
             FirstPage(c, u, p, n)
      PROVE  UNCHANGED before
  BY <1>3 DEF FirstPage, SelectPage
<1>4. ASSUME NEW c \in Readers, NEW n \in Limits, NextPage(c, n) PROVE UNCHANGED before
  BY <1>4 DEF NextPage, SelectPage
<1>5. ASSUME Tick \/ Restart \/ UNCHANGED vars PROVE UNCHANGED before
  BY <1>5 DEF Tick, Restart, vars
<1> QED
  BY <1>1, <1>2, <1>3, <1>4, <1>5, StoreCases DEF Clients

LEMMA BeforeStep ==
  ASSUME StoreInv, BeforeInv, [Next]_vars
  PROVE  BeforeInv'
<1>0. /\ Visible \subseteq Messages /\ RowsStay
      /\ \A m \in Visible : Stamp(m) <= now
      /\ \A c \in Clients : call[c].pc = "insert" => call[c].msg \in Messages \ Visible
  BY RowsStep DEF StoreInv, TypeOK, Stamp
<1>1. ASSUME NEW m \in DOMAIN messages', NEW x \in before'[m]
      PROVE  x \in DOMAIN messages' /\ messages'[x].created <= messages'[m].created
  <2>1. CASE m \in Visible
    <3>1. x \in before[m]
      BY <1>0, <1>1, <2>1, BeforeStays
    <3> QED
      BY <1>0, <2>1, <3>1 DEF BeforeInv, RowsStay, Stamp
  <2>2. CASE m \notin Visible
    <3>1. x \in before[m]
      BY <1>1, <2>2, NewRows
    <3>2. PICK c \in Clients : /\ call[c].pc = "insert" /\ call[c].msg = m
                               /\ messages'[m].created = call[c].at
      BY <1>1, <2>2, NewRows
    <3> QED
      BY <1>0, <3>1, <3>2 DEF BeforeInv, RowsStay, Stamp
  <2> QED
    BY <2>1, <2>2
<1>2. ASSUME NEW c \in Clients, call'[c].pc = "insert", NEW x \in before'[call'[c].msg]
      PROVE  x \in DOMAIN messages' /\ messages'[x].created <= call'[c].at
  <2>1. CASE call[c].pc = "insert" /\ call'[c] = call[c]
    <3>1. x \in before[call[c].msg]
      BY <1>0, <1>2, <2>1, BeforeStays
    <3> QED
      BY <1>0, <2>1, <3>1 DEF BeforeInv, RowsStay, Stamp
  <2>2. ASSUME NEW u \in Users, NEW v \in Users, SendMessage(c, u, v)
        PROVE  x \in DOMAIN messages' /\ messages'[x].created <= call'[c].at
    <3>1. PICK m \in Messages \ Visible :
              /\ call' = [call EXCEPT ![c] =
                             [Idle EXCEPT !.pc = "insert", !.user = u, !.peer = v,
                                          !.msg = m, !.at = now]]
              /\ before' = [before EXCEPT ![m] = Visible]
      BY <2>2 DEF SendMessage
    <3>2. call'[c].msg = m /\ call'[c].at = now
      BY <3>1 DEF StoreInv, TypeOK, Idle
    <3>3. before'[m] = Visible
      BY <3>1 DEF StoreInv, TypeOK
    <3> QED
      BY <1>0, <1>2, <3>2, <3>3 DEF RowsStay, Stamp
  <2> QED
    BY <1>2, <2>1, <2>2, InsertStep
<1> QED
  BY <1>1, <1>2 DEF BeforeInv, Visible, Stamp

-----------------------------------------------------------------------------
(***************************************************************************)
(* What the pages of a walk show.                                          *)
(***************************************************************************)
\* The positions of two sequences, one after the other.
LEMMA Positions ==
  ASSUME NEW S, NEW s \in Seq(S), NEW t \in Seq(S)
  PROVE  /\ Range(s \o t) = Range(s) \cup Range(t)
         /\ DOMAIN s = 1 .. Len(s) /\ Len(s) \in Nat
         /\ DOMAIN t = 1 .. Len(t) /\ Len(t) \in Nat
         /\ DOMAIN (s \o t) = 1 .. Len(s) + Len(t)
         /\ \A i \in DOMAIN (s \o t) :
                \/ i \in DOMAIN s /\ (s \o t)[i] = s[i]
                \/ i > Len(s) /\ i - Len(s) \in DOMAIN t /\ (s \o t)[i] = t[i - Len(s)]
<1>1. /\ Len(s) \in Nat /\ Len(t) \in Nat
      /\ DOMAIN s = 1 .. Len(s) /\ DOMAIN t = 1 .. Len(t)
  BY LenProperties
<1>2. /\ s \o t \in Seq(S) /\ Len(s \o t) = Len(s) + Len(t)
      /\ \A i \in 1 .. Len(s) + Len(t) :
             (s \o t)[i] = IF i <= Len(s) THEN s[i] ELSE t[i - Len(s)]
  BY ConcatProperties
<1>3. DOMAIN (s \o t) = 1 .. Len(s) + Len(t)
  BY <1>2, LenProperties
<1>4. \A i \in DOMAIN (s \o t) :
          \/ i \in DOMAIN s /\ (s \o t)[i] = s[i]
          \/ i > Len(s) /\ i - Len(s) \in DOMAIN t /\ (s \o t)[i] = t[i - Len(s)]
  BY <1>1, <1>2, <1>3
<1>5. ASSUME NEW i \in DOMAIN s PROVE i \in DOMAIN (s \o t) /\ (s \o t)[i] = s[i]
  BY <1>1, <1>2, <1>3
<1>6. ASSUME NEW i \in DOMAIN t
      PROVE  i + Len(s) \in DOMAIN (s \o t) /\ (s \o t)[i + Len(s)] = t[i]
  BY <1>1, <1>2, <1>3
<1>7. Range(s \o t) = Range(s) \cup Range(t)
  <2>1. ASSUME NEW x \in Range(s \o t) PROVE x \in Range(s) \cup Range(t)
    BY <1>4 DEF Range
  <2>2. ASSUME NEW x \in Range(s) PROVE x \in Range(s \o t)
    <3>1. PICK i \in DOMAIN s : x = s[i]
      BY DEF Range
    <3> QED
      BY <1>5, <3>1 DEF Range
  <2>3. ASSUME NEW x \in Range(t) PROVE x \in Range(s \o t)
    <3>1. PICK i \in DOMAIN t : x = t[i]
      BY DEF Range
    <3> QED
      BY <1>6, <3>1 DEF Range
  <2> QED
    BY <2>1, <2>2, <2>3
<1> QED
  BY <1>1, <1>3, <1>4, <1>7

\* Rows older than all of a sorted sequence extend it to a sorted sequence
\* that names no message twice.
LEMMA SortedConcat ==
  ASSUME \A m \in Visible : Stamp(m) \in Int,
         NEW s \in Seq(Visible), NEW t \in Seq(Visible),
         Sorted(s), Sorted(t), IsInjective(s), IsInjective(t),
         \A m \in Range(s), x \in Range(t) : Stamp(x) < Stamp(m)
  PROVE  Sorted(s \o t) /\ IsInjective(s \o t)
<1>1. \A i \in DOMAIN s : s[i] \in Range(s) /\ s[i] \in Visible
  BY ElementOfSeq, LenProperties DEF Range
<1>2. \A i \in DOMAIN t : t[i] \in Range(t) /\ t[i] \in Visible
  BY ElementOfSeq, LenProperties DEF Range
<1>3. /\ DOMAIN s = 1 .. Len(s) /\ Len(s) \in Nat
      /\ DOMAIN t = 1 .. Len(t) /\ Len(t) \in Nat
      /\ DOMAIN (s \o t) = 1 .. Len(s) + Len(t)
      /\ \A i \in DOMAIN (s \o t) :
             \/ i \in DOMAIN s /\ (s \o t)[i] = s[i]
             \/ i > Len(s) /\ i - Len(s) \in DOMAIN t /\ (s \o t)[i] = t[i - Len(s)]
  BY Positions
<1>4. \A i \in DOMAIN s, j \in DOMAIN t : Stamp(t[j]) < Stamp(s[i])
  BY <1>1, <1>2
<1>5. ASSUME NEW i \in DOMAIN (s \o t), NEW j \in DOMAIN (s \o t), i < j
      PROVE  InOrder((s \o t)[i], (s \o t)[j])
  <2>1. CASE i \in DOMAIN s /\ j \in DOMAIN s
    <3>1. (s \o t)[i] = s[i] /\ (s \o t)[j] = s[j]
      BY <1>3, <2>1
    <3> QED
      BY <1>5, <2>1, <3>1 DEF Sorted
  <2>2. CASE i \in DOMAIN s /\ j \notin DOMAIN s
    <3>1. (s \o t)[i] = s[i] /\ (s \o t)[j] = t[j - Len(s)] /\ j - Len(s) \in DOMAIN t
      BY <1>3, <2>2
    <3> QED
      BY <1>1, <1>2, <1>4, <2>2, <3>1 DEF InOrder, Stamp
  <2>3. CASE i \notin DOMAIN s
    <3>1. /\ (s \o t)[i] = t[i - Len(s)] /\ (s \o t)[j] = t[j - Len(s)]
          /\ i - Len(s) \in DOMAIN t /\ j - Len(s) \in DOMAIN t /\ i - Len(s) < j - Len(s)
      BY <1>3, <1>5, <2>3
    <3> QED
      BY <3>1 DEF Sorted
  <2> QED
    BY <2>1, <2>2, <2>3
<1>6. ASSUME NEW i \in DOMAIN (s \o t), NEW j \in DOMAIN (s \o t), i < j,
             (s \o t)[i] = (s \o t)[j]
      PROVE  FALSE
  <2>1. CASE i \in DOMAIN s /\ j \in DOMAIN s
    <3>1. s[i] = s[j]
      BY <1>3, <1>6, <2>1
    <3> QED
      BY <1>3, <1>6, <2>1, <3>1 DEF IsInjective
  <2>2. CASE i \in DOMAIN s /\ j \notin DOMAIN s
    <3>1. s[i] = t[j - Len(s)] /\ j - Len(s) \in DOMAIN t
      BY <1>3, <1>6, <2>2
    <3> QED
      BY <1>1, <1>4, <2>2, <3>1
  <2>3. CASE i \notin DOMAIN s
    <3>1. t[i - Len(s)] = t[j - Len(s)] /\ i - Len(s) \in DOMAIN t /\ j - Len(s) \in DOMAIN t
          /\ i - Len(s) # j - Len(s)
      BY <1>3, <1>6, <2>3
    <3> QED
      BY <3>1 DEF IsInjective
  <2> QED
    BY <2>1, <2>2, <2>3
<1>7. \A i, j \in DOMAIN (s \o t) : (s \o t)[i] = (s \o t)[j] => i = j
  BY <1>3, <1>6
<1> QED
  BY <1>5, <1>7 DEF Sorted, IsInjective

\* A cursor lets the same rows through after any step.
LEMMA PrecedesStays ==
  ASSUME StoreInv, RowsStay, DOMAIN messages' \subseteq Messages,
         NEW m \in Visible, NEW cursor \in Visible \cup {None}
  PROVE  Precedes(m, cursor)' <=> Precedes(m, cursor)
<1>1. None \notin DOMAIN messages' /\ None \notin Visible
  BY StoreNoneAssumption DEF StoreInv, TypeOK
<1> QED
  BY <1>1 DEF Precedes, RowsStay, Visible

\* A walk that takes no response, and a call that reads no page, keep what
\* is known of them.
LEMMA WalkStays ==
  ASSUME StoreInv, RowsStay, DOMAIN messages' \subseteq Messages,
         NEW c \in Readers, WalkOK(c), walk'[c] = walk[c]
  PROVE  WalkOK(c)'
<1> DEFINE w == walk[c]
<1>1. /\ Range(w.seen) \cup w.cuts \cup w.start \subseteq Visible
      /\ IsInjective(w.seen)
      /\ Sorted(w.seen)
      /\ w.cursor = None => w.done \/ w.seen = <<>>
      /\ w.cursor # None =>
             w.cursor \in Visible /\ \A m \in Range(w.seen) : InOrder(m, w.cursor)
      /\ \A m \in w.start : OfWalk(c, m) => Covered(c, m)
  BY DEF WalkOK
<1>2. \A m \in Visible : m \in DOMAIN messages' /\ Stamp(m)' = Stamp(m)
                         /\ messages'[m].from = messages[m].from
                         /\ messages'[m].to = messages[m].to
  BY DEF RowsStay, Stamp
<1>3. \A i \in DOMAIN w.seen : w.seen[i] \in Visible
  BY <1>1 DEF Range
<1>4. Sorted(w.seen)'
  <2>1. SUFFICES ASSUME NEW s, s = w.seen PROVE Sorted(s)'
    BY DEF Sorted, InOrder
  <2> QED
    BY <1>1, <1>2, <1>3, <2>1 DEF Sorted, InOrder, Stamp
<1>5. ASSUME NEW m \in w.start, OfWalk(c, m)' PROVE Covered(c, m)'
  <2>1. m \in Visible /\ OfWalk(c, m)
    BY <1>1, <1>2, <1>5 DEF OfWalk
  <2>2. PICK cursor : cursor = w.cursor
    OBVIOUS
  <2>3. Precedes(m, cursor)' <=> Precedes(m, cursor)
    BY <1>1, <2>1, <2>2, PrecedesStays
  <2>4. Covered(c, m)
    BY <1>1, <2>1
  <2>5. \A cut \in w.cuts : Stamp(cut)' = Stamp(cut)
    BY <1>1, <1>2
  <2> HIDE DEF w
  <2> QED
    BY <1>2, <2>1, <2>2, <2>3, <2>4, <2>5 DEF Covered, w, Precedes, Visible, Stamp
<1> QED
  BY <1>1, <1>2, <1>4, <1>5 DEF WalkOK, Visible, Sorted, InOrder, RowsStay

LEMMA PageStays ==
  ASSUME StoreInv, RowsStay, DOMAIN messages' \subseteq Messages,
         NEW c \in Readers, WalkOK(c), PageOK(c), walk'[c] = walk[c],
         HasPage(c)' => HasPage(c) /\ call'[c].rows = call[c].rows
  PROVE  PageOK(c)'
<1> SUFFICES ASSUME HasPage(c)' PROVE PageOK(c)'
  BY DEF PageOK
<1> DEFINE w == walk[c]
           rows == call[c].rows
<1>1. HasPage(c) /\ call'[c].rows = rows
  OBVIOUS
<1>2. /\ ~w.done
      /\ Range(rows) \subseteq Visible
      /\ IsInjective(rows)
      /\ Sorted(rows)
      /\ \A m \in Range(rows) : Precedes(m, w.cursor)
      /\ \A m \in w.start :
             (OfWalk(c, m) /\ Precedes(m, w.cursor)) =>
                 m \in Range(rows) \/ (rows # <<>> /\ InOrder(rows[Len(rows)], m))
  BY <1>1 DEF PageOK
<1>3. \A m \in Visible : m \in DOMAIN messages' /\ messages'[m].created = messages[m].created
                         /\ messages'[m].from = messages[m].from
                         /\ messages'[m].to = messages[m].to
  BY DEF RowsStay
<1>4. w.cursor \in Visible \cup {None} /\ w.start \subseteq Visible
  BY DEF WalkOK
<1>5. rows \in Seq(Messages)
  BY DEF StoreInv, TypeOK, Call, Clients
<1>6. \A i \in DOMAIN rows : rows[i] \in Visible
  BY <1>2 DEF Range
<1>7. rows # <<>> => rows[Len(rows)] \in Visible
  BY <1>5, <1>6, EmptySeq, LenProperties
<1>8. PICK cursor, s : cursor = w.cursor /\ s = rows
  OBVIOUS
<1>9. \A m \in Visible : Precedes(m, cursor)' <=> Precedes(m, cursor)
  BY <1>4, <1>8, PrecedesStays
<1>10. Sorted(s)'
  BY <1>2, <1>3, <1>6, <1>8 DEF Sorted, InOrder
<1>11. \A m \in Range(s) : Precedes(m, cursor)'
  BY <1>2, <1>8, <1>9
<1>12. ASSUME NEW m \in w.start, OfWalk(c, m)', Precedes(m, cursor)'
       PROVE  m \in Range(s) \/ (s # <<>> /\ InOrder(s[Len(s)], m)')
  <2>1. m \in Visible /\ OfWalk(c, m) /\ Precedes(m, w.cursor)
    BY <1>3, <1>4, <1>8, <1>9, <1>12 DEF OfWalk
  <2>2. m \in Range(s) \/ (s # <<>> /\ InOrder(s[Len(s)], m))
    BY <1>2, <1>8, <2>1
  <2> QED
    BY <1>3, <1>7, <1>8, <2>1, <2>2 DEF InOrder
<1>13. /\ ~walk'[c].done /\ walk'[c].cursor = cursor /\ walk'[c].start = w.start
       /\ call'[c].rows = s
  BY <1>1, <1>2, <1>8
<1>14. Range(s) \subseteq Visible /\ IsInjective(s)
  BY <1>2, <1>8
<1> HIDE DEF w, rows
<1> QED
  BY <1>3, <1>10, <1>11, <1>12, <1>13, <1>14
     DEF PageOK, Sorted, InOrder, Precedes, Visible

\* A SELECT reads a page that continues the walk.
LEMMA PageReads ==
  ASSUME StoreInv, NEW c \in Readers, NEW u, NEW p, NEW cursor, NEW n \in Limits,
         SelectPage(c, u, p, cursor, n),
         walk'[c].user = u, walk'[c].peer = p, walk'[c].cursor = cursor,
         ~walk'[c].done, walk'[c].start \subseteq Visible
  PROVE  PageOK(c)'
<1>0. call \in [Clients -> Call] /\ c \in Clients /\ n \in Int /\ UNCHANGED messages
  BY StoreNumbersAssumption DEF StoreInv, TypeOK, Clients, SelectPage
<1>1. PICK page \in Pages(u, p, cursor, n) :
          IF Readable(page)
          THEN call' = [call EXCEPT ![c] = [Idle EXCEPT !.pc = "mark", !.user = u, !.peer = p,
                                                        !.rows = page]]
          ELSE Answer(c)
  BY DEF SelectPage
<1>2. CASE Readable(page)
  <2>1. call'[c].rows = page
    BY <1>0, <1>1, <1>2 DEF Idle
  <2>2. /\ page \in Seq(Visible)
        /\ Range(page) \subseteq Conversation(u, p)
        /\ IsInjective(page)
        /\ Sorted(page)
        /\ \A m \in Range(page) : Precedes(m, cursor)
        /\ \A m \in Conversation(u, p) :
               Precedes(m, cursor) =>
                   \/ m \in Range(page)
                   \/ page # <<>> /\ InOrder(page[Len(page)], m)
    BY <1>0, PageProperties DEF StoreInv
  <2>3. Range(page) \subseteq Visible
    BY <2>2 DEF Conversation
  <2>4. ASSUME NEW m \in walk'[c].start, OfWalk(c, m)' PROVE m \in Conversation(u, p)
    BY <1>0, <2>4 DEF OfWalk, Conversation
  <2> QED
    BY <1>0, <2>1, <2>2, <2>3, <2>4
       DEF PageOK, Sorted, InOrder, Precedes, Visible
<1>3. CASE ~Readable(page)
  <2>1. call'[c].pc = "reply" /\ ~call'[c].page
    BY <1>0, <1>1, <1>3, AnswerStep DEF CallBecomes
  <2> QED
    BY <2>1 DEF PageOK, HasPage
<1> QED
  BY <1>2, <1>3

\* The response carries it to the client.
LEMMA PageArrives ==
  ASSUME StoreInv, NEW c \in Readers, WalkOK(c), PageOK(c), HasPage(c),
         walk'[c] = WithPage(walk[c], call[c].rows), UNCHANGED messages
  PROVE  WalkOK(c)'
<1> DEFINE w == walk[c]
           rows == call[c].rows
<1>1. /\ Range(w.seen) \cup w.cuts \cup w.start \subseteq Visible
      /\ IsInjective(w.seen)
      /\ Sorted(w.seen)
      /\ w.cursor = None => w.done \/ w.seen = <<>>
      /\ w.cursor # None =>
             w.cursor \in Visible /\ \A m \in Range(w.seen) : InOrder(m, w.cursor)
      /\ \A m \in w.start : OfWalk(c, m) => Covered(c, m)
  BY DEF WalkOK
<1>2. /\ ~w.done
      /\ Range(rows) \subseteq Visible
      /\ IsInjective(rows)
      /\ Sorted(rows)
      /\ \A m \in Range(rows) : Precedes(m, w.cursor)
      /\ \A m \in w.start :
             (OfWalk(c, m) /\ Precedes(m, w.cursor)) =>
                 m \in Range(rows) \/ (rows # <<>> /\ InOrder(rows[Len(rows)], m))
  BY DEF PageOK
<1>3. /\ rows \in Seq(Messages) /\ w \in Walk /\ w.seen \in Seq(Messages)
      /\ \A m \in Visible : Stamp(m) \in Int
      /\ None \notin Visible
  BY StoreNoneAssumption, StoreNumbersAssumption DEF StoreInv, TypeOK, Call, Walk, Clients, Row, Stamp
<1>4. CASE rows = <<>>
  <2>1. walk'[c] = [w EXCEPT !.cursor = None, !.done = TRUE]
    BY <1>4 DEF WithPage
  <2>2. /\ walk'[c].user = w.user /\ walk'[c].peer = w.peer /\ walk'[c].seen = w.seen
        /\ walk'[c].cuts = w.cuts /\ walk'[c].start = w.start
        /\ walk'[c].cursor = None /\ walk'[c].done
    BY <1>3, <2>1 DEF Walk
  <2>3. Range(rows) = {}
    BY <1>4 DEF Range
  <2>4. ASSUME NEW m \in w.start, OfWalk(c, m)' PROVE Covered(c, m)'
    <3>1. OfWalk(c, m)
      BY <2>2, <2>4 DEF OfWalk
    <3>2. m \in Range(w.seen) \/ \E cut \in w.cuts : Stamp(cut) = Stamp(m)
      BY <1>1, <1>2, <1>4, <2>3, <3>1 DEF Covered
    <3> QED
      BY <2>2, <3>2 DEF Covered, Stamp
  <2> HIDE DEF w, rows
  <2> QED
    BY <1>1, <2>2, <2>4 DEF WalkOK, Visible, Sorted, InOrder
<1>5. CASE rows # <<>>
  <2> DEFINE last == rows[Len(rows)]
  <2>1. walk'[c] = [w EXCEPT !.cursor = last, !.seen = @ \o rows, !.cuts = @ \cup {last}]
    BY <1>5 DEF WithPage
  <2>2. /\ walk'[c].user = w.user /\ walk'[c].peer = w.peer /\ walk'[c].seen = w.seen \o rows
        /\ walk'[c].cuts = w.cuts \cup {last} /\ walk'[c].start = w.start
        /\ walk'[c].cursor = last /\ walk'[c].done = w.done
    BY <1>3, <2>1 DEF Walk
  <2>3. /\ DOMAIN rows = 1 .. Len(rows) /\ Len(rows) \in DOMAIN rows
        /\ last \in Range(rows) /\ last \in Visible
    <3>1. DOMAIN rows = 1 .. Len(rows) /\ Len(rows) \in Nat \ {0}
      BY <1>3, <1>5, EmptySeq, LenProperties
    <3> QED
      BY <1>2, <3>1 DEF Range
  <2>4. \A i \in DOMAIN rows : rows[i] \in Visible
    BY <1>2 DEF Range
  <2>5. \A m \in Range(rows) : InOrder(m, last)
    <3>1. SUFFICES ASSUME NEW i \in DOMAIN rows PROVE InOrder(rows[i], last)
      BY DEF Range
    <3>2. CASE i = Len(rows)
      BY <1>3, <2>3, <3>2 DEF InOrder, Stamp
    <3>3. CASE i < Len(rows)
      BY <1>2, <2>3, <3>3 DEF Sorted
    <3> QED
      BY <2>3, <3>2, <3>3
  <2>6. \A m \in Range(w.seen), x \in Range(rows) : Stamp(x) < Stamp(m)
    <3>1. CASE w.cursor = None
      BY <1>1, <1>2, <3>1 DEF Range
    <3>2. CASE w.cursor # None
      <4>1. \A x \in Range(rows) : Stamp(x) < Stamp(w.cursor)
        BY <1>1, <1>2, <3>2 DEF Precedes, Stamp
      <4>2. \A m \in Range(w.seen) : Stamp(m) >= Stamp(w.cursor)
        BY <1>1, <3>2 DEF InOrder, Stamp
      <4>3. \A x \in Visible : Stamp(x) \in Int
        BY <1>3
      <4> HIDE DEF w, rows
      <4> QED
        BY <1>1, <1>2, <3>2, <4>1, <4>2, <4>3
    <3> QED
      BY <3>1, <3>2
  <2>7. w.seen \in Seq(Visible) /\ rows \in Seq(Visible)
    <3>1. \A s \in Seq(Messages) : Range(s) \subseteq Visible => s \in Seq(Visible)
      <4>1. SUFFICES ASSUME NEW s \in Seq(Messages), Range(s) \subseteq Visible
                     PROVE  s \in Seq(Visible)
        OBVIOUS
      <4>2. Len(s) \in Nat /\ s \in [1 .. Len(s) -> Visible]
        BY <4>1 DEF Range
      <4> QED
        BY <4>2, Sequence
    <3> QED
      BY <1>1, <1>2, <1>3, <3>1
  <2>8. Sorted(w.seen \o rows) /\ IsInjective(w.seen \o rows)
    BY <1>1, <1>2, <1>3, <2>6, <2>7, SortedConcat
  <2>9. Range(w.seen \o rows) = Range(w.seen) \cup Range(rows)
    BY <2>7, Positions
  <2>10. \A m \in Range(w.seen \o rows) : InOrder(m, last)
    <3>1. \A m \in Range(w.seen) : InOrder(m, last)
      BY <1>1, <1>3, <2>3, <2>6 DEF InOrder, Stamp
    <3> QED
      BY <2>5, <2>9, <3>1
  <2>11. ASSUME NEW m \in w.start, OfWalk(c, m)' PROVE Covered(c, m)'
    <3>1. OfWalk(c, m) /\ m \in Visible
      BY <1>1, <2>2, <2>11 DEF OfWalk
    <3>2. CASE m \in Range(w.seen) \/ \E cut \in w.cuts : Stamp(cut) = Stamp(m)
      BY <2>2, <2>9, <3>2 DEF Covered, Stamp
    <3>3. CASE Precedes(m, w.cursor)
      <4>1. m \in Range(rows) \/ InOrder(last, m)
        BY <1>2, <3>1, <3>3
      <4>2. CASE m \in Range(rows)
        BY <2>2, <2>9, <4>2 DEF Covered
      <4>3. CASE Stamp(last) = Stamp(m)
        BY <2>2, <4>3 DEF Covered, Stamp
      <4>4. CASE Stamp(last) > Stamp(m)
        BY <1>2, <2>2, <4>4 DEF Covered, Precedes, Stamp, Visible
      <4>5. Stamp(last) \in Int /\ Stamp(m) \in Int
        BY <1>3, <2>3, <3>1
      <4>6. m \in Range(rows) \/ Stamp(last) = Stamp(m) \/ Stamp(last) > Stamp(m)
        BY <4>1, <4>5 DEF InOrder, Stamp
      <4> QED
        BY <4>2, <4>3, <4>4, <4>6
    <3> QED
      BY <1>1, <3>1, <3>2, <3>3 DEF Covered
  <2>12. last # None
    BY <1>3, <2>3
  <2> HIDE DEF w, rows, last
  <2> QED
    BY <1>1, <1>2, <2>2, <2>3, <2>8, <2>9, <2>10, <2>11, <2>12
       DEF WalkOK, Visible, Sorted, InOrder
<1> QED
  BY <1>4, <1>5

\* The rows of a page are messages of the conversation asked for.
LEMMA PageOfConversation ==
  ASSUME StoreInv, NEW c \in Readers, NEW u, NEW p, NEW cursor, NEW n \in Limits,
         SelectPage(c, u, p, cursor, n), HasPage(c)'
  PROVE  UNCHANGED messages /\ Range(call'[c].rows) \subseteq Conversation(u, p)
<1>0. call \in [Clients -> Call] /\ c \in Clients /\ n \in Int /\ UNCHANGED messages
  BY StoreNumbersAssumption DEF StoreInv, TypeOK, Clients, SelectPage
<1>1. PICK page \in Pages(u, p, cursor, n) :
          \/ call' = [call EXCEPT ![c] = [Idle EXCEPT !.pc = "mark", !.user = u, !.peer = p,
                                                      !.rows = page]]
          \/ Answer(c)
  BY DEF SelectPage
<1>2. ~Answer(c)
  BY <1>0, AnswerStep DEF CallBecomes, HasPage
<1>3. call'[c].rows = page
  BY <1>0, <1>1, <1>2 DEF Idle
<1> QED
  BY <1>0, <1>3, PageProperties DEF StoreInv

\* What a step does to the walk of a reader.
LEMMA ReaderStep ==
  ASSUME StoreInv, [Next]_vars, NEW c \in Readers
  PROVE  \/ /\ walk'[c] = walk[c]
            /\ HasPage(c)' => HasPage(c) /\ call'[c].rows = call[c].rows
         \/ \E u, p \in Users, n \in Limits : FirstPage(c, u, p, n)
         \/ \E n \in Limits : NextPage(c, n)
         \/ /\ HasPage(c) /\ ~HasPage(c)' /\ UNCHANGED messages
            /\ walk'[c] = WithPage(walk[c], call[c].rows)
<1> DEFINE Stays == /\ walk'[c] = walk[c]
                    /\ HasPage(c)' => HasPage(c) /\ call'[c].rows = call[c].rows
<1> USE DEF history
<1>0. /\ call \in [Clients -> Call] /\ walk \in [Readers -> Walk] /\ c \in Clients
      /\ Senders \cup Readers = Clients /\ Senders \cap Readers = {}
  BY StoreClientsAssumption DEF StoreInv, TypeOK, Clients
\* Another call changes, or this one is answered without a page.
<1>1. ASSUME NEW d \in Clients, Answer(d)
      PROVE  HasPage(c)' => HasPage(c) /\ call'[c].rows = call[c].rows
  BY <1>0, <1>1, AnswerStep DEF CallBecomes, HasPage
<1>2. ASSUME NEW d \in Senders, NEW u \in Users, NEW v \in Users, SendMessage(d, u, v)
      PROVE  Stays
  BY <1>0, <1>2 DEF SendMessage, HasPage
<1>3. ASSUME NEW d \in Clients, InsertCommits(d) \/ InsertFails(d) \/ Refuse(d) PROVE Stays
  BY <1>1, <1>3 DEF InsertCommits, InsertFails, Refuse
\* Another reader's SELECT.
<1>4. ASSUME NEW d \in Readers, d # c, NEW u, NEW p, NEW cursor, NEW n,
             SelectPage(d, u, p, cursor, n), walk'[c] = walk[c]
      PROVE  Stays
  <2>1. call'[c] = call[c]
    <3>1. CASE Answer(d)
      BY <1>0, <1>4, <3>1 DEF Answer
    <3> QED
      BY <1>0, <1>4, <3>1 DEF SelectPage
  <2> QED
    BY <1>4, <2>1 DEF HasPage
<1>5. ASSUME NEW d \in Readers, NEW u \in Users, NEW p \in Users, NEW n \in Limits,
             FirstPage(d, u, p, n), d # c
      PROVE  Stays
  BY <1>0, <1>4, <1>5 DEF FirstPage
<1>6. ASSUME NEW d \in Readers, NEW n \in Limits, NextPage(d, n), d # c PROVE Stays
  BY <1>4, <1>6 DEF NextPage
<1>7. ASSUME NEW d \in Readers, MarkDelivered(d) PROVE Stays
  <2>1. CASE d = c
    BY <1>0, <1>7, <2>1 DEF MarkDelivered, HasPage, Call
  <2>2. CASE d # c
    BY <1>0, <1>7, <2>2 DEF MarkDelivered, HasPage
  <2> QED
    BY <2>1, <2>2
<1>8. ASSUME NEW d \in Clients, Respond(d)
      PROVE  \/ Stays
             \/ /\ HasPage(c) /\ ~HasPage(c)' /\ UNCHANGED messages
                /\ walk'[c] = WithPage(walk[c], call[c].rows)
  <2>1. HasPage(c)' => HasPage(c) /\ call'[c].rows = call[c].rows
    BY <1>0, <1>8 DEF Respond, HasPage, Idle
  <2>2. CASE walk'[c] = walk[c]
    BY <2>1, <2>2
  <2>3. CASE walk'[c] # walk[c]
    <3>1. d = c /\ HasPage(c) /\ walk'[c] = WithPage(walk[c], call[c].rows)
      BY <1>0, <1>8, <2>3 DEF Respond, HasPage
    <3>2. ~HasPage(c)'
      BY <1>0, <1>8, <3>1 DEF Respond, HasPage, Idle
    <3> QED
      BY <1>8, <3>1, <3>2 DEF Respond
  <2> QED
    BY <2>2, <2>3
<1>9. CASE Restart
  BY <1>0, <1>9 DEF Restart, HasPage, Idle
<1>10. CASE Tick \/ UNCHANGED vars
  BY <1>10 DEF Tick, vars, HasPage
<1> QED
  BY <1>0, <1>2, <1>3, <1>5, <1>6, <1>7, <1>8, <1>9, <1>10, StoreCases

LEMMA WalkStep ==
  ASSUME StoreInv, WalkInv, [Next]_vars
  PROVE  WalkInv'
<1> SUFFICES ASSUME NEW c \in Readers PROVE WalkOK(c)' /\ PageOK(c)'
  BY DEF WalkInv
<1>0. /\ WalkOK(c) /\ PageOK(c) /\ RowsStay /\ DOMAIN messages' \subseteq Messages
      /\ walk \in [Readers -> Walk]
  BY RowsStep, TypeStep DEF WalkInv, StoreInv, TypeOK, Visible
<1>1. ASSUME walk'[c] = walk[c], HasPage(c)' => HasPage(c) /\ call'[c].rows = call[c].rows
      PROVE  WalkOK(c)' /\ PageOK(c)'
  BY <1>0, <1>1, WalkStays, PageStays
<1>2. ASSUME NEW u \in Users, NEW p \in Users, NEW n \in Limits, FirstPage(c, u, p, n)
      PROVE  WalkOK(c)' /\ PageOK(c)'
  <2>1. walk'[c] = [NoWalk EXCEPT !.user = u, !.peer = p, !.start = Visible]
    BY <1>0, <1>2 DEF FirstPage
  <2>2. /\ walk'[c].user = u /\ walk'[c].peer = p /\ walk'[c].cursor = None
        /\ walk'[c].seen = <<>> /\ walk'[c].cuts = {} /\ walk'[c].start = Visible
        /\ ~walk'[c].done
    BY <2>1 DEF NoWalk
  <2>3. PageOK(c)'
    BY <1>2, <2>2, PageReads DEF FirstPage
  <2>4. UNCHANGED messages /\ None \notin Visible
    BY <1>2, StoreNoneAssumption DEF FirstPage, SelectPage, StoreInv, TypeOK
  <2>5. \A m : Covered(c, m)'
    BY <2>2, <2>4 DEF Covered, Precedes, Visible
  <2>6. Sorted(walk[c].seen)' /\ IsInjective(walk'[c].seen) /\ Range(walk'[c].seen) = {}
    BY <2>2 DEF Sorted, IsInjective, Range
  <2> QED
    BY <2>2, <2>3, <2>4, <2>5, <2>6 DEF WalkOK, Visible
<1>3. ASSUME NEW n \in Limits, NextPage(c, n) PROVE WalkOK(c)' /\ PageOK(c)'
  <2>1. walk'[c] = walk[c] /\ ~walk[c].done /\ walk[c].start \subseteq Visible
    BY <1>0, <1>3 DEF NextPage, WalkOK
  <2>2. SelectPage(c, walk[c].user, walk[c].peer, walk[c].cursor, n)
    BY <1>3 DEF NextPage
  <2> QED
    BY <1>0, <2>1, <2>2, PageReads, WalkStays
<1>4. ASSUME HasPage(c), ~HasPage(c)', UNCHANGED messages,
             walk'[c] = WithPage(walk[c], call[c].rows)
      PROVE  WalkOK(c)' /\ PageOK(c)'
  BY <1>0, <1>4, PageArrives DEF PageOK
<1> QED
  BY <1>1, <1>2, <1>3, <1>4, ReaderStep

\* Every page continues its walk, and a message that another one was sent
\* after is not stamped later.
THEOREM WalkInvariant == Spec => [](StoreInv /\ WalkInv /\ BeforeInv)
<1>1. Init => WalkInv /\ BeforeInv
  <2>1. ASSUME Init, NEW c \in Readers PROVE WalkOK(c) /\ PageOK(c)
    <3>1. walk[c] = NoWalk /\ call[c] = Idle /\ Visible = {}
      BY <2>1 DEF Init, Clients, Visible
    <3>2. Range(<<>>) = {} /\ IsInjective(<<>>) /\ Sorted(<<>>)
      BY DEF Range, IsInjective, Sorted
    <3> QED
      BY <3>1, <3>2 DEF WalkOK, PageOK, HasPage, NoWalk, Idle
  <2>2. Init => BeforeInv
    BY DEF Init, BeforeInv, Visible, Idle
  <2> QED
    BY <2>1, <2>2 DEF WalkInv
<1>2. StoreInv /\ WalkInv /\ BeforeInv /\ [Next]_vars => WalkInv' /\ BeforeInv'
  BY WalkStep, BeforeStep
<1> QED
  BY <1>1, <1>2, StoreInvariant, PTL DEF Spec

\* The pages of a walk never show a message twice, whatever is stored or
\* becomes visible between them, and whichever responses are lost: the
\* cursor of GetHistory admits only rows older than all that were shown.
THEOREM PagesNeverRepeat == Spec => []WalkNeverRepeats
<1>1. WalkInv => WalkNeverRepeats
  BY DEF WalkInv, WalkOK, WalkNeverRepeats
<1> QED
  BY <1>1, WalkInvariant, PTL

\* A finished walk has shown every message of the conversation that was there
\* when it began, except those stamped like the last message of a page.
THEOREM PagesMissOnlyTies == Spec => []WalkMissesOnlyTies
<1>1. WalkInv => WalkMissesOnlyTies
  BY DEF WalkInv, WalkOK, WalkMissesOnlyTies, OfWalk, Covered, Stamp
<1> QED
  BY <1>1, WalkInvariant, PTL

\* A message that was visible before another one was sent is never shown as
\* the newer of the two, although rows become visible out of stamp order;
\* only equal stamps may come in either order.
THEOREM PagesKeepSendOrder == Spec => []WalkKeepsSendOrder
<1>1. StoreInv /\ WalkInv /\ BeforeInv => WalkKeepsSendOrder
  <2> SUFFICES ASSUME StoreInv, WalkInv, BeforeInv, NEW c \in Readers,
                      NEW i \in DOMAIN walk[c].seen, NEW j \in DOMAIN walk[c].seen, i < j,
                      walk[c].seen[i] \in before[walk[c].seen[j]]
               PROVE  messages[walk[c].seen[i]].created = messages[walk[c].seen[j]].created
    BY DEF WalkKeepsSendOrder
  <2>1. Sorted(walk[c].seen) /\ Range(walk[c].seen) \subseteq Visible
    BY DEF WalkInv, WalkOK
  <2>2. walk[c].seen[i] \in Visible /\ walk[c].seen[j] \in Visible
    BY <2>1 DEF Range
  <2>3. messages[walk[c].seen[i]].created >= messages[walk[c].seen[j]].created
    BY <2>1 DEF Sorted, InOrder
  <2>4. messages[walk[c].seen[i]].created <= messages[walk[c].seen[j]].created
    BY <2>2 DEF BeforeInv, Stamp
  <2>5. \A m \in Visible : messages[m].created \in Int
    BY StoreNumbersAssumption DEF StoreInv, TypeOK, Row
  <2> QED
    BY <2>2, <2>3, <2>4, <2>5
<1> QED
  BY <1>1, WalkInvariant, PTL
=============================================================================
