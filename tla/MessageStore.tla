---------------------------- MODULE MessageStore ----------------------------
(***************************************************************************)
(* The message service (services/message/main.go): SendMessage stores an   *)
(* encrypted message, GetHistory returns one page of a conversation and    *)
(* marks what its reader has received.  Clients fetch a conversation page  *)
(* by page, with the cursor of the last response.                          *)
(*                                                                         *)
(* Every SQL statement is a transaction of its own.  An INSERT is stamped  *)
(* (created_at DEFAULT NOW()) when it begins and visible when it commits,  *)
(* so a message may appear after one with a later stamp.  GetHistory reads *)
(* its page and marks the messages in two statements.                      *)
(***************************************************************************)
EXTENDS Integers, Sequences, FiniteSets, Functions

CONSTANTS
    Users,
    Messages,   \* bound: the messages ever sent (gen_random_uuid never repeats)
    Senders,    \* bound: the calls of SendMessage in progress at one time,
    Readers,    \* and of GetHistory; a reader makes one call at a time
    Keys,       \* the values ENCRYPTION_KEY takes over time
    Limits,     \* the page limits that clients ask for
    MaxTime,    \* bound: the clock of the database stops here
    None

ASSUME StoreNoneAssumption == None \notin Users \cup Messages \cup Keys
ASSUME StoreClientsAssumption == Senders \cap Readers = {}
ASSUME StoreFiniteAssumption == IsFiniteSet(Senders \cup Readers)
ASSUME StoreNumbersAssumption == Limits \subseteq Int /\ MaxTime \in Nat

VARIABLES
    messages,  \* table messages, by id
    call,      \* call[c]: the handler goroutine of the call of client c
    key,       \* s.aead, the only entry of s.keyRing
    now,       \* NOW()
    walk,      \* walk[c]: the pages reader c has fetched, newest first
    (***********************************************************************)
    (* History variables: no action's guard reads them.                    *)
    (***********************************************************************)
    before,    \* before[m]: the messages visible when the INSERT of m began
    selected   \* the messages that a GetHistory of their receiver has read

history == <<before, selected>>
vars    == <<messages, call, key, now, walk, history>>

-----------------------------------------------------------------------------
Clients == Senders \cup Readers

\* key_id is 1 in every row; which key that was is not in the table.
Row == [from : Users, to : Users, created : 0 .. MaxTime, key : Keys,
        delivered : BOOLEAN]

Call == [pc   : {"idle", "insert", "mark", "reply"},
         user : Users \cup {None},      \* sender_id, or user_id
         peer : Users \cup {None},      \* the receiver found, or peer_user_id
         msg  : Messages \cup {None},   \* the row being inserted,
         at   : 0 .. MaxTime,           \* its stamp
         page : BOOLEAN,                \* the answer is a page of history:
         rows : Seq(Messages)]          \* these

Idle == [pc |-> "idle", user |-> None, peer |-> None, msg |-> None, at |-> 0,
         page |-> FALSE, rows |-> <<>>]

\* What a client knows of the conversation it is fetching.
Walk == [user : Users \cup {None}, peer : Users \cup {None},
         cursor : Messages \cup {None},   \* next_cursor of the last response
         seen : Seq(Messages),            \* the messages in the responses
         cuts : SUBSET Messages,          \* the cursors they ended with
         start : SUBSET Messages,         \* history: visible to the first page
         done : BOOLEAN]                  \* the last page was empty

NoWalk == [user |-> None, peer |-> None, cursor |-> None, seen |-> <<>>,
           cuts |-> {}, start |-> {}, done |-> FALSE]

Visible == DOMAIN messages

\* The call returns: an error, or the identifier of the message stored.
Answer(c) == call' = [call EXCEPT ![c] = [Idle EXCEPT !.pc = "reply"]]

\* It returns an error before it changes anything: a field is missing, the
\* receiver is not found, a SELECT fails.
Refuse(c) ==
    /\ call[c].pc = "idle"
    /\ Answer(c)
    /\ UNCHANGED <<messages, key, now, walk, history>>

-----------------------------------------------------------------------------
(***************************************************************************)
(* SendMessage.                                                            *)
(***************************************************************************)
\* The receiver is found by name, the text encrypted, and the INSERT begins,
\* with a fresh identifier and the clock of this moment.
SendMessage(c, u, v) ==
    /\ call[c].pc = "idle"
    /\ \E m \in Messages \ Visible :
           /\ \A d \in Clients : call[d].msg # m
           /\ call' = [call EXCEPT ![c] =
                          [Idle EXCEPT !.pc = "insert", !.user = u, !.peer = v,
                                       !.msg = m, !.at = now]]
           /\ before' = [before EXCEPT ![m] = Visible]
    /\ UNCHANGED <<messages, key, now, walk, selected>>

\* The rows that the clients in S are inserting become visible.
Inserted(S) ==
    [m \in Visible \cup {call[c].msg : c \in S} |->
        IF m \in Visible THEN messages[m]
        ELSE LET c == CHOOSE d \in S : call[d].msg = m
             IN  [from |-> call[c].user, to |-> call[c].peer, created |-> call[c].at,
                  key |-> key, delivered |-> FALSE]]

\* Mutant of InsertCommits: the INSERT is repeated when its acknowledgement
\* does not arrive.
InsertRepeats(c) ==
    /\ call[c].pc = "insert"
    /\ messages' = Inserted({c})
    /\ Answer(c) \/ UNCHANGED call
    /\ UNCHANGED <<key, now, walk, history>>

\* The INSERT commits, and its acknowledgement arrives or is lost.
InsertCommits(c) ==
    /\ call[c].pc = "insert"
    /\ messages' = Inserted({c})
    /\ Answer(c)
    /\ UNCHANGED <<key, now, walk, history>>

InsertFails(c) ==
    /\ call[c].pc = "insert"
    /\ Answer(c)
    /\ UNCHANGED <<messages, key, now, walk, history>>

-----------------------------------------------------------------------------
(***************************************************************************)
(* GetHistory.                                                             *)
(***************************************************************************)
\* Mutant of Conversation: the WHERE clause lacks its second half.
Received(u, p) == {m \in Visible : messages[m].from = p /\ messages[m].to = u}

\* Mutant of Conversation: the two conditions on the user are lost.
MessagesOfPeer(u, p) == {m \in Visible : p \in {messages[m].from, messages[m].to}}

Conversation(u, p) == {m \in Visible : {messages[m].from, messages[m].to} = {u, p}}

\* Mutant of Precedes: created_at <= the cursor's.
PrecedesOrTies(m, cursor) ==
    cursor \in Visible => messages[m].created <= messages[cursor].created

\* created_at < that of the cursor; a cursor that is absent, or no message's,
\* lets everything through.
Precedes(m, cursor) ==
    cursor \in Visible => messages[m].created < messages[cursor].created

\* Mutant of InOrder: ORDER BY created_at.
InReverseOrder(a, b) == messages[a].created <= messages[b].created

\* ORDER BY created_at DESC, which leaves open how equal stamps are ordered.
InOrder(a, b) == messages[a].created >= messages[b].created

PageLimit(n) == IF n <= 0 \/ n > 100 THEN 50 ELSE n

\* The answers that the database may give to the SELECT.
Pages(u, p, cursor, n) ==
    LET rows == {m \in Conversation(u, p) : Precedes(m, cursor)}
        all  == Cardinality(rows)
        size == IF PageLimit(n) < all THEN PageLimit(n) ELSE all
    IN  {page \in [1 .. size -> rows] :
            /\ IsInjective(page)
            /\ \A i, j \in 1 .. size : i < j => InOrder(page[i], page[j])
            /\ \A i \in 1 .. size : \A m \in rows \ Range(page) : InOrder(page[i], m)}

\* One row that the key of the process does not decrypt fails the page.
Readable(page) == \A i \in DOMAIN page : messages[page[i]].key = key

SelectPage(c, u, p, cursor, n) ==
    /\ call[c].pc = "idle"
    /\ \E page \in Pages(u, p, cursor, n) :
           IF Readable(page)
           THEN /\ call' = [call EXCEPT ![c] =
                               [Idle EXCEPT !.pc = "mark", !.user = u, !.peer = p,
                                            !.rows = page]]
                /\ selected' = selected \cup {m \in Range(page) : messages[m].to = u}
           ELSE Answer(c) /\ UNCHANGED selected
    /\ UNCHANGED <<messages, key, now, before>>

\* A client opens a conversation, ...
FirstPage(c, u, p, n) ==
    /\ SelectPage(c, u, p, None, n)
    /\ walk' = [walk EXCEPT ![c] =
                   [NoWalk EXCEPT !.user = u, !.peer = p, !.start = Visible]]

\* ... and asks for more until a page is empty.
NextPage(c, n) ==
    /\ walk[c].cursor # None /\ ~walk[c].done
    /\ SelectPage(c, walk[c].user, walk[c].peer, walk[c].cursor, n)
    /\ UNCHANGED walk

Addressed(c, m) == messages[m].to = call[c].user /\ messages[m].from = call[c].peer

\* The UPDATE goes by sender and receiver, not by the rows of the page; it
\* may fail, which nobody notices.
MarkDelivered(c) ==
    /\ call[c].pc = "mark"
    /\ \/ messages' = [m \in Visible |->
                          IF Addressed(c, m) THEN [messages[m] EXCEPT !.delivered = TRUE]
                                             ELSE messages[m]]
       \/ UNCHANGED messages
    /\ call' = [call EXCEPT ![c].pc = "reply", ![c].page = TRUE]
    /\ UNCHANGED <<key, now, walk, history>>

-----------------------------------------------------------------------------
(***************************************************************************)
(* Responses, the clock, a restart.                                        *)
(***************************************************************************)
WithPage(w, rows) ==
    IF rows = <<>> THEN [w EXCEPT !.cursor = None, !.done = TRUE]
    ELSE [w EXCEPT !.cursor = rows[Len(rows)],
                   !.seen = @ \o rows,
                   !.cuts = @ \cup {rows[Len(rows)]}]

\* The response arrives, or is lost: the gateway gives up after three
\* seconds, and the client asks again.
Respond(c) ==
    /\ call[c].pc = "reply"
    /\ \/ /\ call[c].page
          /\ walk' = [walk EXCEPT ![c] = WithPage(@, call[c].rows)]
       \/ UNCHANGED walk
    /\ call' = [call EXCEPT ![c] = Idle]
    /\ UNCHANGED <<messages, key, now, history>>

Tick ==
    /\ now < MaxTime
    /\ now' = now + 1
    /\ UNCHANGED <<messages, call, key, walk, history>>

\* The process stops and starts with the ENCRYPTION_KEY of the day; an
\* INSERT it was waiting for commits or not.
Restart ==
    /\ \E S \in SUBSET {c \in Clients : call[c].pc = "insert"} : messages' = Inserted(S)
    /\ call' = [c \in Clients |-> Idle]
    /\ key' \in Keys
    /\ UNCHANGED <<now, walk, history>>

-----------------------------------------------------------------------------
Init ==
    /\ messages = [m \in {} |-> None]
    /\ call = [c \in Clients |-> Idle]
    /\ key \in Keys
    /\ now = 0
    /\ walk = [c \in Readers |-> NoWalk]
    /\ before = [m \in Messages |-> {}]
    /\ selected = {}

Send(c) ==
    \/ \E u, v \in Users : SendMessage(c, u, v)
    \/ InsertCommits(c)
    \/ InsertFails(c)

GetHistory(c) ==
    \/ \E u, p \in Users, n \in Limits : FirstPage(c, u, p, n)
    \/ \E n \in Limits : NextPage(c, n)
    \/ MarkDelivered(c)

Next ==
    \/ \E c \in Senders : Send(c)
    \/ \E c \in Readers : GetHistory(c)
    \/ \E c \in Clients : Refuse(c) \/ Respond(c)
    \/ Tick
    \/ Restart

Spec == Init /\ [][Next]_vars

-----------------------------------------------------------------------------
(***************************************************************************)
(* Properties.                                                             *)
(***************************************************************************)
\* Tables, calls and walks hold values of their types; stamps are not in the
\* future, and a message being inserted is in one call and not in the table.
TypeOK ==
    /\ Visible \subseteq Messages
    /\ messages \in [Visible -> Row]
    /\ \A m \in Visible : messages[m].created <= now
    /\ call \in [Clients -> Call]
    /\ \A c \in Clients : call[c].pc = "insert" =>
           /\ call[c].msg \in Messages \ Visible
           /\ call[c].at <= now
           /\ \A d \in Clients \ {c} : call[d].msg # call[c].msg
    /\ key \in Keys
    /\ now \in 0 .. MaxTime
    /\ walk \in [Readers -> Walk]
    /\ before \in [Messages -> SUBSET Messages]
    /\ selected \subseteq Visible

\* The pages of a walk never show a message twice, whatever is stored or
\* becomes visible between them, and whichever responses are lost.
WalkNeverRepeats == \A c \in Readers : IsInjective(walk[c].seen)

\* A finished walk has shown every message of the conversation that was there
\* when it began, except those stamped like the last message of a page.
WalkMissesOnlyTies ==
    \A c \in Readers : walk[c].done =>
        \A m \in walk[c].start :
            {messages[m].from, messages[m].to} = {walk[c].user, walk[c].peer} =>
                \/ m \in Range(walk[c].seen)
                \/ \E cut \in walk[c].cuts : messages[cut].created = messages[m].created

\* A message that was visible before another one was sent is never shown as
\* the newer of the two, although rows become visible out of stamp order;
\* only equal stamps may come in either order.
WalkKeepsSendOrder ==
    \A c \in Readers : \A i, j \in DOMAIN walk[c].seen :
        LET newer == walk[c].seen[i]
            older == walk[c].seen[j]
        IN  (i < j /\ newer \in before[older]) =>
                messages[newer].created = messages[older].created

(***************************************************************************)
(* What docs/roadmap.md, sections 5.2 and 6, says of the table.            *)
(***************************************************************************)
\* "is_delivered: delivered to the recipient": a message marked as delivered
\* has been read from the table for its receiver.
DeliveredWasFetched ==
    \A m \in Visible : messages[m].delivered => m \in selected
=============================================================================
