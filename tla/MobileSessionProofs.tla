------------------------- MODULE MobileSessionProofs -------------------------
(***************************************************************************)
(* Proofs about MobileSession, for every number of tasks and of pairs of   *)
(* tokens.                                                                 *)
(*                                                                         *)
(* While exchanges of tokens do not overlap, at most one task changes the  *)
(* session, and what it has done to memory, disk and server so far follows *)
(* from where it is.  A login makes a fresh start of whatever state the    *)
(* client is in, so that its new pair must be known to nobody else.        *)
(***************************************************************************)
EXTENDS MobileSession, TLAPS

-----------------------------------------------------------------------------
\* The pairs that the client has, and that its handlers on the server have.
Known(j) == {memory.access, memory.refresh, disk.access, disk.refresh, task[j].pair}

\* Where the server, h, is in the request that task t awaits, or has given up.
Serves(t, h) ==
    /\ t.pc = "refresh" => h.pc \in {"refresh", "rotate", "store", "ok", "error"}
    /\ t.pc = "login" => h.pc \in {"login", "ok", "error"}
    /\ t.pc = "logout" => h.pc \in {"logout", "ok", "error"}
    /\ t.pc \in {"call", "saveAccess", "saveRefresh"} => h.pc = "idle"
    /\ t.pc \in {"saveAccess", "saveRefresh"} => t.pair # None
    /\ t.pc \in {"dropAccess", "dropRefresh"} => t.pair = None /\ ~t.resend
    /\ h.pc \in {"refresh", "rotate", "store", "logout"} => h.token # None
    /\ t.pc \in {"refresh", "login"} /\ h.pc = "ok" => h.token # None

TypeInv ==
    /\ TypeOK
    /\ \A k \in Tasks :
           /\ Serves(task[k], server[k])
           /\ Known(k) \cup {server[k].token} \subseteq Issued \cup {None}

\* The pair of a login that has not been answered is live, and nobody else's.
FreshInv ==
    \A k \in Tasks : task[k].pc = "login" /\ server[k].pc = "ok" =>
        /\ server[k].token \in live
        /\ \A q \in Issued : family[q] = family[server[k].token] => q = server[k].token
        /\ \A j \in Tasks : server[k].token \notin Known(j)
        /\ \A j \in Tasks \ {k} : server[j].token # server[k].token

-----------------------------------------------------------------------------
Calm == ~overlapped /\ ~faulty

\* Memory and disk have the pair of the session, or none.
Settled ==
    /\ disk = memory
    /\ memory.access = memory.refresh
    /\ IF signedIn THEN memory.refresh \in live ELSE memory = Nothing

\* What exchange k has done so far.
Refreshing(k) ==
    /\ task[k].pc = "refresh"
    /\ signedIn
    /\ \/ /\ server[k].pc \in {"refresh", "rotate"}
          /\ Settled
          /\ server[k].token = memory.refresh
       \/ server[k].pc = "store"
       \/ server[k].pc = "ok" /\ server[k].token \in live

LoggingIn(k) == task[k].pc = "login" /\ ~signedIn /\ Settled

LoggingOut(k) ==
    /\ task[k].pc = "logout"
    /\ signedIn
    /\ server[k].pc # "error"

SavingTokens(k) ==
    /\ task[k].pc \in {"saveAccess", "saveRefresh"}
    /\ signedIn
    /\ memory = Tokens(task[k].pair)
    /\ task[k].pair \in live
    /\ task[k].pc = "saveRefresh" => disk.access = task[k].pair

DroppingTokens(k) ==
    /\ task[k].pc \in {"dropAccess", "dropRefresh"}
    /\ ~signedIn
    /\ memory = Nothing
    /\ task[k].pc = "dropRefresh" => disk.access = None

\* The user has given up a login that the server is still busy with.
LoginAbandoned(k) == task[k].pc = "idle" /\ ~signedIn /\ Settled

Phase(k) ==
    \/ Refreshing(k)
    \/ LoggingIn(k)
    \/ LoggingOut(k)
    \/ SavingTokens(k)
    \/ DroppingTokens(k)
    \/ LoginAbandoned(k)

CalmInv ==
    Calm =>
        /\ Quiet => Settled
        /\ \A k \in Tasks : Exchanging(k) =>
               /\ Phase(k)
               /\ \A j \in Tasks \ {k} : ~Exchanging(j)

SessionInv == TypeInv /\ FreshInv /\ CalmInv

-----------------------------------------------------------------------------
(***************************************************************************)
(* Types.                                                                  *)
(***************************************************************************)
\* Task k, and its handler on the server, change to t and h.
Becomes(k, t, h) ==
    /\ task' \in [Tasks -> Task] /\ server' \in [Tasks -> Handler]
    /\ task'[k] = t /\ server'[k] = h
    /\ \A j \in Tasks \ {k} : task'[j] = task[j] /\ server'[j] = server[j]

LEMMA Update ==
  ASSUME TypeInv, NEW k \in Tasks, NEW t \in Task, NEW h \in Handler,
         task' = [task EXCEPT ![k] = t] \/ (t = task[k] /\ UNCHANGED task),
         server' = [server EXCEPT ![k] = h] \/ (h = server[k] /\ UNCHANGED server)
  PROVE  Becomes(k, t, h)
BY DEF TypeInv, TypeOK, Becomes

\* The pairs in the hands of the client, where it is about to change them.
Around(k) == Known(k) \cup {server[k].token, None}

LEMMA TypeFrame ==
  ASSUME TypeInv, NEW k \in Tasks, NEW t, NEW h, Becomes(k, t, h),
         Serves(t, h),
         UNCHANGED <<family, live>>, expired' \in SUBSET Issued,
         memory' \in Store, disk' \in Store,
         {memory'.access, memory'.refresh, disk'.access, disk'.refresh, t.pair, h.token}
             \subseteq Around(k),
         history' \in BOOLEAN \X BOOLEAN \X BOOLEAN
  PROVE  TypeInv'
<1>1. Issued' = Issued
  BY DEF Issued
<1>2. Around(k) \subseteq Issued \cup {None}
  BY DEF TypeInv, Around
<1>3. \A j \in Tasks : Serves(task'[j], server'[j])
  BY DEF TypeInv, Becomes
<1>4. \A j \in Tasks : Known(j)' \cup {server'[j].token} \subseteq Issued \cup {None}
  <2> SUFFICES ASSUME NEW j \in Tasks
               PROVE  {task'[j].pair, server'[j].token} \subseteq Issued \cup {None}
    BY <1>2 DEF Known
  <2>1. CASE j = k
    BY <1>2, <2>1 DEF Becomes
  <2>2. CASE j # k
    BY <2>2 DEF Becomes, TypeInv, Known
  <2> QED
    BY <2>1, <2>2
<1>5. \A j \in Tasks : task'[j].pc \in {"saveAccess", "saveRefresh"} => task'[j].pair # None
  BY <1>3 DEF Serves
<1>6. TypeOK'
  BY <1>1, <1>5 DEF TypeInv, TypeOK, Becomes
<1> QED
  BY <1>1, <1>3, <1>4, <1>6 DEF TypeInv

\* What all actions of task k do that leave the table of the server alone:
\* they pass on pairs that they have.
Moves(k) ==
    /\ Becomes(k, task'[k], server'[k])
    /\ Serves(task'[k], server'[k])
    /\ ~(task'[k].pc = "login" /\ server'[k].pc = "ok")
    /\ UNCHANGED tokens
    /\ memory' \in Store /\ disk' \in Store
    /\ {memory'.access, memory'.refresh, disk'.access, disk'.refresh, task'[k].pair,
         server'[k].token} \subseteq Around(k)
    /\ history' \in BOOLEAN \X BOOLEAN \X BOOLEAN

LEMMA Pieces ==
  /\ Idle \in Task /\ NoCall \in Handler /\ Nothing \in Store
  /\ Idle.pc = "idle" /\ Idle.pair = None /\ ~Idle.resend
  /\ NoCall.pc = "idle" /\ NoCall.token = None
  /\ Nothing.access = None /\ Nothing.refresh = None
BY DEF Idle, NoCall, Nothing, Task, Handler, Store

\* A request is sent.
LEMMA SendMoves ==
  ASSUME TypeInv, NEW k \in Tasks, NEW request \in {"refresh", "login", "logout"},
         NEW token \in {memory.refresh, None}, request # "login" => token # None,
         Send(k, request, token), UNCHANGED <<memory, disk, tokens, signedIn, faulty>>
  PROVE  /\ Moves(k)
         /\ task'[k].pc = request /\ server'[k].pc = request /\ server'[k].token = token
<1> DEFINE t == [Idle EXCEPT !.pc = request]
           h == [pc |-> request, token |-> token]
<1>1. /\ t \in Task /\ t.pc = request /\ t.pair = None
      /\ h \in Handler /\ h.pc = request /\ h.token = token
  BY Pieces DEF TypeInv, TypeOK, Store, Idle, Task, Handler, Waiting
<1>2. task' = [task EXCEPT ![k] = t] /\ server' = [server EXCEPT ![k] = h]
  BY DEF Send
<1>3. overlapped' \in BOOLEAN
  BY DEF Send
<1> HIDE DEF t, h
<1>4. Becomes(k, t, h)
  BY <1>1, <1>2, Update
<1>5. Serves(t, h)
  BY <1>1 DEF Serves
<1>6. task'[k] = t /\ server'[k] = h
  BY <1>4 DEF Becomes
<1> QED
  BY <1>1, <1>3, <1>4, <1>5, <1>6 DEF Moves, TypeInv, TypeOK, history, Around, Known

\* Task k changes, and the server's side of it becomes idle or stays.
LEMMA TaskMoves ==
  ASSUME TypeInv, NEW k \in Tasks, NEW t \in Task, task' = [task EXCEPT ![k] = t],
         \/ server' = [server EXCEPT ![k] = NoCall]
         \/ UNCHANGED server /\ t.pc \notin {"call", "saveAccess", "saveRefresh"}
         \/ UNCHANGED server /\ server[k].pc = "idle",
         t.pc \notin Waiting, t.pair \in Around(k),
         t.pc \in {"saveAccess", "saveRefresh"} => t.pair # None,
         t.pc \in {"dropAccess", "dropRefresh"} => t.pair = None /\ ~t.resend,
         UNCHANGED tokens, memory' \in Store, disk' \in Store,
         memory'.access \in Around(k), memory'.refresh \in Around(k),
         disk'.access \in Around(k), disk'.refresh \in Around(k),
         history' \in BOOLEAN \X BOOLEAN \X BOOLEAN
  PROVE  Moves(k) /\ task'[k] = t /\ server'[k] \in {server[k], NoCall}
<1>1. PICK h \in Handler :
          /\ server' = [server EXCEPT ![k] = h] \/ (h = server[k] /\ UNCHANGED server)
          /\ h \in {server[k], NoCall}
          /\ t.pc \in {"call", "saveAccess", "saveRefresh"} => h.pc = "idle"
  BY Pieces DEF TypeInv, TypeOK
<1>2. Becomes(k, t, h)
  BY <1>1, Update
<1>3. Serves(t, h)
  BY <1>1, Pieces DEF Serves, TypeInv, Waiting
<1>4. task'[k] = t /\ server'[k] = h
  BY <1>2 DEF Becomes
<1>5. h.token \in Around(k)
  BY <1>1, Pieces DEF Around
<1> QED
  BY <1>1, <1>2, <1>3, <1>4, <1>5 DEF Moves, Waiting

\* The actions of task k, but for the statements that change the server's table.
Step(k) == Client(k) \/ User(k) \/ Validate(k) \/ ServerFails(k) \/ Discard(k)

LEMMA StepMoves ==
  ASSUME TypeInv, NEW k \in Tasks, Step(k)
  PROVE  Moves(k)
<1> USE Pieces
<1>0. /\ task \in [Tasks -> Task] /\ server \in [Tasks -> Handler]
      /\ memory \in Store /\ disk \in Store /\ Serves(task[k], server[k])
      /\ history \in BOOLEAN \X BOOLEAN \X BOOLEAN
      /\ memory.access \in Around(k) /\ memory.refresh \in Around(k)
      /\ disk.access \in Around(k) /\ disk.refresh \in Around(k)
      /\ task[k].pair \in Around(k) /\ server[k].token \in Around(k) /\ None \in Around(k)
  BY DEF TypeInv, TypeOK, Around, Known
<1>1. CASE Call(k)
  <2> DEFINE t == [Idle EXCEPT !.pc = "call", !.pair = memory.access]
  <2>1. t \in Task /\ t.pc = "call" /\ t.pair = memory.access
    BY <1>0 DEF Idle, Task, Store
  <2>2. task' = [task EXCEPT ![k] = t]
    BY <1>1 DEF Call
  <2> HIDE DEF t
  <2> QED
    BY <1>0, <1>1, <2>1, <2>2, TaskMoves DEF Call, Waiting, history
<1>2. CASE CallEnds(k) \/ CallGivesUp(k)
  BY <1>0, <1>2, TaskMoves DEF CallEnds, CallGivesUp, Waiting, history
<1>3. CASE CallRefreshes(k)
  BY <1>3, SendMoves DEF CallRefreshes
<1>4. ASSUME NEW p \in Pairs, NEW resend \in BOOLEAN, p = server[k].token,
             SetTokens(k, p, resend), server' = [server EXCEPT ![k] = NoCall],
             UNCHANGED <<disk, tokens>>, history' \in BOOLEAN \X BOOLEAN \X BOOLEAN
      PROVE  Moves(k)
  <2> DEFINE t == [pc |-> "saveAccess", pair |-> p, resend |-> resend]
  <2>1. t \in Task /\ t.pc = "saveAccess" /\ t.pair = p
    BY DEF Task, Writing
  <2>2. task' = [task EXCEPT ![k] = t] /\ memory' \in Store
        /\ memory'.access = p /\ memory'.refresh = p
    BY <1>4 DEF SetTokens, Tokens, Store
  <2>3. p # None
    BY MobileNoneAssumption
  <2> HIDE DEF t
  <2> QED
    BY <1>0, <1>4, <2>1, <2>2, <2>3, TaskMoves DEF Waiting
<1>5. CASE RefreshSucceeds(k) \/ LoginSucceeds(k)
  <2>1. server[k].token \in Pairs
    BY <1>0, <1>5 DEF RefreshSucceeds, LoginSucceeds, Serves, Handler
  <2>2. history' \in BOOLEAN \X BOOLEAN \X BOOLEAN
    BY <1>0, <1>5 DEF RefreshSucceeds, LoginSucceeds, history
  <2> QED
    BY <1>4, <1>5, <2>1, <2>2 DEF RefreshSucceeds, LoginSucceeds
<1>6. ASSUME Clear(k), server' = [server EXCEPT ![k] = NoCall] \/ UNCHANGED server,
             UNCHANGED <<disk, tokens>>, history' \in BOOLEAN \X BOOLEAN \X BOOLEAN
      PROVE  Moves(k)
  <2> DEFINE t == [Idle EXCEPT !.pc = "dropAccess"]
  <2>1. t \in Task /\ t.pc = "dropAccess" /\ t.pair = None /\ ~t.resend
    BY DEF Idle, Task, Writing
  <2>2. task' = [task EXCEPT ![k] = t] /\ memory' = Nothing
    BY <1>6 DEF Clear
  <2> HIDE DEF t
  <2> QED
    BY <1>0, <1>6, <2>1, <2>2, TaskMoves DEF Waiting
<1>7. CASE RefreshFails(k) \/ RefreshDisconnects(k) \/ LogoutLocally(k) \/ LogoutSucceeds(k)
  <2>1. history' \in BOOLEAN \X BOOLEAN \X BOOLEAN
    BY <1>0, <1>7 DEF RefreshFails, RefreshDisconnects, LogoutLocally, LogoutSucceeds, history
  <2> QED
    BY <1>6, <1>7, <2>1 DEF RefreshFails, RefreshDisconnects, LogoutLocally, LogoutSucceeds
<1>8. CASE WriteAccess(k)
  <2> DEFINE next == IF task[k].pc = "saveAccess" THEN "saveRefresh" ELSE "dropRefresh"
             t == [task[k] EXCEPT !.pc = next]
  <2>1. /\ t \in Task /\ t.pc = next /\ t.pair = task[k].pair /\ t.resend = task[k].resend
        /\ next \in {"saveRefresh", "dropRefresh"}
        /\ next = "saveRefresh" => task[k].pc = "saveAccess"
        /\ next = "dropRefresh" => task[k].pc = "dropAccess"
    BY <1>0, <1>8 DEF WriteAccess, Task, Writing
  <2>2. task' = [task EXCEPT ![k] = t]
    BY <1>0, <1>8 DEF WriteAccess
  <2>3. disk' \in Store /\ disk'.access = task[k].pair /\ disk'.refresh = disk.refresh
    BY <1>0, <1>8 DEF WriteAccess, Store, Task
  <2>4. UNCHANGED <<memory, server, tokens, history>>
    BY <1>8 DEF WriteAccess
  <2> HIDE DEF t, next
  <2> QED
    BY <1>0, <2>1, <2>2, <2>3, <2>4, TaskMoves DEF Waiting, history, Serves
<1>9. CASE WriteRefresh(k)
  <2>1. /\ AfterWrite(k) \in Task
        /\ AfterWrite(k).pc = "idle" \/ (AfterWrite(k).pc = "call" /\ task[k].resend)
        /\ AfterWrite(k).pair \in {memory.access, None}
    BY <1>0 DEF AfterWrite, Task, Store
  <2>2. disk' \in Store /\ disk'.access = disk.access /\ disk'.refresh = task[k].pair
    BY <1>0, <1>9 DEF WriteRefresh, Store, Task
  <2>3. task' = [task EXCEPT ![k] = AfterWrite(k)] /\ UNCHANGED <<memory, server, tokens, history>>
    BY <1>9 DEF WriteRefresh
  <2>4. AfterWrite(k).pc = "call" => server[k].pc = "idle"
    BY <1>0, <1>9, <2>1 DEF WriteRefresh, Serves
  <2> QED
    BY <1>0, <2>1, <2>2, <2>3, <2>4, TaskMoves DEF Waiting, history
<1>10. CASE Login(k) \/ Logout(k)
  BY <1>10, SendMoves DEF Login, Logout
<1>11. CASE LoginFails(k) \/ LogoutFails(k)
  <2>1. history' \in BOOLEAN \X BOOLEAN \X BOOLEAN
    BY <1>0, <1>11 DEF LoginFails, LogoutFails, history
  <2> QED
    BY <1>0, <1>11, <2>1, TaskMoves DEF LoginFails, LogoutFails, Waiting
<1>12. CASE Validate(k) \/ ServerFails(k) \/ Discard(k)
  <2>1. PICK h \in Handler :
            /\ server' = [server EXCEPT ![k] = h]
            /\ \/ server[k].pc = "refresh" /\ h.pc = "rotate" /\ h.token = server[k].token
               \/ server[k].pc # "idle" /\ h.pc = "error" /\ h.token = None
               \/ task[k].pc \notin Waiting /\ h.pc = "idle" /\ h.token = None
    <3>1. CASE Validate(k)
      <4> DEFINE h == IF server[k].token \in live
                      THEN [pc |-> "rotate", token |-> server[k].token]
                      ELSE [pc |-> "error", token |-> None]
      <4>1. h \in Handler /\ server' = [server EXCEPT ![k] = h]
        BY <1>0, <3>1 DEF Validate, Serve, Handler
      <4> QED
        BY <3>1, <4>1 DEF Validate
    <3>2. CASE ServerFails(k)
      <4>1. [pc |-> "error", token |-> None] \in Handler
        BY DEF Handler
      <4> QED
        BY <3>2, <4>1 DEF ServerFails, Serve
    <3>3. CASE Discard(k)
      BY <3>3 DEF Discard
    <3> QED
      BY <1>12, <3>1, <3>2, <3>3
  <2>2. UNCHANGED <<memory, disk, task, tokens>> /\ history' \in BOOLEAN \X BOOLEAN \X BOOLEAN
    BY <1>0, <1>12 DEF Validate, ServerFails, Discard, history
  <2>3. Becomes(k, task[k], h)
    BY <1>0, <2>1, <2>2, Update
  <2>4. Serves(task[k], h)
    BY <1>0, <2>1 DEF Serves, Waiting
  <2>5. h.pc # "ok" /\ task'[k] = task[k] /\ server'[k] = h
    BY <2>1, <2>3 DEF Becomes
  <2> QED
    BY <1>0, <2>1, <2>2, <2>3, <2>4, <2>5 DEF Moves
<1> QED
  BY <1>1, <1>2, <1>3, <1>5, <1>7, <1>8, <1>9, <1>10, <1>11, <1>12 DEF Step, Client, User

LEMMA StepCases ==
  ASSUME Next
  PROVE  \/ \E k \in Tasks : Step(k)
         \/ \E k \in Tasks : Revoke(k)
         \/ \E k \in Tasks : Issue(k)
         \/ Expire
         \/ Kill
BY DEF Next, Step, Server

\* The UPDATE of a family, for a handler that has a token of it.
LEMMA RevokeDoes ==
  ASSUME TypeInv, NEW k \in Tasks, Revoke(k)
  PROVE  /\ \E h \in Handler :
                /\ Becomes(k, task[k], h) /\ Serves(task[k], h) /\ h.token \in {server[k].token, None}
                /\ \/ server[k].pc = "rotate" /\ h.pc = "store"
                   \/ server[k].pc = "logout" /\ h.pc = "ok" /\ task[k].pc \notin {"refresh", "login"}
         /\ live' = live \ Family(server[k].token)
         /\ UNCHANGED <<memory, disk, task, family, expired, history>>
<1>0. task[k] \in Task /\ server[k] \in Handler /\ Serves(task[k], server[k])
  BY DEF TypeInv, TypeOK
<1> DEFINE h == IF server[k].pc = "rotate" THEN [pc |-> "store", token |-> server[k].token]
                                           ELSE [pc |-> "ok", token |-> None]
<1>1. /\ h \in Handler /\ h.token \in {server[k].token, None}
      /\ \/ server[k].pc = "rotate" /\ h.pc = "store" /\ h.token = server[k].token
         \/ server[k].pc = "logout" /\ h.pc = "ok"
  BY <1>0 DEF Revoke, Handler
<1>2. server' = [server EXCEPT ![k] = h]
  BY DEF Revoke, Serve
<1>3. UNCHANGED task
  BY DEF Revoke
<1> HIDE DEF h
<1>4. Becomes(k, task[k], h)
  BY <1>0, <1>1, <1>2, <1>3, Update
<1>5. Serves(task[k], h) /\ (server[k].pc = "logout" => task[k].pc \notin {"refresh", "login"})
  BY <1>0, <1>1 DEF Serves
<1> QED
  BY <1>1, <1>4, <1>5 DEF Revoke

\* The INSERT of a pair that was never issued, the first of its family or not.
LEMMA IssueDoes ==
  ASSUME TypeInv, NEW k \in Tasks, Issue(k)
  PROVE  \E p \in Pairs \ Issued, h \in Handler :
             /\ Becomes(k, task[k], h) /\ Serves(task[k], h) /\ h.pc = "ok" /\ h.token = p
             /\ Issued' = Issued \cup {p}
             /\ family' \in [Issued' -> Issued']
             /\ \A q \in Issued : family'[q] = family[q]
             /\ \/ server[k].pc = "login" /\ family'[p] = p
                \/ /\ server[k].pc = "store" /\ task[k].pc # "login"
                   /\ server[k].token \in Issued
                   /\ family'[p] = family[server[k].token]
             /\ live' = live \cup {p}
             /\ UNCHANGED <<memory, disk, task, expired, history>>
<1>0. /\ task[k] \in Task /\ server[k] \in Handler /\ Serves(task[k], server[k])
      /\ family \in [Issued -> Issued] /\ server[k].token \in Issued \cup {None}
  BY DEF TypeInv, TypeOK
<1>1. PICK p \in Pairs \ Issued :
          /\ family' = [q \in Issued \cup {p} |->
                           IF q \in Issued THEN family[q]
                           ELSE IF server[k].pc = "login" THEN p
                           ELSE family[server[k].token]]
          /\ live' = live \cup {p}
          /\ Serve(k, "ok", p)
  BY DEF Issue
<1>2. [pc |-> "ok", token |-> p] \in Handler
  BY DEF Handler
<1>3. Becomes(k, task[k], [pc |-> "ok", token |-> p])
  BY <1>0, <1>1, <1>2, Update DEF Serve, Issue
<1>4. p # None
  BY MobileNoneAssumption
<1>5. Serves(task[k], [pc |-> "ok", token |-> p])
  BY <1>0, <1>4 DEF Serves, Issue
<1>6. server[k].pc = "store" => server[k].token \in Issued /\ task[k].pc # "login"
  BY <1>0 DEF Serves
<1>7. /\ Issued' = Issued \cup {p}
      /\ \A q \in Issued : family'[q] = family[q]
      /\ server[k].pc = "login" => family'[p] = p
      /\ server[k].pc = "store" => family'[p] = family[server[k].token]
      /\ server[k].pc \in {"store", "login"}
  BY <1>1 DEF Issued, Issue
<1>8. family' \in [Issued' -> Issued']
  <2>1. ASSUME NEW q \in Issued \cup {p} PROVE family'[q] \in Issued \cup {p}
    BY <1>0, <1>6, <1>7
  <2>2. family' = [q \in Issued \cup {p} |-> family'[q]]
    BY <1>1
  <2> QED
    BY <1>7, <2>1, <2>2
<1> QED
  BY <1>1, <1>2, <1>3, <1>5, <1>6, <1>7, <1>8 DEF Issue

LEMMA KillDoes ==
  ASSUME TypeInv, Kill
  PROVE  /\ task' \in [Tasks -> Task] /\ \A k \in Tasks : task'[k] = Idle
         /\ memory' = disk /\ UNCHANGED <<disk, server, tokens, signedIn, overlapped>>
         /\ faulty' = (faulty \/ ~Quiet)
BY Pieces DEF Kill

LEMMA TypeStep ==
  ASSUME TypeInv, [Next]_vars
  PROVE  TypeInv'
<1>1. ASSUME NEW k \in Tasks, Step(k) PROVE TypeInv'
  BY <1>1, StepMoves, TypeFrame DEF Moves, tokens, TypeInv, TypeOK
<1>2. ASSUME NEW k \in Tasks, Revoke(k) PROVE TypeInv'
  <2>1. PICK h \in Handler :
            Becomes(k, task[k], h) /\ Serves(task[k], h) /\ h.token \in {server[k].token, None}
    BY <1>2, RevokeDoes
  <2>2. /\ live' \subseteq live /\ UNCHANGED <<memory, disk, task, family, expired, history>>
        /\ Issued' = Issued
    BY <1>2, RevokeDoes DEF Issued
  <2>3. \A j \in Tasks : Serves(task'[j], server'[j])
                         /\ server'[j].token \in Issued \cup {None}
    BY <2>1 DEF Becomes, TypeInv
  <2>4. TypeOK'
    BY <2>1, <2>2 DEF TypeInv, TypeOK, Becomes, history
  <2> QED
    BY <2>2, <2>3, <2>4 DEF TypeInv, Known
<1>3. ASSUME NEW k \in Tasks, Issue(k) PROVE TypeInv'
  <2>1. PICK p \in Pairs \ Issued, h \in Handler :
             /\ Becomes(k, task[k], h) /\ Serves(task[k], h) /\ h.token = p
             /\ Issued' = Issued \cup {p}
             /\ family' \in [Issued' -> Issued']
             /\ live' = live \cup {p}
             /\ UNCHANGED <<memory, disk, task, expired, history>>
    BY <1>3, IssueDoes
  <2>2. \A j \in Tasks : Serves(task'[j], server'[j])
                         /\ server'[j].token \in Issued' \cup {None}
    BY <2>1 DEF Becomes, TypeInv
  <2>3. TypeOK'
    BY <2>1 DEF TypeInv, TypeOK, Becomes, history
  <2> QED
    BY <2>1, <2>2, <2>3 DEF TypeInv, Known
<1>4. CASE Expire
  BY <1>4 DEF Expire, TypeInv, TypeOK, Known, history, Issued
<1>5. CASE Kill
  <2>1. /\ task' \in [Tasks -> Task] /\ \A k \in Tasks : task'[k] = Idle
        /\ memory' = disk /\ UNCHANGED <<disk, server, tokens, signedIn, overlapped>>
        /\ faulty' \in BOOLEAN
    BY <1>5, KillDoes
  <2>2. \A k \in Tasks : Serves(Idle, server[k])
    BY Pieces DEF TypeInv, Serves
  <2>3. TypeOK'
    BY <2>1, Pieces DEF TypeInv, TypeOK, tokens, history, Issued
  <2>4. \A k \in Tasks : Known(k)' \cup {server'[k].token} \subseteq Issued \cup {None}
    BY <2>1, Pieces DEF TypeInv, Known
  <2> QED
    BY <2>1, <2>2, <2>3, <2>4 DEF TypeInv, tokens, Issued
<1>6. CASE UNCHANGED vars
  BY <1>6 DEF vars, tokens, history, TypeInv, TypeOK, Known, Issued
<1> QED
  BY <1>1, <1>2, <1>3, <1>4, <1>5, <1>6, StepCases

-----------------------------------------------------------------------------
(***************************************************************************)
(* The pair that a login brings.                                           *)
(***************************************************************************)
\* A login that is answered knows a pair of its own.
Fresh(k) ==
    /\ server[k].token \in live
    /\ \A q \in Issued : family[q] = family[server[k].token] => q = server[k].token
    /\ \A j \in Tasks : server[k].token \notin Known(j)
    /\ \A j \in Tasks \ {k} : server[j].token # server[k].token

LEMMA FreshStep ==
  ASSUME TypeInv, FreshInv, [Next]_vars
  PROVE  FreshInv'
<1> SUFFICES ASSUME NEW k \in Tasks, task'[k].pc = "login", server'[k].pc = "ok"
             PROVE  Fresh(k)'
  BY DEF FreshInv, Fresh
<1>0. /\ family \in [Issued -> Issued] /\ live \subseteq Issued /\ Issued \subseteq Pairs
      /\ None \notin Issued
      /\ \A j \in Tasks : Known(j) \cup {server[j].token} \subseteq Issued \cup {None}
  BY MobileNoneAssumption DEF TypeInv, TypeOK
<1>1. task[k].pc = "login" /\ server[k].pc = "ok" => Fresh(k)
  BY DEF FreshInv, Fresh
<1>2. ASSUME NEW a \in Tasks, Step(a) PROVE Fresh(k)'
  <2>1. /\ Becomes(a, task'[a], server'[a])
        /\ ~(task'[a].pc = "login" /\ server'[a].pc = "ok")
        /\ UNCHANGED tokens
        /\ {memory'.access, memory'.refresh, disk'.access, disk'.refresh, task'[a].pair,
             server'[a].token} \subseteq Around(a)
    BY <1>2, StepMoves DEF Moves
  <2>2. a # k /\ task'[k] = task[k] /\ server'[k] = server[k]
    BY <2>1 DEF Becomes
  <2>3. Fresh(k)
    BY <1>1, <2>2
  <2>4. server[k].token \notin Around(a)
    BY <1>0, <2>2, <2>3 DEF Fresh, Around
  <2>5. /\ memory'.access # server[k].token /\ memory'.refresh # server[k].token
        /\ disk'.access # server[k].token /\ disk'.refresh # server[k].token
        /\ task'[a].pair # server[k].token /\ server'[a].token # server[k].token
    BY <2>1, <2>4
  <2>6. \A j \in Tasks : server[k].token \notin Known(j)'
    BY <2>1, <2>3, <2>5 DEF Fresh, Known, Becomes
  <2>7. \A j \in Tasks \ {k} : server'[j].token # server[k].token
    BY <2>1, <2>3, <2>5 DEF Fresh, Becomes
  <2> QED
    BY <2>1, <2>2, <2>3, <2>6, <2>7 DEF Fresh, tokens, Issued
<1>3. ASSUME NEW a \in Tasks, Revoke(a) PROVE Fresh(k)'
  <2>1. PICK h \in Handler :
            /\ Becomes(a, task[a], h) /\ h.token \in {server[a].token, None}
            /\ h.pc = "ok" => task[a].pc \notin {"refresh", "login"}
    BY <1>3, RevokeDoes
  <2>2. /\ live' = live \ Family(server[a].token)
        /\ UNCHANGED <<memory, disk, task, family, expired, history>>
    BY <1>3, RevokeDoes
  <2>3. a # k /\ server'[k] = server[k]
    BY <2>1, <2>2 DEF Becomes
  <2>4. Fresh(k)
    BY <1>1, <2>2, <2>3
  <2>5. server[k].token \notin Family(server[a].token)
    BY <2>3, <2>4 DEF Fresh, Family
  <2>6. \A j \in Tasks \ {k} : server'[j].token # server[k].token
    BY <1>0, <2>1, <2>4 DEF Becomes, Fresh
  <2> QED
    BY <2>2, <2>3, <2>4, <2>5, <2>6 DEF Fresh, Known, Issued
<1>4. ASSUME NEW a \in Tasks, Issue(a) PROVE Fresh(k)'
  <2>1. PICK p \in Pairs \ Issued, h \in Handler :
             /\ Becomes(a, task[a], h) /\ h.token = p
             /\ Issued' = Issued \cup {p}
             /\ \A q \in Issued : family'[q] = family[q]
             /\ \/ server[a].pc = "login" /\ family'[p] = p
                \/ /\ server[a].pc = "store" /\ task[a].pc # "login"
                   /\ server[a].token \in Issued
                   /\ family'[p] = family[server[a].token]
             /\ live' = live \cup {p}
             /\ UNCHANGED <<memory, disk, task, expired, history>>
    BY <1>4, IssueDoes
  <2>2. CASE a = k
    <3>1. server'[k].token = p /\ family'[p] = p
      BY <2>1, <2>2 DEF Becomes
    <3>2. \A q \in Issued : family'[q] # p
      BY <1>0, <2>1
    <3>3. p # None
      BY MobileNoneAssumption
    <3>4. \A j \in Tasks : p \notin Known(j)'
      BY <1>0, <2>1, <3>3 DEF Known
    <3>5. \A j \in Tasks \ {k} : server'[j].token # p
      BY <1>0, <2>1, <2>2, <3>3 DEF Becomes
    <3> QED
      BY <2>1, <3>1, <3>2, <3>4, <3>5 DEF Fresh
  <2>3. CASE a # k
    <3>1. Fresh(k) /\ server'[k] = server[k] /\ server[k].token \in Issued
      BY <1>0, <1>1, <2>1, <2>3 DEF Becomes, Fresh
    <3>2. family'[p] # family[server[k].token]
      BY <1>0, <2>1, <2>3, <3>1 DEF Fresh
    <3>3. \A j \in Tasks \ {k} : server'[j].token # server[k].token
      BY <2>1, <3>1 DEF Becomes, Fresh
    <3> QED
      BY <2>1, <3>1, <3>2, <3>3 DEF Fresh, Known
  <2> QED
    BY <2>2, <2>3
<1>5. CASE Expire
  BY <1>1, <1>5 DEF Expire, Fresh, Known, history, Issued
<1>6. CASE Kill
  BY <1>6, KillDoes, Pieces
<1>7. CASE UNCHANGED vars
  BY <1>1, <1>7 DEF vars, tokens, Fresh, Known, Issued
<1> QED
  BY <1>2, <1>3, <1>4, <1>5, <1>6, <1>7, StepCases

-----------------------------------------------------------------------------
(***************************************************************************)
(* One exchange at a time.                                                 *)
(***************************************************************************)
\* The only exchange that is, or was, in progress is that of task k.
LEMMA OneExchange ==
  ASSUME NEW k \in Tasks,
         \A j \in Tasks \ {k} : task'[j] = task[j] /\ server'[j] = server[j] /\ ~Exchanging(j),
         Exchanging(k)' => Phase(k)',
         ~Exchanging(k)' => Settled'
  PROVE  CalmInv'
<1>1. \A j \in Tasks \ {k} : ~Exchanging(j)'
  BY DEF Exchanging
<1> QED
  BY <1>1 DEF CalmInv, Quiet

\* A step that touches neither the session nor an exchange.
LEMMA NoExchange ==
  ASSUME CalmInv, Calm, UNCHANGED <<memory, disk, live, signedIn>>,
         \A j \in Tasks :
             \/ task'[j] = task[j] /\ server'[j] = server[j]
             \/ ~Exchanging(j) /\ ~Exchanging(j)'
  PROVE  CalmInv'
<1>1. Settled' <=> Settled
  BY DEF Settled
<1>2. \A j \in Tasks : Exchanging(j)' <=> Exchanging(j)
  BY DEF Exchanging
<1>3. ASSUME NEW j \in Tasks, Exchanging(j), Phase(j) PROVE Phase(j)'
  <2>1. task'[j] = task[j] /\ server'[j] = server[j]
    BY <1>2, <1>3
  <2> QED
    BY <1>1, <1>3, <2>1
       DEF Phase, Refreshing, LoggingIn, LoggingOut, SavingTokens, DroppingTokens,
           LoginAbandoned, Tokens
<1> QED
  BY <1>1, <1>2, <1>3 DEF CalmInv, Quiet

\* The exchange of task k begins.
LEMMA ExchangeBegins ==
  ASSUME CalmInv, Calm, NEW k \in Tasks, ~Exchanging(k),
         \A j \in Tasks \ {k} : ~Exchanging(j)
  PROVE  Settled
BY DEF CalmInv, Quiet

\* The server has no reason to refuse the refresh of a session that it knows.
LEMMA NoRefusal ==
  ASSUME CalmInv, Calm, NEW k \in Tasks, RefreshFails(k)
  PROVE  FALSE
<1>1. Exchanging(k) /\ task[k].pc = "refresh" /\ server[k].pc = "error"
  BY DEF RefreshFails, Exchanging, Waiting
<1>2. Phase(k)
  BY <1>1 DEF CalmInv
<1> QED
  BY <1>1, <1>2 DEF Phase, Refreshing, LoggingIn, LoggingOut, SavingTokens,
                    DroppingTokens, LoginAbandoned

LEMMA CalmStep ==
  ASSUME TypeInv, FreshInv, CalmInv, [Next]_vars
  PROVE  CalmInv'
<1> SUFFICES ASSUME Calm' PROVE CalmInv'
  BY DEF CalmInv
<1> USE Pieces DEF history
<1>0. /\ memory \in Store /\ disk \in Store /\ live \subseteq Pairs /\ None \notin live
      /\ task \in [Tasks -> Task] /\ server \in [Tasks -> Handler]
      /\ \A k \in Tasks : Serves(task[k], server[k])
  BY MobileNoneAssumption DEF TypeInv, TypeOK
<1>a. ASSUME NEW k \in Tasks, Step(k)
      PROVE  \A j \in Tasks \ {k} : task'[j] = task[j] /\ server'[j] = server[j]
  BY <1>a, StepMoves DEF Moves, Becomes
<1>b. ASSUME Calm, NEW k \in Tasks, Exchanging(k)
      PROVE  Phase(k) /\ \A j \in Tasks \ {k} : ~Exchanging(j)
  BY <1>b DEF CalmInv
\* Calls that change no tokens.
<1>1. ASSUME NEW k \in Tasks, Call(k) \/ CallEnds(k) \/ CallGivesUp(k) PROVE CalmInv'
  <2>1. /\ \A j \in Tasks \ {k} : task'[j] = task[j] /\ server'[j] = server[j]
        /\ Calm /\ UNCHANGED <<memory, disk, live, signedIn, server>>
    BY <1>1, <1>a DEF Step, Client, Call, CallEnds, CallGivesUp, tokens, Calm
  <2>2. task[k].pc \in {"idle", "call"} /\ server[k].pc = "idle"
    BY <1>0, <1>1 DEF Call, CallEnds, CallGivesUp, Unauthorized, Serves
  <2>3. task'[k].pc \in {"idle", "call"}
    BY <1>0, <1>1 DEF Call, CallEnds, CallGivesUp, Idle
  <2>4. ~Exchanging(k) /\ ~Exchanging(k)'
    BY <2>1, <2>2, <2>3 DEF Exchanging, Waiting, Writing
  <2> QED
    BY <2>1, <2>4, NoExchange
\* Requests that are sent.
<1>2. ASSUME NEW k \in Tasks, CallRefreshes(k) \/ Login(k) \/ Logout(k) PROVE CalmInv'
  <2>1. /\ Calm /\ UNCHANGED <<memory, disk, live, signedIn>>
        /\ \A j \in Tasks \ {k} : ~Exchanging(j)
    <3>1. /\ UNCHANGED <<memory, disk, live, signedIn>>
          /\ faulty' = faulty
          /\ overlapped' = (overlapped \/ \E j \in Tasks \ {k} : Exchanging(j))
      BY <1>2 DEF CallRefreshes, Login, Logout, Send, tokens
    <3>2. ~overlapped' /\ ~faulty'
      BY DEF Calm
    <3>3. ~overlapped /\ ~(\E j \in Tasks \ {k} : Exchanging(j)) /\ ~faulty
      BY <3>1, <3>2, Zenon
    <3> QED
      BY <3>1, <3>3 DEF Calm
  <2>2. ~Exchanging(k)
    BY <1>0, <1>2 DEF CallRefreshes, Unauthorized, Login, Logout, Exchanging, Waiting, Writing,
                      Serves
  <2>3. Settled /\ Settled'
    BY <2>1, <2>2, ExchangeBegins DEF Settled
  <2>4. Phase(k)'
    <3>1. CASE CallRefreshes(k)
      <4>1. task'[k].pc = "refresh" /\ server'[k].pc = "refresh" /\ server'[k].token = memory.refresh
        BY <3>1, SendMoves DEF CallRefreshes
      <4>2. signedIn
        BY <2>3, <3>1 DEF CallRefreshes, Settled
      <4> QED
        BY <2>1, <2>3, <4>1, <4>2 DEF Phase, Refreshing
    <3>2. CASE Login(k)
      <4>1. task'[k].pc = "login"
        BY <3>2, SendMoves DEF Login
      <4>2. ~signedIn
        BY <1>0, <2>3, <3>2 DEF Login, Settled, isAuthorized
      <4> QED
        BY <2>1, <2>3, <4>1, <4>2 DEF Phase, LoggingIn
    <3>3. CASE Logout(k)
      <4>1. task'[k].pc = "logout" /\ server'[k].pc = "logout"
        BY <3>3, SendMoves DEF Logout
      <4>2. signedIn
        BY <2>3, <3>3 DEF Logout, Settled
      <4> QED
        BY <2>1, <4>1, <4>2 DEF Phase, LoggingOut
    <3> QED
      BY <1>2, <3>1, <3>2, <3>3
  <2>5. task'[k].pc \in Waiting
    BY <1>0, <1>2 DEF CallRefreshes, Login, Logout, Send, Waiting, Idle
  <2> QED
    BY <1>2, <1>a, <2>1, <2>4, <2>5, OneExchange DEF Step, Client, User, Exchanging
\* Answers that bring tokens.
<1>3. ASSUME NEW k \in Tasks, RefreshSucceeds(k) \/ LoginSucceeds(k) PROVE CalmInv'
  <2>1. /\ signedIn' /\ server[k].token \in live
        /\ \A j \in Tasks \ {k} : ~Exchanging(j)
    <3>1. CASE RefreshSucceeds(k)
      <4>1. Calm /\ Exchanging(k) /\ task[k].pc = "refresh" /\ server[k].pc = "ok"
        BY <3>1 DEF RefreshSucceeds, Calm, Exchanging, Waiting
      <4>2. Refreshing(k)
        BY <1>b, <4>1 DEF Phase, LoggingIn, LoggingOut, SavingTokens, DroppingTokens,
                          LoginAbandoned
      <4> QED
        BY <1>b, <3>1, <4>1, <4>2 DEF Refreshing, RefreshSucceeds
    <3>2. CASE LoginSucceeds(k)
      BY <3>2 DEF LoginSucceeds, FreshInv, Calm
    <3> QED
      BY <1>3, <3>1, <3>2
  <2>2. /\ task'[k].pc = "saveAccess" /\ task'[k].pair = server[k].token
        /\ memory' = Tokens(server[k].token) /\ UNCHANGED live
    <3>1. PICK resend \in BOOLEAN : SetTokens(k, server[k].token, resend)
      BY <1>3 DEF RefreshSucceeds, LoginSucceeds
    <3>2. UNCHANGED live
      BY <1>3 DEF RefreshSucceeds, LoginSucceeds, tokens
    <3> QED
      BY <1>0, <3>1, <3>2 DEF SetTokens
  <2>3. Phase(k)'
    BY <2>1, <2>2 DEF Phase, SavingTokens, Tokens
  <2>4. Exchanging(k)'
    BY <2>2 DEF Exchanging, Writing
  <2> QED
    BY <1>3, <1>a, <2>1, <2>3, <2>4, OneExchange DEF Step, Client, User
\* Tokens are removed.
<1>4. ASSUME NEW k \in Tasks, LogoutSucceeds(k) \/ LogoutLocally(k) PROVE CalmInv'
  <2>1. ~signedIn' /\ Calm /\ \A j \in Tasks \ {k} : ~Exchanging(j)
    <3>1. CASE LogoutSucceeds(k)
      BY <1>b, <3>1 DEF LogoutSucceeds, Calm, Exchanging, Waiting
    <3>2. CASE LogoutLocally(k)
      BY <3>2 DEF LogoutLocally, Calm
    <3> QED
      BY <1>4, <3>1, <3>2
  <2>2. task'[k].pc = "dropAccess" /\ memory' = Nothing
    BY <1>0, <1>4 DEF LogoutSucceeds, LogoutLocally, Clear, Idle
  <2>3. Phase(k)' /\ Exchanging(k)'
    BY <2>1, <2>2 DEF Phase, DroppingTokens, Exchanging, Writing
  <2> QED
    BY <1>4, <1>a, <2>1, <2>3, OneExchange DEF Step, User
<1>5. ASSUME NEW k \in Tasks, RefreshFails(k) PROVE FALSE
  BY <1>5, NoRefusal DEF RefreshFails, Calm
<1>6. ASSUME NEW k \in Tasks, RefreshDisconnects(k) \/ LogoutFails(k) PROVE FALSE
  BY <1>6 DEF RefreshDisconnects, LogoutFails, Calm
<1>7. ASSUME NEW k \in Tasks, LoginFails(k) PROVE CalmInv'
  <2>1. Calm /\ Exchanging(k) /\ task[k].pc = "login"
    BY <1>7 DEF LoginFails, Calm, Exchanging, Waiting
  <2>2. LoggingIn(k) /\ \A j \in Tasks \ {k} : ~Exchanging(j)
    BY <1>b, <2>1 DEF Phase, Refreshing, LoggingOut, SavingTokens, DroppingTokens,
                      LoginAbandoned
  <2>3. task'[k] = Idle /\ UNCHANGED <<memory, disk, live, signedIn>>
    BY <1>0, <1>7 DEF LoginFails, tokens
  <2>4. Settled' /\ Phase(k)'
    BY <2>2, <2>3 DEF LoggingIn, Settled, Phase, LoginAbandoned
  <2> QED
    BY <1>7, <1>a, <2>2, <2>4, OneExchange DEF Step, User
\* The two writes to SharedPreferences.
<1>8. ASSUME NEW k \in Tasks, WriteAccess(k) PROVE CalmInv'
  <2>1. Calm /\ Exchanging(k) /\ task[k].pc \in {"saveAccess", "dropAccess"}
    BY <1>8 DEF WriteAccess, Calm, Exchanging, Writing
  <2>2. Phase(k) /\ \A j \in Tasks \ {k} : ~Exchanging(j)
    BY <1>b, <2>1
  <2>3. /\ task'[k].pair = task[k].pair /\ disk'.access = task[k].pair
        /\ task'[k].pc = IF task[k].pc = "saveAccess" THEN "saveRefresh" ELSE "dropRefresh"
        /\ UNCHANGED <<memory, live, signedIn>>
    BY <1>0, <1>8 DEF WriteAccess, tokens, Task, Store
  <2>4. Phase(k)' /\ Exchanging(k)'
    <3>1. CASE task[k].pc = "saveAccess"
      BY <2>2, <2>3, <3>1 DEF Phase, Refreshing, LoggingIn, LoggingOut, SavingTokens,
                              DroppingTokens, LoginAbandoned, Exchanging, Writing, Tokens
    <3>2. CASE task[k].pc = "dropAccess"
      <4>1. task[k].pair = None
        BY <1>0, <3>2 DEF Serves
      <4> QED
        BY <2>2, <2>3, <3>2, <4>1 DEF Phase, Refreshing, LoggingIn, LoggingOut, SavingTokens,
                                      DroppingTokens, LoginAbandoned, Exchanging, Writing
    <3> QED
      BY <2>1, <3>1, <3>2
  <2> QED
    BY <1>8, <1>a, <2>2, <2>4, OneExchange DEF Step, Client
<1>9. ASSUME NEW k \in Tasks, WriteRefresh(k) PROVE CalmInv'
  <2>1. Calm /\ Exchanging(k) /\ task[k].pc \in {"saveRefresh", "dropRefresh"}
    BY <1>9 DEF WriteRefresh, Calm, Exchanging, Writing
  <2>2. Phase(k) /\ \A j \in Tasks \ {k} : ~Exchanging(j)
    BY <1>b, <2>1
  <2>3. /\ task'[k] = AfterWrite(k) /\ disk' = [disk EXCEPT !.refresh = task[k].pair]
        /\ UNCHANGED <<memory, live, signedIn, server>>
    BY <1>0, <1>9 DEF WriteRefresh, tokens
  <2>4. CASE task[k].pc = "saveRefresh"
    <3>1. SavingTokens(k)
      BY <2>2, <2>4 DEF Phase, Refreshing, LoggingIn, LoggingOut, DroppingTokens, LoginAbandoned
    <3>2. server[k].pc = "idle"
      BY <1>0, <2>4 DEF Serves
    <3>3. task'[k].pc \in {"idle", "call"}
      BY <2>3 DEF AfterWrite
    <3>4. disk' = memory /\ memory.access = memory.refresh /\ memory.refresh \in live
      BY <1>0, <2>3, <2>4, <3>1 DEF SavingTokens, Tokens, Store
    <3>5. Settled' /\ ~Exchanging(k)'
      BY <2>3, <3>1, <3>2, <3>3, <3>4 DEF Settled, SavingTokens, Exchanging, Waiting, Writing
    <3> QED
      BY <1>9, <1>a, <2>2, <3>5, OneExchange DEF Step, Client
  <2>5. CASE task[k].pc = "dropRefresh"
    <3>1. DroppingTokens(k)
      BY <2>2, <2>5 DEF Phase, Refreshing, LoggingIn, LoggingOut, SavingTokens, LoginAbandoned
    <3>2. task[k].pair = None /\ ~task[k].resend
      BY <1>0, <2>5 DEF Serves
    <3>3. task'[k].pc = "idle"
      BY <2>3, <3>2 DEF AfterWrite
    <3>4. disk' = memory /\ memory = Nothing
      BY <1>0, <2>3, <2>5, <3>1, <3>2 DEF DroppingTokens, Nothing, Store
    <3>5. Settled' /\ Phase(k)'
      BY <2>3, <3>1, <3>3, <3>4 DEF Settled, DroppingTokens, Phase, LoginAbandoned
    <3> QED
      BY <1>9, <1>a, <2>2, <3>5, OneExchange DEF Step, Client
  <2> QED
    BY <2>1, <2>4, <2>5
\* The server.
<1>10. ASSUME NEW k \in Tasks, Validate(k) PROVE CalmInv'
  <2>1. Calm /\ Exchanging(k) /\ server[k].pc = "refresh"
    BY <1>10 DEF Validate, Calm, Exchanging
  <2>2. Phase(k) /\ \A j \in Tasks \ {k} : ~Exchanging(j)
    BY <1>b, <2>1
  <2>3. /\ server'[k] = IF server[k].token \in live
                        THEN [pc |-> "rotate", token |-> server[k].token]
                        ELSE [pc |-> "error", token |-> None]
        /\ UNCHANGED <<memory, disk, live, signedIn, task>>
    BY <1>0, <1>10 DEF Validate, Serve, tokens
  <2>4. Settled' <=> Settled
    BY <2>3 DEF Settled
  <2>5. server'[k].pc # "idle"
    BY <2>3
  <2>6. Phase(k)'
    <3>1. CASE Refreshing(k)
      <4>1. Settled /\ server[k].token = memory.refresh /\ memory.refresh \in live
        BY <2>1, <3>1 DEF Refreshing, Settled
      <4>2. server'[k].pc = "rotate" /\ server'[k].token = memory.refresh
        BY <2>3, <4>1
      <4> QED
        BY <2>3, <2>4, <3>1, <4>1, <4>2 DEF Phase, Refreshing
    <3>2. ~LoggingOut(k)
      BY <1>0, <2>1 DEF LoggingOut, Serves
    <3> QED
      BY <2>2, <2>3, <2>4, <3>1, <3>2 DEF Phase, LoggingIn, SavingTokens, DroppingTokens,
                                          LoginAbandoned, Tokens
  <2> QED
    BY <1>10, <1>a, <2>2, <2>5, <2>6, OneExchange DEF Step, Exchanging
<1>11. ASSUME NEW k \in Tasks, ServerFails(k) PROVE CalmInv'
  <2>1. Calm /\ Exchanging(k) /\ server[k].pc = "login"
    BY <1>11 DEF ServerFails, Calm, Exchanging
  <2>2. Phase(k) /\ \A j \in Tasks \ {k} : ~Exchanging(j)
    BY <1>b, <2>1
  <2>3. server'[k].pc = "error" /\ UNCHANGED <<memory, disk, live, signedIn, task>>
    BY <1>0, <1>11 DEF ServerFails, Serve, tokens
  <2>4. Settled' <=> Settled
    BY <2>3 DEF Settled
  <2>5. ~Refreshing(k) /\ ~LoggingOut(k)
    BY <1>0, <2>1 DEF Refreshing, LoggingOut, Serves
  <2>6. Phase(k)' /\ Exchanging(k)'
    BY <2>2, <2>3, <2>4, <2>5 DEF Phase, LoggingIn, SavingTokens, DroppingTokens,
                                  LoginAbandoned, Tokens, Exchanging
  <2> QED
    BY <1>11, <1>a, <2>2, <2>6, OneExchange DEF Step
<1>12. ASSUME NEW k \in Tasks, Discard(k) PROVE CalmInv'
  <2>1. Calm /\ Exchanging(k) /\ task[k].pc \notin Waiting
    BY <1>12 DEF Discard, Calm, Exchanging
  <2>2. Phase(k) /\ \A j \in Tasks \ {k} : ~Exchanging(j)
    BY <1>b, <2>1
  <2>3. UNCHANGED <<memory, disk, live, signedIn, task>>
    BY <1>12 DEF Discard, tokens
  <2>4. Settled' <=> Settled
    BY <2>3 DEF Settled
  <2>5. Phase(k)'
    BY <2>1, <2>2, <2>3, <2>4 DEF Phase, Refreshing, LoggingIn, LoggingOut, SavingTokens,
                                  DroppingTokens, LoginAbandoned, Tokens, Waiting
  <2>6. ~Exchanging(k)' => Settled'
    <3>1. ~Exchanging(k)' => LoginAbandoned(k)
      BY <2>1, <2>2, <2>3 DEF Phase, Refreshing, LoggingIn, LoggingOut, SavingTokens,
                              DroppingTokens, Exchanging, Waiting, Writing
    <3> QED
      BY <2>4, <3>1 DEF LoginAbandoned
  <2> QED
    BY <1>12, <1>a, <2>2, <2>5, <2>6, OneExchange DEF Step
<1>13. ASSUME NEW k \in Tasks, Revoke(k) PROVE CalmInv'
  <2>1. Calm /\ Exchanging(k) /\ server[k].pc \in {"rotate", "logout"}
    BY <1>13 DEF Revoke, Calm, Exchanging
  <2>2. Phase(k) /\ \A j \in Tasks \ {k} : ~Exchanging(j)
    BY <1>b, <2>1
  <2>3. PICK h \in Handler :
            /\ Becomes(k, task[k], h)
            /\ \/ server[k].pc = "rotate" /\ h.pc = "store"
               \/ server[k].pc = "logout" /\ h.pc = "ok"
    BY <1>13, RevokeDoes
  <2>4. /\ UNCHANGED <<memory, disk, signedIn, task>> /\ server'[k] = h
        /\ \A j \in Tasks \ {k} : task'[j] = task[j] /\ server'[j] = server[j]
    BY <1>13, <2>3, RevokeDoes DEF Becomes
  <2>5. Phase(k)'
    <3>1. CASE Refreshing(k)
      <4>1. server'[k].pc = "store"
        BY <1>0, <2>3, <2>4, <3>1 DEF Refreshing
      <4> QED
        BY <2>4, <3>1, <4>1 DEF Phase, Refreshing
    <3>2. CASE LoggingOut(k)
      BY <2>3, <2>4, <3>2 DEF Phase, LoggingOut
    <3>3. ~LoggingIn(k) /\ ~SavingTokens(k)
      BY <1>0, <2>1 DEF LoggingIn, SavingTokens, Serves
    <3>4. CASE DroppingTokens(k)
      BY <2>4, <3>4 DEF Phase, DroppingTokens
    <3>5. CASE LoginAbandoned(k)
      BY <2>4, <3>5 DEF Phase, LoginAbandoned, Settled
    <3> QED
      BY <2>2, <3>1, <3>2, <3>3, <3>4, <3>5 DEF Phase
  <2>6. Exchanging(k)'
    BY <2>3, <2>4 DEF Exchanging
  <2> QED
    BY <2>2, <2>4, <2>5, <2>6, OneExchange
<1>14. ASSUME NEW k \in Tasks, Issue(k) PROVE CalmInv'
  <2>1. Calm /\ Exchanging(k) /\ server[k].pc \in {"store", "login"}
    BY <1>14 DEF Issue, Calm, Exchanging
  <2>2. Phase(k) /\ \A j \in Tasks \ {k} : ~Exchanging(j)
    BY <1>b, <2>1
  <2>3. PICK p \in Pairs \ Issued, h \in Handler :
            /\ Becomes(k, task[k], h) /\ h.pc = "ok" /\ h.token = p
            /\ live' = live \cup {p}
            /\ UNCHANGED <<memory, disk, task, expired, history>>
    BY <1>14, IssueDoes
  <2>4. /\ server'[k] = h
        /\ \A j \in Tasks \ {k} : task'[j] = task[j] /\ server'[j] = server[j]
    BY <2>3 DEF Becomes
  <2>5. Phase(k)'
    <3>1. CASE Refreshing(k)
      BY <2>3, <2>4, <3>1 DEF Phase, Refreshing
    <3>2. CASE LoggingIn(k)
      BY <2>3, <3>2 DEF Phase, LoggingIn, Settled
    <3>3. ~LoggingOut(k) /\ ~SavingTokens(k)
      BY <1>0, <2>1 DEF LoggingOut, SavingTokens, Serves
    <3>4. CASE DroppingTokens(k)
      BY <2>3, <3>4 DEF Phase, DroppingTokens
    <3>5. CASE LoginAbandoned(k)
      BY <2>3, <3>5 DEF Phase, LoginAbandoned, Settled
    <3> QED
      BY <2>2, <3>1, <3>2, <3>3, <3>4, <3>5 DEF Phase
  <2>6. Exchanging(k)'
    BY <2>3, <2>4 DEF Exchanging
  <2> QED
    BY <2>2, <2>4, <2>5, <2>6, OneExchange
\* Time, and the death of the app.
<1>15. CASE Expire
  BY <1>15, NoExchange DEF Expire, Calm
<1>16. CASE Kill
  <2>1. /\ \A k \in Tasks : task'[k] = Idle
        /\ memory' = disk /\ UNCHANGED <<disk, server, tokens, signedIn, overlapped>>
        /\ Calm /\ Quiet
    <3>1. faulty' = (faulty \/ ~Quiet) /\ overlapped' = overlapped
      BY <1>16, KillDoes
    <3>2. ~overlapped' /\ ~faulty'
      BY DEF Calm
    <3>3. ~overlapped /\ ~faulty /\ Quiet
      BY <3>1, <3>2, Zenon
    <3> QED
      BY <1>16, <3>3, KillDoes DEF Calm
  <2>2. Settled
    BY <2>1 DEF CalmInv
  <2>3. Settled'
    BY <2>1, <2>2 DEF Settled, tokens
  <2>4. \A k \in Tasks : ~Exchanging(k)'
    BY <2>1 DEF Quiet, Exchanging, Waiting, Writing
  <2> QED
    BY <2>3, <2>4 DEF CalmInv
<1>17. CASE UNCHANGED vars
  BY <1>17, NoExchange DEF vars, tokens, Calm
<1> QED
  BY <1>1, <1>2, <1>3, <1>4, <1>5, <1>6, <1>7, <1>8, <1>9, <1>10, <1>11, <1>12, <1>13, <1>14,
     <1>15, <1>16, <1>17, StepCases DEF Step, Client, User

-----------------------------------------------------------------------------
(***************************************************************************)
(* The theorems.                                                           *)
(***************************************************************************)
LEMMA InitHolds == Init => SessionInv
<1> SUFFICES ASSUME Init PROVE SessionInv
  OBVIOUS
<1> USE Pieces
<1>1. /\ memory = Nothing /\ disk = Nothing /\ live = {} /\ expired = {} /\ Issued = {}
      /\ task \in [Tasks -> Task] /\ server \in [Tasks -> Handler]
      /\ \A k \in Tasks : task[k] = Idle /\ server[k] = NoCall
      /\ ~signedIn /\ ~overlapped /\ ~faulty
      /\ family \in [Issued -> Issued]
  BY DEF Init, Issued
<1>2. TypeInv
  BY <1>1 DEF TypeInv, TypeOK, Serves, Known, history, Init
<1>3. FreshInv
  BY <1>1 DEF FreshInv
<1>4. Settled /\ \A k \in Tasks : ~Exchanging(k)
  BY <1>1 DEF Settled, Exchanging, Waiting, Writing
<1> QED
  BY <1>2, <1>3, <1>4 DEF SessionInv, CalmInv

\* The inductive invariant: whatever the tasks, the server and the user do,
\* every pair in use was issued, a login that is answered brings a pair of its
\* own, and an exchange that nothing overlaps has got as far as its phase says.
THEOREM SessionInvariant == Spec => []SessionInv
<1>1. SessionInv /\ [Next]_vars => SessionInv'
  BY TypeStep, FreshStep, CalmStep DEF SessionInv
<1> QED
  BY InitHolds, <1>1, PTL DEF Spec

\* Every field holds a value of its type; a task that saves tokens has a pair
\* to save, since ApiClient never takes an answer without one for a success.
THEOREM MobileTypeCorrect == Spec => []TypeOK
<1>1. SessionInv => TypeOK
  BY DEF SessionInv, TypeInv
<1> QED
  BY <1>1, SessionInvariant, PTL

\* However many calls there are, if exchanges of tokens do not overlap and
\* none is cut short, a user who has logged in has a refresh token that the
\* server accepts: the rotation of Refresh and the order of setTokens leave
\* no gap.
THEOREM SessionsSurvive == Spec => []SessionSurvives
<1>1. SessionInv => SessionSurvives
  BY DEF SessionInv, CalmInv, Calm, Settled, SessionSurvives
<1> QED
  BY <1>1, SessionInvariant, PTL

\* Under the same conditions SharedPreferences and memory hold the same pair
\* when setTokens or clear is over.
THEOREM DiskIsMemory == Spec => []DiskFollowsMemory
<1>1. SessionInv => DiskFollowsMemory
  BY DEF SessionInv, CalmInv, Calm, Settled, DiskFollowsMemory
<1> QED
  BY <1>1, SessionInvariant, PTL

\* Under the same conditions no late answer, abandoned login or restart brings
\* a token back after a logout.
THEOREM LogoutsAreFinal == Spec => []LogoutIsFinal
<1>1. SessionInv => LogoutIsFinal
  BY DEF SessionInv, CalmInv, Calm, Settled, LogoutIsFinal
<1> QED
  BY <1>1, SessionInvariant, PTL

\* A refresh that the server refuses, and with it the loss of the session, takes
\* an exchange that overlapped with another one, or failed, since the login.
THEOREM RefusalsNeedOverlap == Spec => RefusalNeedsOverlap
<1>1. SessionInv => \A k \in Tasks : RefreshFails(k) => overlapped \/ faulty
  BY NoRefusal DEF SessionInv, Calm
<1> QED
  BY <1>1, SessionInvariant, PTL DEF RefusalNeedsOverlap
=============================================================================
