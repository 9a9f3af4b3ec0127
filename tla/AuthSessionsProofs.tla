------------------------- MODULE AuthSessionsProofs -------------------------
(***************************************************************************)
(* Proofs about AuthSessions, for every number of users, families, tokens  *)
(* and concurrent handlers, every lifetime and every bound on the clock.   *)
(*                                                                         *)
(* The tables alone are not inductive: what a handler holds between two    *)
(* statements matters.  HandlersOK says what that is, and each safety      *)
(* property has a counterpart about the handlers on their way to it.       *)
(***************************************************************************)
EXTENDS AuthSessions, TLAPS

\* The handlers that have parsed a token or checked a password.
Working == {"validate", "rotate", "issue", "store", "revoke"}

\* What a handler holds at each step.
HandlerOK(c) ==
    /\ c.pc \in Working => c.user \in UserIds /\ c.family \in Families
    /\ c.pc \in {"idle", "reply"} => c.family = None /\ c.old = None
    /\ c.pc \in {"validate", "rotate", "revoke"} => c.old \in Stored
    /\ c.pc \in {"issue", "store"} => c.old \in Stored \cup {None}
    /\ c.pc = "store" => c.new \in Issued \ Stored
    /\ c.pc = "reply" => c.new \in Stored \cup {None}
    /\ c.pc \notin {"store", "reply"} => c.new = None

\* A token that is signed and not yet stored belongs to one handler.
HandlersOK ==
    /\ \A h \in Handlers : HandlerOK(call[h])
    /\ \A g, h \in Handlers :
           call[g].pc = "store" /\ call[h].pc = "store" /\ call[g].new = call[h].new
               => g = h

TypeInv == TypeOK /\ HandlersOK

LEMMA InitType == Init => TypeInv
<1> SUFFICES ASSUME Init PROVE TypeInv
  OBVIOUS
<1> USE DEF Init
<1>1. Stored = {} /\ Issued = {}
  BY DEF Stored, Issued
<1>2. row \in [Stored -> TokenRow] /\ jwt \in [Issued -> Claims]
  BY <1>1
<1>3. call \in [Handlers -> Call]
  BY DEF Call, Idle, Steps, Codes
<1>4. origin \in [Tokens -> Origin]
  BY DEF Origin
<1>5. HandlersOK
  BY <1>1 DEF HandlersOK, HandlerOK, Idle, Working
<1>6. now \in 0 .. MaxTime
  BY TimeAssumption
<1> QED
  BY <1>1, <1>2, <1>3, <1>4, <1>5, <1>6 DEF TypeInv, TypeOK

\* A step of one handler leaves the others as they are; HandlersOK then
\* depends on what the step does to that handler, provided that it does not
\* store a token another handler has signed.
LEMMA OneHandlerMoves ==
  ASSUME TypeInv, NEW h \in Handlers,
         \A g \in Handlers \ {h} : call'[g] = call[g],
         Stored \subseteq Stored', Issued \subseteq Issued',
         \A g \in Handlers \ {h} : call[g].pc = "store" => call[g].new \notin Stored',
         HandlerOK(call[h])',
         call'[h].pc = "store" =>
             \A g \in Handlers \ {h} :
                 call[g].pc = "store" => call[g].new # call'[h].new
  PROVE  HandlersOK'
<1>1. ASSUME NEW g \in Handlers PROVE HandlerOK(call[g])'
  BY DEF TypeInv, HandlersOK, HandlerOK
<1>2. ASSUME NEW g \in Handlers, NEW k \in Handlers, call'[g].pc = "store",
             call'[k].pc = "store", call'[g].new = call'[k].new
      PROVE  g = k
  BY <1>2 DEF TypeInv, HandlersOK
<1> QED
  BY <1>1, <1>2 DEF HandlersOK

\* What a handler looks like when it has answered.
Answered(h, t) ==
    /\ call' \in [Handlers -> Call]
    /\ call'[h].pc = "reply" /\ call'[h].new = t
    /\ call'[h].family = None /\ call'[h].old = None
    /\ \A g \in Handlers \ {h} : call'[g] = call[g]

LEMMA AnswerType ==
  ASSUME TypeInv, NEW h \in Handlers, NEW code \in Codes, NEW t \in Tokens \cup {None},
         Answer(h, code, t)
  PROVE  Answered(h, t)
<1>1. [Idle EXCEPT !.pc = "reply", !.code = code, !.new = t] \in Call
  BY DEF Idle, Call, Steps, Codes
<1>2. call \in [Handlers -> Call]
  BY DEF TypeInv, TypeOK
<1> QED
  BY <1>1, <1>2 DEF Answer, Answered, Idle

\* An answer with no token, or with a stored one, keeps the handlers right.
LEMMA AnswerHandlers ==
  ASSUME TypeInv, NEW h \in Handlers, NEW t, Answered(h, t), t \in Stored' \cup {None},
         Stored \subseteq Stored', Issued \subseteq Issued',
         \A g \in Handlers \ {h} : call[g].pc = "store" => call[g].new \notin Stored'
  PROVE  HandlersOK'
<1>1. HandlerOK(call[h])'
  BY DEF Answered, HandlerOK, Working
<1> QED
  BY <1>1, OneHandlerMoves DEF Answered

\* The common case: a refusal that leaves the tables alone.
LEMMA Refusal ==
  ASSUME TypeInv, NEW h \in Handlers, NEW code \in Codes, Answer(h, code, None),
         Stored' = Stored, Issued' = Issued
  PROVE  Answered(h, None) /\ HandlersOK'
<1>1. Answered(h, None)
  BY AnswerType
<1>2. \A g \in Handlers : call[g].pc = "store" => call[g].new \notin Stored
  BY DEF TypeInv, HandlersOK, HandlerOK
<1> QED
  BY <1>1, <1>2, AnswerHandlers

\* A handler that has not signed a token moves to a step before the signing.
LEMMA Advance ==
  ASSUME TypeInv, NEW h \in Handlers, NEW c \in Call, call' = [call EXCEPT ![h] = c],
         c.pc \notin {"store", "reply"}, HandlerOK(c), Stored' = Stored, Issued' = Issued
  PROVE  call' \in [Handlers -> Call] /\ HandlersOK'
<1>1. /\ call' \in [Handlers -> Call]
      /\ call'[h] = c
      /\ \A g \in Handlers \ {h} : call'[g] = call[g]
  BY DEF TypeInv, TypeOK
<1>2. HandlerOK(call[h])'
  BY <1>1 DEF HandlerOK
<1>3. \A g \in Handlers : call[g].pc = "store" => call[g].new \notin Stored
  BY DEF TypeInv, HandlersOK, HandlerOK
<1> QED
  BY <1>1, <1>2, <1>3, OneHandlerMoves

-----------------------------------------------------------------------------
\* The handler moves to another step of the same work.
Keeps(h, step) ==
    /\ call'[h].pc = step
    /\ call'[h].user = call[h].user /\ call'[h].family = call[h].family
    /\ call'[h].old = call[h].old /\ call'[h].before = call[h].before
    /\ \A g \in Handlers \ {h} : call'[g] = call[g]

LEMMA GotoKeeps ==
  ASSUME TypeInv, NEW h \in Handlers, NEW step, Goto(h, step)
  PROVE  Keeps(h, step)
<1>1. call \in [Handlers -> Call] /\ call[h] \in Call
  BY DEF TypeInv, TypeOK
<1>2. call'[h] = [call[h] EXCEPT !.pc = step]
  BY <1>1 DEF Goto
<1> QED
  BY <1>1, <1>2 DEF Goto, Keeps, Call

\* UPDATE ... SET revoked_at keeps the rows typed, and revokes the family.
LEMMA RevokeType ==
  ASSUME TypeInv, NEW f \in Families, row' = WithRevoked(f)
  PROVE  /\ Stored' = Stored
         /\ row' \in [Stored' -> TokenRow]
         /\ \A t \in Stored :
                /\ row'[t].user = row[t].user
                /\ row'[t].family = row[t].family
                /\ row'[t].expires = row[t].expires
                /\ row[t].revoked => row'[t].revoked
                /\ row[t].family = f => row'[t].revoked
                /\ row[t].family # f => row'[t] = row[t]
<1>1. Stored' = Stored
  BY DEF Stored, WithRevoked
<1>2. \A t \in Stored : row[t] \in TokenRow
  BY DEF TypeInv, TypeOK
<1>3. ASSUME NEW t \in Stored
      PROVE  row'[t] = IF row[t].family = f THEN [row[t] EXCEPT !.revoked = TRUE] ELSE row[t]
  BY DEF WithRevoked
<1>4. ASSUME NEW t \in Stored PROVE row'[t] \in TokenRow
  BY <1>2, <1>3 DEF TokenRow
<1>5. row' \in [Stored' -> TokenRow]
  BY <1>1, <1>4 DEF WithRevoked
<1> QED
  BY <1>1, <1>2, <1>3, <1>5 DEF TokenRow

\* INSERT INTO refresh_tokens adds one live row.
LEMMA StoreType ==
  ASSUME TypeInv, NEW h \in Handlers, StoreRefreshToken(h)
  PROVE  /\ call[h].new \in Issued \ Stored
         /\ Stored' = Stored \cup {call[h].new}
         /\ row' \in [Stored' -> TokenRow]
         /\ \A t \in Stored : row'[t] = row[t]
         /\ row'[call[h].new].user = call[h].user
         /\ row'[call[h].new].family = call[h].family
         /\ row'[call[h].new].expires = now + RefreshTTL
         /\ ~row'[call[h].new].revoked
<1>1. /\ call[h].new \in Issued \ Stored
      /\ call[h].user \in UserIds
      /\ call[h].family \in Families
  BY DEF TypeInv, HandlersOK, HandlerOK, Working, StoreRefreshToken
<1>2. now + RefreshTTL \in Nat
  BY TimeAssumption DEF TypeInv, TypeOK
<1>3. Stored' = Stored \cup {call[h].new}
  BY DEF Stored, StoreRefreshToken
<1>4. row' \in [Stored' -> TokenRow]
  BY <1>1, <1>2, <1>3 DEF TypeInv, TypeOK, TokenRow, StoreRefreshToken
<1> QED
  BY <1>1, <1>3, <1>4 DEF StoreRefreshToken

-----------------------------------------------------------------------------
\* Every step keeps the values of the tables and of the handlers well formed.
LEMMA NextType == TypeInv /\ [Next]_vars => TypeInv'
<1> SUFFICES ASSUME TypeInv, [Next]_vars PROVE TypeInv'
  OBVIOUS
<1> USE NoneAssumption, TimeAssumption DEF tables, history
<1>1. ASSUME NEW h \in Handlers, RejectEmpty(h) \/ RejectNotReady(h) PROVE TypeInv'
  <2>1. PICK code \in Codes : Answer(h, code, None)
    BY <1>1 DEF RejectEmpty, RejectNotReady, Codes
  <2>2. UNCHANGED <<users, row, dbReady, now, jwt, wallet, history>>
    BY <1>1 DEF RejectEmpty, RejectNotReady
  <2>3. Stored' = Stored /\ Issued' = Issued
    BY <2>2 DEF Stored, Issued
  <2>4. Answered(h, None) /\ HandlersOK'
    BY <2>1, <2>3, Refusal
  <2> QED
    BY <2>2, <2>3, <2>4 DEF TypeInv, TypeOK, Answered
<1>2. ASSUME NEW h \in Handlers, NEW n \in Usernames, NEW p \in Phones,
             NEW w \in Passwords, Register(h, n, p, w)
      PROVE  TypeInv'
  <2>1. PICK code \in Codes : Answer(h, code, None)
    BY <1>2 DEF Register, RegisterRefused, RegisterCreates, RegisterFails, Codes
  <2>2. UNCHANGED <<row, dbReady, now, jwt, wallet, history>>
    BY <1>2 DEF Register
  <2>3. Stored' = Stored /\ Issued' = Issued
    BY <2>2 DEF Stored, Issued
  <2>4. Answered(h, None) /\ HandlersOK'
    BY <2>1, <2>3, Refusal
  <2>5. DOMAIN users' \subseteq UserIds /\ users' \in [DOMAIN users' -> UserRow]
    <3>1. CASE UNCHANGED users
      BY <3>1 DEF TypeInv, TypeOK
    <3>2. CASE RegisterCreates(h, n, p, w)
      BY <3>2 DEF RegisterCreates, TypeInv, TypeOK, UserRow
    <3> QED
      BY <1>2, <3>1, <3>2 DEF Register, RegisterRefused, RegisterFails
  <2> QED
    BY <2>2, <2>3, <2>4, <2>5 DEF TypeInv, TypeOK, Answered
<1>3. ASSUME NEW h \in Handlers, NEW n \in Usernames, NEW w \in Passwords, Login(h, n, w)
      PROVE  TypeInv'
  <2>1. UNCHANGED <<users, row, dbReady, now, jwt, wallet, history>>
    BY <1>3 DEF Login
  <2>2. Stored' = Stored /\ Issued' = Issued
    BY <2>1 DEF Stored, Issued
  <2>3. call' \in [Handlers -> Call] /\ HandlersOK'
    <3>1. CASE \E code \in Codes : Answer(h, code, None)
      BY <2>2, <3>1, Refusal DEF Answered
    <3>2. ASSUME NEW u \in Credentials(n, w), NEW f \in Families,
                 call' = [call EXCEPT ![h] =
                             [Idle EXCEPT !.pc = "issue", !.user = u, !.family = f]]
          PROVE  call' \in [Handlers -> Call] /\ HandlersOK'
      <4> DEFINE c == [Idle EXCEPT !.pc = "issue", !.user = u, !.family = f]
      <4>1. u \in UserIds
        BY DEF Credentials, TypeInv, TypeOK
      <4>2. c \in Call /\ c.pc = "issue" /\ HandlerOK(c)
        BY <4>1 DEF Idle, Call, Steps, Codes, HandlerOK, Working
      <4> QED
        BY <2>2, <3>2, <4>2, Advance
    <3> QED
      BY <1>3, <3>1, <3>2 DEF Login, Codes
  <2> QED
    BY <2>1, <2>2, <2>3 DEF TypeInv, TypeOK
<1>4. ASSUME NEW h \in Handlers, NEW t \in wallet \cup {None}, NEW step \in {"validate", "revoke"},
             ParseToken(h, t, step)
      PROVE  TypeInv'
  <2>1. UNCHANGED <<users, row, dbReady, now, jwt, wallet, history>>
    BY <1>4 DEF ParseToken
  <2>2. Stored' = Stored /\ Issued' = Issued
    BY <2>1 DEF Stored, Issued
  <2>3. call' \in [Handlers -> Call] /\ HandlersOK'
    <3>1. CASE Answer(h, "Unauthenticated", None)
      BY <2>2, <3>1, Refusal DEF Answered, Codes
    <3> DEFINE c == [Idle EXCEPT !.pc = step, !.user = jwt[t].user,
                                 !.family = jwt[t].family, !.old = t, !.before = Stored]
    <3>2. CASE Parses(t) /\ call' = [call EXCEPT ![h] = c]
      <4>1. t \in Stored /\ t \in Issued /\ Stored \subseteq Tokens
        BY <3>2 DEF Parses, TypeInv, TypeOK
      <4>2. jwt[t] \in Claims
        BY <4>1 DEF TypeInv, TypeOK
      <4>3. c \in Call /\ c.pc = step /\ HandlerOK(c)
        BY <4>1, <4>2 DEF Claims, Idle, Call, Steps, Codes, HandlerOK, Working
      <4> QED
        BY <2>2, <3>2, <4>3, Advance
    <3> QED
      BY <1>4, <3>1, <3>2 DEF ParseToken
  <2> QED
    BY <2>1, <2>2, <2>3 DEF TypeInv, TypeOK
<1>5. ASSUME NEW h \in Handlers, RefreshSelect(h) PROVE TypeInv'
  <2>1. UNCHANGED <<users, row, dbReady, now, jwt, wallet, history>>
    BY <1>5 DEF RefreshSelect
  <2>2. Stored' = Stored /\ Issued' = Issued
    BY <2>1 DEF Stored, Issued
  <2>3. call' \in [Handlers -> Call] /\ HandlersOK'
    <3>1. CASE Answer(h, "Unauthenticated", None)
      BY <2>2, <3>1, Refusal DEF Answered, Codes
    <3> DEFINE c == [call[h] EXCEPT !.pc = "rotate"]
    <3>2. CASE call' = [call EXCEPT ![h] = c]
      <4>1. call[h] \in Call /\ HandlerOK(call[h]) /\ call[h].pc = "validate"
        BY <1>5 DEF TypeInv, TypeOK, HandlersOK, RefreshSelect
      <4>2. c \in Call /\ c.pc = "rotate" /\ HandlerOK(c)
        BY <4>1 DEF Call, Steps, HandlerOK, Working
      <4> QED
        BY <2>2, <3>2, <4>2, Advance
    <3>3. Goto(h, "rotate") => call' = [call EXCEPT ![h] = c]
      BY DEF Goto, TypeInv, TypeOK
    <3> QED
      BY <1>5, <3>1, <3>2, <3>3 DEF RefreshSelect
  <2> QED
    BY <2>1, <2>2, <2>3 DEF TypeInv, TypeOK
<1>6. ASSUME NEW h \in Handlers, RefreshRotate(h) PROVE TypeInv'
  <2>1. UNCHANGED <<users, dbReady, now, jwt, wallet, origin, loggedOut>> /\ Issued' = Issued
    BY <1>6 DEF RefreshRotate, Issued
  <2>2. call[h] \in Call /\ HandlerOK(call[h]) /\ call[h].pc = "rotate" /\ call[h].family \in Families
    BY <1>6 DEF TypeInv, TypeOK, HandlersOK, HandlerOK, Working, RefreshRotate
  <2>3. Stored' = Stored /\ row' \in [Stored' -> TokenRow]
    BY <1>6, <2>2, RevokeType DEF RefreshRotate
  <2>4. call' \in [Handlers -> Call] /\ HandlersOK' /\ interrupted' \subseteq Families
    <3>1. CASE Goto(h, "issue") /\ UNCHANGED interrupted
      <4> DEFINE c == [call[h] EXCEPT !.pc = "issue"]
      <4>1. c \in Call /\ c.pc = "issue" /\ HandlerOK(c)
        BY <2>2 DEF Call, Steps, HandlerOK, Working
      <4>2. call' = [call EXCEPT ![h] = c]
        BY <3>1 DEF Goto, TypeInv, TypeOK
      <4>3. call' \in [Handlers -> Call] /\ HandlersOK'
        BY <2>1, <2>3, <4>1, <4>2, Advance
      <4> QED
        BY <3>1, <4>3 DEF TypeInv, TypeOK
    <3>2. CASE Answer(h, "Internal", None) /\ interrupted' = interrupted \cup {call[h].family}
      <4>1. Answered(h, None) /\ HandlersOK'
        BY <2>1, <2>3, <3>2, Refusal DEF Codes
      <4> QED
        BY <2>2, <3>2, <4>1 DEF Answered, TypeInv, TypeOK
    <3> QED
      BY <1>6, <3>1, <3>2 DEF RefreshRotate
  <2> QED
    BY <2>1, <2>3, <2>4 DEF TypeInv, TypeOK
<1>7. ASSUME NEW h \in Handlers, NEW t \in Tokens \ Issued, SignToken(h, t) PROVE TypeInv'
  <2>1. UNCHANGED <<users, row, dbReady, now, wallet, loggedOut, interrupted>>
    BY <1>7 DEF SignToken
  <2>2. call[h] \in Call /\ HandlerOK(call[h]) /\ call[h].pc = "issue"
    BY <1>7 DEF TypeInv, TypeOK, HandlersOK, SignToken
  <2>3. Issued' = Issued \cup {t} /\ Stored' = Stored /\ t \notin Stored
    BY <1>7 DEF SignToken, Issued, Stored, TypeInv, TypeOK
  <2>4. jwt' \in [Issued' -> Claims]
    <3>1. [user |-> call[h].user, family |-> call[h].family, exp |-> now + RefreshTTL] \in Claims
      BY <2>2 DEF HandlerOK, Working, Claims, TypeInv, TypeOK
    <3> QED
      BY <1>7, <2>3, <3>1 DEF SignToken, TypeInv, TypeOK
  <2>5. origin' \in [Tokens -> Origin]
    <3>1. [from |-> {call[h].old} \ {None}, before |-> call[h].before] \in Origin
      BY <2>2 DEF Origin, Call
    <3> QED
      BY <1>7, <3>1 DEF SignToken, TypeInv, TypeOK
  <2> DEFINE c == [call[h] EXCEPT !.pc = "store", !.new = t]
  <2>6. c \in Call /\ c.pc = "store" /\ c.new = t /\ c.old = call[h].old
    BY <2>2 DEF Call, Steps
  <2>7. /\ call' \in [Handlers -> Call]
        /\ call'[h] = c
        /\ \A g \in Handlers \ {h} : call'[g] = call[g]
    BY <1>7, <2>6 DEF SignToken, TypeInv, TypeOK
  <2>8. HandlersOK'
    <3>1. HandlerOK(call[h])'
      <4>1. c.user = call[h].user /\ c.family = call[h].family
        OBVIOUS
      <4>2. call'[h].new \in Issued' \ Stored'
        BY <2>3, <2>6, <2>7
      <4> HIDE DEF c
      <4> QED
        BY <2>2, <2>3, <2>6, <2>7, <4>1, <4>2 DEF HandlerOK, Working
    <3>2. \A g \in Handlers : call[g].pc = "store" => call[g].new \in Issued \ Stored
      BY DEF TypeInv, HandlersOK, HandlerOK
    <3>3. \A g \in Handlers \ {h} :
              call[g].pc = "store" => call[g].new \notin Stored' /\ call[g].new # call'[h].new
      BY <1>7, <2>3, <2>6, <2>7, <3>2
    <3> HIDE DEF c
    <3> QED
      BY <2>3, <2>7, <3>1, <3>3, OneHandlerMoves
  <2> QED
    BY <2>1, <2>3, <2>4, <2>5, <2>7, <2>8 DEF TypeInv, TypeOK
<1>8. ASSUME NEW h \in Handlers, StoreRefreshToken(h) PROVE TypeInv'
  <2>1. UNCHANGED <<users, dbReady, now, jwt, wallet, origin, loggedOut>> /\ Issued' = Issued
    BY <1>8 DEF StoreRefreshToken, Issued
  <2>2. /\ call[h].new \in Issued \ Stored
        /\ Stored' = Stored \cup {call[h].new}
        /\ row' \in [Stored' -> TokenRow]
    BY <1>8, StoreType
  <2>3. call[h].pc = "store" /\ call[h].family \in Families /\ call[h].new \in Tokens
    BY <1>8, <2>2 DEF StoreRefreshToken, TypeInv, TypeOK, HandlersOK, HandlerOK, Working
  <2>4. PICK code \in Codes, t \in {call[h].new, None} : Answer(h, code, t)
    BY <1>8 DEF StoreRefreshToken, Codes
  <2>5. Answered(h, t)
    BY <2>3, <2>4, AnswerType
  <2>6. \A g \in Handlers \ {h} : call[g].pc = "store" => call[g].new \notin Stored'
    BY <2>2, <2>3 DEF TypeInv, HandlersOK, HandlerOK
  <2>7. HandlersOK'
    BY <2>1, <2>2, <2>4, <2>5, <2>6, AnswerHandlers
  <2>8. interrupted' \subseteq Families
    BY <1>8, <2>3 DEF StoreRefreshToken, TypeInv, TypeOK
  <2> QED
    BY <2>1, <2>2, <2>5, <2>7, <2>8 DEF TypeInv, TypeOK, Answered
<1>9. ASSUME NEW h \in Handlers, LogoutRevoke(h) PROVE TypeInv'
  <2>1. UNCHANGED <<users, dbReady, now, jwt, wallet, origin>> /\ Issued' = Issued
    BY <1>9 DEF LogoutRevoke, Issued
  <2>2. call[h].family \in Families
    BY <1>9 DEF TypeInv, HandlersOK, HandlerOK, Working, LogoutRevoke
  <2>3. Stored' = Stored /\ row' \in [Stored' -> TokenRow]
    BY <1>9, <2>2, RevokeType DEF LogoutRevoke
  <2>4. PICK code \in Codes : Answer(h, code, None)
    BY <1>9 DEF LogoutRevoke, Codes
  <2>5. Answered(h, None) /\ HandlersOK'
    BY <2>1, <2>3, <2>4, Refusal
  <2>6. interrupted' \subseteq Families /\ loggedOut' \subseteq Families
    BY <1>9, <2>2 DEF LogoutRevoke, TypeInv, TypeOK
  <2> QED
    BY <2>1, <2>3, <2>5, <2>6 DEF TypeInv, TypeOK, Answered
<1>10. ASSUME NEW h \in Handlers, StatementFails(h) PROVE TypeInv'
  <2>1. UNCHANGED <<users, row, dbReady, now, jwt, wallet, origin, loggedOut>>
    BY <1>10 DEF StatementFails
  <2>2. Stored' = Stored /\ Issued' = Issued
    BY <2>1 DEF Stored, Issued
  <2>3. Answered(h, None) /\ HandlersOK'
    BY <1>10, <2>2, Refusal DEF StatementFails, Codes
  <2>4. call[h].family \in Families
    BY <1>10 DEF TypeInv, HandlersOK, HandlerOK, Working, StatementFails
  <2>5. interrupted' \subseteq Families
    BY <1>10, <2>4 DEF StatementFails, TypeInv, TypeOK
  <2> QED
    BY <2>1, <2>2, <2>3, <2>5 DEF TypeInv, TypeOK, Answered
<1>11. Idle \in Call /\ HandlerOK(Idle) /\ Idle.pc = "idle"
  BY DEF Idle, Call, Steps, Codes, HandlerOK, Working
<1>12. ASSUME NEW h \in Handlers, Respond(h) PROVE TypeInv'
  <2>1. UNCHANGED <<users, row, dbReady, now, jwt, origin, loggedOut>>
    BY <1>12 DEF Respond
  <2>2. Stored' = Stored /\ Issued' = Issued
    BY <2>1 DEF Stored, Issued
  <2>3. call' \in [Handlers -> Call] /\ HandlersOK'
    BY <1>11, <1>12, <2>2, Advance DEF Respond
  <2>4. {call[h].new} \ {None} \subseteq Stored
    BY <1>12 DEF Respond, TypeInv, HandlersOK, HandlerOK
  <2>5. \A t \in Stored : jwt[t].family \in Families
    BY DEF TypeInv, TypeOK, Claims
  <2>6. wallet' \subseteq Stored /\ interrupted' \subseteq Families
    BY <1>12, <2>4, <2>5 DEF Respond, TypeInv, TypeOK
  <2> QED
    BY <2>1, <2>2, <2>3, <2>6 DEF TypeInv, TypeOK
<1>13. CASE ConnectDB \/ Tick
  <2>1. UNCHANGED <<users, row, jwt, call, wallet, history>>
    BY <1>13 DEF ConnectDB, Tick
  <2>2. dbReady' \in BOOLEAN
    BY <1>13 DEF ConnectDB, Tick, TypeInv, TypeOK
  <2>5. now' \in 0 .. MaxTime
    <3>1. now \in 0 .. MaxTime
      BY DEF TypeInv, TypeOK
    <3>2. now' = now \/ (now < MaxTime /\ now' = now + 1)
      BY <1>13 DEF ConnectDB, Tick
    <3> QED
      BY <3>1, <3>2
  <2>3. Stored' = Stored /\ Issued' = Issued
    BY <2>1 DEF Stored, Issued
  <2>4. HandlersOK'
    BY <2>1, <2>3 DEF TypeInv, HandlersOK, HandlerOK
  <2> QED
    BY <2>1, <2>2, <2>3, <2>4, <2>5 DEF TypeInv, TypeOK
<1>14. CASE Crash
  <2>1. UNCHANGED <<users, row, now, jwt, wallet, origin, loggedOut>> /\ dbReady' = FALSE
    BY <1>14 DEF Crash
  <2>2. call' = [h \in Handlers |-> Idle]
    BY <1>14 DEF Crash
  <2>3. call' \in [Handlers -> Call] /\ HandlersOK'
    BY <1>11, <2>2 DEF HandlersOK, HandlerOK, Working
  <2>4. \A h \in Handlers : Owes(h) => call[h].family \in Families
    BY DEF Owes, TypeInv, HandlersOK, HandlerOK, Working
  <2>5. \A h \in Handlers : call[h].pc = "reply" /\ call[h].new # None
                                => jwt[call[h].new].family \in Families
    BY DEF TypeInv, TypeOK, Claims, HandlersOK, HandlerOK
  <2>6. interrupted' \subseteq Families
    BY <1>14, <2>4, <2>5 DEF Crash, TypeInv, TypeOK
  <2> QED
    BY <2>1, <2>3, <2>6 DEF TypeInv, TypeOK, Stored, Issued
<1>15. CASE UNCHANGED vars
  BY <1>15 DEF vars, TypeInv, TypeOK, HandlersOK, HandlerOK, Stored, Issued
<1> QED
  BY <1>1, <1>2, <1>3, <1>4, <1>5, <1>6, <1>7, <1>8, <1>9, <1>10, <1>12, <1>13, <1>14, <1>15
     DEF Next, Request, Statement, RefreshStart, LogoutStart, IssueTokenPair

\* Every table, claim and handler holds values of its columns and fields.
THEOREM TypeCorrect == Spec => []TypeOK
<1>1. Spec => []TypeInv
  BY InitType, NextType, PTL DEF Spec
<1> QED
  BY <1>1, PTL DEF TypeInv

-----------------------------------------------------------------------------
(***************************************************************************)
(* What a step may do to the sessions.  Four actions write the token table *)
(* or sign a token; the rest are quiet: handlers return, or one of them    *)
(* starts working for a family or finds its token valid.                   *)
(***************************************************************************)
Writes == \E h \in Handlers : \/ RefreshRotate(h)
                              \/ LogoutRevoke(h)
                              \/ IssueTokenPair(h)
                              \/ StoreRefreshToken(h)

\* The handler is done, and what it owed is accounted for.
Returned(h) ==
    /\ call'[h].pc \in {"idle", "reply"}
    /\ call'[h].family = None /\ call'[h].old = None
    /\ Owes(h) => call[h].family \in interrupted'
    /\ call[h].pc = "reply" /\ call[h].new # None =>
           call[h].new \in wallet' \/ jwt[call[h].new].family \in interrupted'

\* The handler logs a user in, has parsed a token, or has validated it.
LoggedIn(h) ==
    /\ call'[h].pc = "issue" /\ call'[h].old = None /\ call'[h].before = {}
    /\ call'[h].user \in DOMAIN users
    /\ FreshFamily(call'[h].family)

Parsed(h) ==
    /\ call'[h].pc \in {"validate", "revoke"}
    /\ call'[h].old \in Stored
    /\ call'[h].user = jwt[call'[h].old].user
    /\ call'[h].family = jwt[call'[h].old].family
    /\ call'[h].before = Stored

Validated(h) ==
    /\ call[h].pc = "validate" /\ RotationAllowed(h)
    /\ Keeps(h, "rotate")

Starts(h) ==
    /\ \/ call[h].pc = "idle" /\ (LoggedIn(h) \/ Parsed(h))
       \/ Validated(h)
    /\ \A g \in Handlers \ {h} : call'[g] = call[g]

Quiet ==
    /\ UNCHANGED <<row, jwt, origin, loggedOut>>
    /\ DOMAIN users \subseteq DOMAIN users'
    /\ wallet \subseteq wallet' /\ interrupted \subseteq interrupted'
    /\ now <= now'
    /\ \/ \A h \in Handlers : call'[h] = call[h] \/ Returned(h)
       \/ \E h \in Handlers : Starts(h)

LEMMA StepsAreQuietOrWrite == TypeInv /\ [Next]_vars => Writes \/ Quiet
<1> SUFFICES ASSUME TypeInv, [Next]_vars, ~Writes PROVE Quiet
  OBVIOUS
<1> USE DEF tables, history
<1>a. now <= now /\ (now' = now + 1 => now <= now')
  BY TimeAssumption DEF TypeInv, TypeOK
<1>b. call \in [Handlers -> Call]
  BY DEF TypeInv, TypeOK
\* An answer of a handler that neither owed a token nor carried one.
<1>1. ASSUME NEW h \in Handlers, NEW code \in Codes, Answer(h, code, None),
             Owes(h) => call[h].family \in interrupted', call[h].pc # "reply"
      PROVE  \A g \in Handlers : call'[g] = call[g] \/ Returned(g)
  <2>1. Answered(h, None)
    BY <1>1, AnswerType
  <2> QED
    BY <1>1, <2>1 DEF Answered, Returned
<1>2. ASSUME NEW h \in Handlers, Request(h) PROVE Quiet
  <2>1. /\ UNCHANGED <<row, jwt, origin, loggedOut, wallet, interrupted, now>>
        /\ DOMAIN users \subseteq DOMAIN users'
    <3>1. ASSUME NEW n \in Usernames, NEW p \in Phones, NEW w \in Passwords, Register(h, n, p, w)
          PROVE  /\ UNCHANGED <<row, jwt, origin, loggedOut, wallet, interrupted, now>>
                 /\ DOMAIN users \subseteq DOMAIN users'
      BY <3>1 DEF Register, RegisterRefused, RegisterCreates, RegisterFails
    <3> QED
      BY <1>2, <3>1 DEF Request, RejectEmpty, RejectNotReady, Login, RefreshStart, LogoutStart,
                        ParseToken
  <2>2. call[h].pc = "idle"
    BY <1>2 DEF Request, RejectEmpty, RejectNotReady, Register, Login, RefreshStart,
                LogoutStart, ParseToken
  <2>3. CASE \E code \in Codes : Answer(h, code, None)
    BY <1>1, <1>a, <2>1, <2>2, <2>3 DEF Quiet, Owes
  <2>4. ASSUME NEW n \in Usernames, NEW w \in Passwords, NEW u \in Credentials(n, w),
               NEW f \in Families, FreshFamily(f),
               call' = [call EXCEPT ![h] =
                           [Idle EXCEPT !.pc = "issue", !.user = u, !.family = f]]
        PROVE  Starts(h)
    <3>1. call'[h] = [Idle EXCEPT !.pc = "issue", !.user = u, !.family = f]
      BY <1>b, <2>4
    <3>2. /\ call'[h].pc = "issue" /\ call'[h].old = None /\ call'[h].before = {}
          /\ call'[h].user = u /\ call'[h].family = f
      BY <3>1 DEF Idle
    <3>3. FreshFamily(call'[h].family)
      BY <2>4, <3>2 DEF FreshFamily
    <3>4. LoggedIn(h)
      BY <3>2, <3>3 DEF LoggedIn, Credentials
    <3> QED
      BY <1>b, <2>2, <2>4, <3>4 DEF Starts
  <2>5. ASSUME NEW t \in wallet \cup {None}, NEW step \in {"validate", "revoke"}, Parses(t),
               call' = [call EXCEPT ![h] =
                           [Idle EXCEPT !.pc = step, !.user = jwt[t].user,
                                        !.family = jwt[t].family, !.old = t,
                                        !.before = Stored]]
        PROVE  Starts(h)
    <3>1. call'[h] = [Idle EXCEPT !.pc = step, !.user = jwt[t].user,
                                  !.family = jwt[t].family, !.old = t, !.before = Stored]
      BY <1>b, <2>5
    <3>2. t \in Stored
      BY <2>5 DEF Parses, TypeInv, TypeOK
    <3>3. Parsed(h)
      BY <3>1, <3>2 DEF Parsed, Idle
    <3> QED
      BY <1>b, <2>2, <2>5, <3>3 DEF Starts
  <2>6. (\E code \in Codes : Answer(h, code, None)) \/ Starts(h)
    <3>1. CASE RejectEmpty(h) \/ RejectNotReady(h)
      BY <3>1 DEF RejectEmpty, RejectNotReady, Codes
    <3>2. ASSUME NEW n \in Usernames, NEW p \in Phones, NEW w \in Passwords, Register(h, n, p, w)
          PROVE  \E code \in Codes : Answer(h, code, None)
      BY <3>2 DEF Register, RegisterRefused, RegisterCreates, RegisterFails, Codes
    <3>3. ASSUME NEW n \in Usernames, NEW w \in Passwords, Login(h, n, w)
          PROVE  (\E code \in Codes : Answer(h, code, None)) \/ Starts(h)
      BY <2>4, <3>3 DEF Login, Codes
    <3>4. ASSUME NEW t \in wallet \cup {None}, NEW step \in {"validate", "revoke"},
                 ParseToken(h, t, step)
          PROVE  (\E code \in Codes : Answer(h, code, None)) \/ Starts(h)
      BY <2>5, <3>4 DEF ParseToken, Codes
    <3> QED
      BY <1>2, <3>1, <3>2, <3>3, <3>4 DEF Request, RefreshStart, LogoutStart
  <2> QED
    BY <1>a, <2>1, <2>3, <2>6 DEF Quiet
<1>3. ASSUME NEW h \in Handlers, RefreshSelect(h) PROVE Quiet
  <2>1. UNCHANGED <<users, row, jwt, origin, loggedOut, wallet, interrupted, now>>
    BY <1>3 DEF RefreshSelect
  <2>2. CASE Answer(h, "Unauthenticated", None)
    <3>1. \A g \in Handlers : call'[g] = call[g] \/ Returned(g)
      BY <1>1, <1>3, <2>2 DEF RefreshSelect, Codes, Owes
    <3> QED
      BY <1>a, <2>1, <3>1 DEF Quiet
  <2>3. CASE RotationAllowed(h) /\ Goto(h, "rotate")
    <3>1. Starts(h)
      BY <1>3, <2>3, GotoKeeps DEF RefreshSelect, Starts, Validated, Keeps
    <3> QED
      BY <1>a, <2>1, <3>1 DEF Quiet
  <2> QED
    BY <1>3, <2>2, <2>3 DEF RefreshSelect
<1>4. ASSUME NEW h \in Handlers, StatementFails(h) PROVE Quiet
  <2>1. UNCHANGED <<users, row, jwt, origin, loggedOut, wallet, now>>
    BY <1>4 DEF StatementFails
  <2>2. \A g \in Handlers : call'[g] = call[g] \/ Returned(g)
    BY <1>1, <1>4 DEF StatementFails, Codes
  <2> QED
    BY <1>4, <1>a, <2>1, <2>2 DEF Quiet, StatementFails
<1>5. ASSUME NEW h \in Handlers, Respond(h) PROVE Quiet
  <2>1. UNCHANGED <<users, row, jwt, origin, loggedOut, now>>
    BY <1>5 DEF Respond
  <2>2. wallet \subseteq wallet' /\ interrupted \subseteq interrupted'
    BY <1>5 DEF Respond
  <2>3. call'[h] = Idle /\ \A g \in Handlers \ {h} : call'[g] = call[g]
    BY <1>5, <1>b DEF Respond
  <2>4. Returned(h)
    BY <1>5, <2>3 DEF Respond, Returned, Idle, Owes
  <2> QED
    BY <1>a, <2>1, <2>2, <2>3, <2>4 DEF Quiet
<1>6. CASE Crash
  <2>1. UNCHANGED <<users, row, jwt, origin, loggedOut, wallet, now>>
    BY <1>6 DEF Crash
  <2>2. ASSUME NEW h \in Handlers PROVE Returned(h)
    <3>1. call'[h] = Idle
      BY <1>6 DEF Crash
    <3>2. Owes(h) => call[h].family \in interrupted'
      BY <1>6 DEF Crash
    <3>3. call[h].pc = "reply" /\ call[h].new # None =>
              jwt[call[h].new].family \in interrupted'
      BY <1>6 DEF Crash
    <3> QED
      BY <3>1, <3>2, <3>3 DEF Returned, Idle
  <2> QED
    BY <1>6, <1>a, <2>1, <2>2 DEF Quiet, Crash
<1>7. CASE ConnectDB \/ Tick \/ UNCHANGED vars
  BY <1>7, <1>a DEF ConnectDB, Tick, vars, Quiet
<1> QED
  BY <1>2, <1>3, <1>4, <1>5, <1>6, <1>7 DEF Next, Statement, Writes

-----------------------------------------------------------------------------
(***************************************************************************)
(* One family, one user.  Tokens are signed before they are stored and     *)
(* handlers copy the user from the claims, so the invariant speaks of the  *)
(* claims and of the handlers, and of a family at login being fresh in     *)
(* both.                                                                   *)
(***************************************************************************)
OwnersAgree ==
    /\ \A a, b \in Issued : jwt[a].family = jwt[b].family => jwt[a].user = jwt[b].user
    /\ \A h \in Handlers, t \in Issued :
           call[h].family = jwt[t].family => call[h].user = jwt[t].user
    /\ \A g, h \in Handlers :
           call[g].family = call[h].family /\ call[g].family # None
               => call[g].user = call[h].user
    /\ \A t \in Issued : jwt[t].user \in DOMAIN users
    /\ \A h \in Handlers : call[h].pc \in Working => call[h].user \in DOMAIN users

RowsMatchClaims ==
    /\ \A t \in Stored : row[t].user = jwt[t].user /\ row[t].family = jwt[t].family
    /\ \A h \in Handlers : call[h].pc = "store" =>
           /\ jwt[call[h].new].user = call[h].user
           /\ jwt[call[h].new].family = call[h].family
    /\ \A h \in Handlers : call[h].pc \in {"validate", "rotate", "revoke"} =>
           /\ call[h].user = jwt[call[h].old].user
           /\ call[h].family = jwt[call[h].old].family
    /\ \A h \in Handlers : call[h].pc \in {"issue", "store"} /\ call[h].old # None =>
           call[h].family = jwt[call[h].old].family

SessionInv == OwnersAgree /\ RowsMatchClaims

LEMMA InitSession == Init => SessionInv
  BY DEF Init, SessionInv, OwnersAgree, RowsMatchClaims, Issued, Stored, Idle, Working

\* The effect of an answer on a handler, as the lemmas below use it.
LEMMA Answering ==
  ASSUME TypeInv, NEW h \in Handlers, NEW code \in Codes, NEW t \in {call[h].new, None},
         Answer(h, code, t)
  PROVE  Answered(h, t)
<1>1. call[h].new \in Tokens \cup {None}
  BY DEF TypeInv, TypeOK, Call
<1> QED
  BY <1>1, AnswerType

\* The effect of the UPDATE of a rotation or a logout.
LEMMA Revoking ==
  ASSUME TypeInv, NEW h \in Handlers, RefreshRotate(h) \/ LogoutRevoke(h)
  PROVE  /\ call[h].family \in Families
         /\ call[h].pc \in {"rotate", "revoke"}
         /\ row' = WithRevoked(call[h].family)
         /\ UNCHANGED <<users, jwt, origin, wallet, now>>
         /\ Stored' = Stored /\ Issued' = Issued
         /\ \A g \in Handlers \ {h} : call'[g] = call[g]
         /\ \/ /\ RefreshRotate(h) /\ Keeps(h, "issue")
               /\ UNCHANGED <<loggedOut, interrupted>>
            \/ /\ Answered(h, None)
               /\ loggedOut' \cup interrupted' = loggedOut \cup interrupted \cup {call[h].family}
<1>1. call[h].family \in Families /\ call[h].pc \in {"rotate", "revoke"}
  BY DEF TypeInv, HandlersOK, HandlerOK, Working, RefreshRotate, LogoutRevoke
<1>2. row' = WithRevoked(call[h].family)
  BY DEF RefreshRotate, LogoutRevoke
<1>3. UNCHANGED <<users, jwt, origin, wallet, now>> /\ Issued' = Issued
  BY DEF RefreshRotate, LogoutRevoke, Issued
<1>4. Stored' = Stored
  BY <1>1, <1>2, RevokeType
<1>5. CASE RefreshRotate(h) /\ Goto(h, "issue") /\ UNCHANGED interrupted
  <2>1. Keeps(h, "issue")
    BY <1>5, GotoKeeps
  <2> QED
    BY <1>1, <1>2, <1>3, <1>4, <1>5, <2>1 DEF RefreshRotate, Keeps
<1>6. CASE /\ \E code \in Codes : Answer(h, code, None)
           /\ loggedOut' \cup interrupted' = loggedOut \cup interrupted \cup {call[h].family}
  <2>1. Answered(h, None)
    BY <1>6, Answering
  <2> QED
    BY <1>1, <1>2, <1>3, <1>4, <1>6, <2>1 DEF Answered
<1> QED
  BY <1>5, <1>6 DEF RefreshRotate, LogoutRevoke, Codes

\* The effect of signing a token.
LEMMA Signing ==
  ASSUME TypeInv, NEW h \in Handlers, NEW t \in Tokens \ Issued, SignToken(h, t)
  PROVE  /\ call[h].pc = "issue"
         /\ t \notin Stored
         /\ UNCHANGED <<users, row, wallet, loggedOut, interrupted, now>>
         /\ Stored' = Stored /\ Issued' = Issued \cup {t}
         /\ \A s \in Issued : jwt'[s] = jwt[s]
         /\ jwt'[t].user = call[h].user /\ jwt'[t].family = call[h].family
         /\ \A s \in Tokens \ {t} : origin'[s] = origin[s]
         /\ origin'[t] = [from |-> {call[h].old} \ {None}, before |-> call[h].before]
         /\ Keeps(h, "store") /\ call'[h].new = t
<1>1. Stored' = Stored /\ Issued' = Issued \cup {t} /\ t \notin Stored
  BY DEF SignToken, tables, Stored, Issued, TypeInv, TypeOK
<1>2. call[h] \in Call /\ call \in [Handlers -> Call]
  BY DEF TypeInv, TypeOK
<1>3. call'[h] = [call[h] EXCEPT !.pc = "store", !.new = t]
  BY <1>2 DEF SignToken
<1>4. Keeps(h, "store") /\ call'[h].new = t
  BY <1>2, <1>3 DEF SignToken, Keeps, Call
<1> QED
  BY <1>1, <1>4 DEF SignToken, tables, TypeInv, TypeOK

\* The effect of storing a token.
LEMMA Storing ==
  ASSUME TypeInv, NEW h \in Handlers, StoreRefreshToken(h)
  PROVE  /\ call[h].pc = "store" /\ call[h].family \in Families
         /\ UNCHANGED <<users, jwt, origin, wallet, now, loggedOut>>
         /\ Issued' = Issued
         /\ \A g \in Handlers \ {h} : call'[g] = call[g]
         /\ \/ Answered(h, call[h].new) /\ UNCHANGED interrupted
            \/ Answered(h, None) /\ interrupted' = interrupted \cup {call[h].family}
<1>1. PICK code \in Codes, t \in {call[h].new, None} :
          /\ Answer(h, code, t)
          /\ \/ t = call[h].new /\ UNCHANGED interrupted
             \/ t = None /\ interrupted' = interrupted \cup {call[h].family}
  BY DEF StoreRefreshToken, Codes
<1>2. Answered(h, t)
  BY <1>1, Answering
<1>3. call[h].pc = "store" /\ call[h].family \in Families
  BY DEF StoreRefreshToken, TypeInv, HandlersOK, HandlerOK, Working
<1>4. UNCHANGED <<users, jwt, origin, wallet, now, loggedOut>> /\ Issued' = Issued
  BY DEF StoreRefreshToken, Issued
<1> QED
  BY <1>1, <1>2, <1>3, <1>4 DEF Answered

LEMMA NextSession == TypeInv /\ SessionInv /\ [Next]_vars => SessionInv'
<1> SUFFICES ASSUME TypeInv, SessionInv, [Next]_vars PROVE SessionInv'
  OBVIOUS
<1>1. \A t \in Issued : jwt[t].family # None
  BY NoneAssumption DEF TypeInv, TypeOK, Claims
<1>2. CASE Quiet
  <2>1. UNCHANGED <<row, jwt>> /\ DOMAIN users \subseteq DOMAIN users'
    BY <1>2 DEF Quiet
  <2>2. Stored' = Stored /\ Issued' = Issued
    BY <2>1 DEF Stored, Issued
  <2>3. CASE \A h \in Handlers : call'[h] = call[h] \/ Returned(h)
    BY <1>1, <2>1, <2>2, <2>3 DEF Returned, Working, SessionInv, OwnersAgree, RowsMatchClaims
  <2>4. ASSUME NEW h \in Handlers, Starts(h) PROVE SessionInv'
    <3>1. \A g \in Handlers \ {h} : call'[g] = call[g]
      BY <2>4 DEF Starts
    <3>2. CASE LoggedIn(h)
      BY <2>1, <2>2, <3>1, <3>2
         DEF LoggedIn, FreshFamily, Working, SessionInv, OwnersAgree, RowsMatchClaims
    <3>3. CASE Parsed(h)
      <4>1. call'[h].old \in Issued
        BY <3>3 DEF Parsed, TypeInv, TypeOK
      <4> QED
        BY <1>1, <2>1, <2>2, <3>1, <3>3, <4>1
           DEF Parsed, Working, SessionInv, OwnersAgree, RowsMatchClaims
    <3>4. CASE Validated(h)
      <4>3. OwnersAgree'
        BY <1>1, <2>1, <2>2, <3>4 DEF Validated, Keeps, Working, SessionInv, OwnersAgree
      <4>4. RowsMatchClaims'
        BY <2>1, <2>2, <3>4 DEF Validated, Keeps, SessionInv, RowsMatchClaims
      <4> QED
        BY <4>3, <4>4 DEF SessionInv
    <3> QED
      BY <2>4, <3>2, <3>3, <3>4 DEF Starts
  <2> QED
    BY <1>2, <2>3, <2>4 DEF Quiet
<1>3. ASSUME NEW h \in Handlers, RefreshRotate(h) \/ LogoutRevoke(h) PROVE SessionInv'
  <2>1. /\ UNCHANGED <<users, jwt>>
        /\ Stored' = Stored /\ Issued' = Issued
        /\ call[h].family \in Families /\ row' = WithRevoked(call[h].family)
        /\ \A g \in Handlers \ {h} : call'[g] = call[g]
    BY <1>3, Revoking
  <2>2. \A t \in Stored : row'[t].user = row[t].user /\ row'[t].family = row[t].family
    BY <2>1, RevokeType
  <2>3. CASE RefreshRotate(h) /\ Keeps(h, "issue")
    <3>1. call[h].pc = "rotate"
      BY <2>3 DEF RefreshRotate
    <3> QED
      BY <1>1, <2>1, <2>2, <2>3, <3>1
         DEF Keeps, Working, SessionInv, OwnersAgree, RowsMatchClaims
  <2>4. CASE Answered(h, None)
    BY <1>1, <2>1, <2>2, <2>4 DEF Answered, Working, SessionInv, OwnersAgree, RowsMatchClaims
  <2> QED
    BY <1>3, <2>3, <2>4, Revoking
<1>4. ASSUME NEW h \in Handlers, NEW t \in Tokens \ Issued, SignToken(h, t) PROVE SessionInv'
  <2>1. /\ call[h].pc = "issue" /\ t \notin Stored
        /\ UNCHANGED <<users, row>>
        /\ Stored' = Stored /\ Issued' = Issued \cup {t}
        /\ \A s \in Issued : jwt'[s] = jwt[s]
        /\ jwt'[t].user = call[h].user /\ jwt'[t].family = call[h].family
        /\ call'[h].new = t
    BY <1>4, Signing
  <2>2. /\ call'[h].pc = "store" /\ call'[h].user = call[h].user
        /\ call'[h].family = call[h].family /\ call'[h].old = call[h].old
        /\ \A g \in Handlers \ {h} : call'[g] = call[g]
    BY <1>4, Signing DEF Keeps
  <2>3. call[h].family # None /\ call[h].user \in DOMAIN users
    BY <2>1, NoneAssumption
       DEF TypeInv, HandlersOK, HandlerOK, Working, SessionInv, OwnersAgree
  <2>4. OwnersAgree'
    <3>1. \A a, b \in Issued' :
              jwt'[a].family = jwt'[b].family => jwt'[a].user = jwt'[b].user
      BY <2>1, <2>2, <2>3 DEF SessionInv, OwnersAgree
    <3>2. \A g \in Handlers, s \in Issued' :
              call'[g].family = jwt'[s].family => call'[g].user = jwt'[s].user
      BY <2>1, <2>2, <2>3 DEF SessionInv, OwnersAgree
    <3>3. \A g, k \in Handlers :
              call'[g].family = call'[k].family /\ call'[g].family # None
                  => call'[g].user = call'[k].user
      BY <2>1, <2>2, <2>3 DEF SessionInv, OwnersAgree
    <3>4. \A s \in Issued' : jwt'[s].user \in DOMAIN users
      BY <2>1, <2>3 DEF SessionInv, OwnersAgree
    <3>5. \A g \in Handlers : call'[g].pc \in Working => call'[g].user \in DOMAIN users
      BY <2>1, <2>2, <2>3 DEF Working, SessionInv, OwnersAgree
    <3> QED
      BY <2>1, <3>1, <3>2, <3>3, <3>4, <3>5 DEF OwnersAgree
  <2>5. /\ Stored \subseteq Issued
        /\ \A g \in Handlers : /\ call[g].pc = "store" => call[g].new \in Issued
                               /\ call[g].old \in Issued \cup {None}
    BY DEF TypeInv, TypeOK, HandlersOK, HandlerOK, Call, Steps
  <2>6. RowsMatchClaims'
    <3>1. \A s \in Stored' : row'[s].user = jwt'[s].user /\ row'[s].family = jwt'[s].family
      BY <2>1, <2>5 DEF SessionInv, RowsMatchClaims
    <3>2. \A g \in Handlers : call'[g].pc = "store" =>
              /\ jwt'[call'[g].new].user = call'[g].user
              /\ jwt'[call'[g].new].family = call'[g].family
      BY <2>1, <2>2, <2>5 DEF SessionInv, RowsMatchClaims
    <3>3. \A g \in Handlers : call'[g].pc \in {"validate", "rotate", "revoke"} =>
              /\ call'[g].user = jwt'[call'[g].old].user
              /\ call'[g].family = jwt'[call'[g].old].family
      <4>1. \A g \in Handlers :
                call[g].pc \in {"validate", "rotate", "revoke"} => call[g].old \in Issued
        BY <2>5 DEF TypeInv, HandlersOK, HandlerOK
      <4> QED
        BY <2>1, <2>2, <4>1 DEF SessionInv, RowsMatchClaims
    <3>4. \A g \in Handlers : call'[g].pc \in {"issue", "store"} /\ call'[g].old # None =>
              call'[g].family = jwt'[call'[g].old].family
      BY <2>1, <2>2, <2>5 DEF SessionInv, RowsMatchClaims
    <3> QED
      BY <3>1, <3>2, <3>3, <3>4 DEF RowsMatchClaims
  <2> QED
    BY <2>4, <2>6 DEF SessionInv
<1>5. ASSUME NEW h \in Handlers, StoreRefreshToken(h) PROVE SessionInv'
  <2>1. /\ call[h].pc = "store"
        /\ UNCHANGED <<users, jwt>> /\ Issued' = Issued
        /\ \A g \in Handlers \ {h} : call'[g] = call[g]
        /\ Answered(h, call[h].new) \/ Answered(h, None)
    BY <1>5, Storing
  <2>2. /\ Stored' = Stored \cup {call[h].new}
        /\ \A t \in Stored : row'[t] = row[t]
        /\ row'[call[h].new].user = call[h].user
        /\ row'[call[h].new].family = call[h].family
    BY <1>5, StoreType
  <2>3. call'[h].pc = "reply" /\ call'[h].family = None
    BY <2>1 DEF Answered
  <2> QED
    BY <1>1, <2>1, <2>2, <2>3 DEF Working, SessionInv, OwnersAgree, RowsMatchClaims
<1> QED
  BY <1>2, <1>3, <1>4, <1>5, StepsAreQuietOrWrite DEF Writes, IssueTokenPair

\* The rows of a family, the claims signed into its tokens and the handlers
\* still working for it all name one registered user.
THEOREM OneUserPerSession == Spec => []SessionsBelongToTheirUser
<1>1. TypeInv /\ SessionInv => SessionsBelongToTheirUser
  <2> SUFFICES ASSUME TypeInv, SessionInv PROVE SessionsBelongToTheirUser
    OBVIOUS
  <2>1. Stored \subseteq Issued
    BY DEF TypeInv, TypeOK
  <2> QED
    BY <2>1 DEF SessionInv, OwnersAgree, RowsMatchClaims, SessionsBelongToTheirUser
<1>2. Spec => [](TypeInv /\ SessionInv)
  BY InitType, NextType, InitSession, NextSession, PTL DEF Spec
<1> QED
  BY <1>1, <1>2, PTL

-----------------------------------------------------------------------------
(***************************************************************************)
(* A token is spent before its successor exists.  The handler that owes    *)
(* the successor is the evidence between the two statements.               *)
(***************************************************************************)
SpentInv ==
    /\ ExchangedTokensAreSpent
    /\ \A h \in Handlers : Owes(h) => row[call[h].old].revoked
    /\ \A h \in Handlers : call[h].pc = "store" =>
           /\ origin[call[h].new].from = {call[h].old} \ {None}
           /\ origin[call[h].new].before = call[h].before

LEMMA InitSpent == Init => SpentInv
  BY DEF Init, SpentInv, ExchangedTokensAreSpent, Stored, Idle, Owes

LEMMA NextSpent == TypeInv /\ SessionInv /\ SpentInv /\ [Next]_vars => SpentInv'
<1> SUFFICES ASSUME TypeInv, SessionInv, SpentInv, [Next]_vars PROVE SpentInv'
  OBVIOUS
<1>1. \A h \in Handlers : Owes(h) => call[h].old \in Stored
  BY DEF Owes, TypeInv, HandlersOK, HandlerOK
<1>2. CASE Quiet
  <2>1. UNCHANGED <<row, origin>> /\ Stored' = Stored
    BY <1>2 DEF Quiet, Stored
  <2>2. CASE \A h \in Handlers : call'[h] = call[h] \/ Returned(h)
    BY <2>1, <2>2 DEF Returned, Owes, SpentInv, ExchangedTokensAreSpent
  <2>3. ASSUME NEW h \in Handlers, Starts(h) PROVE SpentInv'
    BY <2>1, <2>3
       DEF Starts, LoggedIn, Parsed, Validated, Keeps, Owes, SpentInv, ExchangedTokensAreSpent
  <2> QED
    BY <1>2, <2>2, <2>3 DEF Quiet
<1>3. ASSUME NEW h \in Handlers, RefreshRotate(h) \/ LogoutRevoke(h) PROVE SpentInv'
  <2>1. /\ UNCHANGED origin /\ Stored' = Stored
        /\ call[h].family \in Families /\ row' = WithRevoked(call[h].family)
        /\ \A g \in Handlers \ {h} : call'[g] = call[g]
    BY <1>3, Revoking
  <2>2. \A t \in Stored : /\ row[t].revoked => row'[t].revoked
                          /\ row[t].family = call[h].family => row'[t].revoked
    BY <2>1, RevokeType
  <2>3. ExchangedTokensAreSpent'
    BY <2>1, <2>2 DEF SpentInv, ExchangedTokensAreSpent
  <2>4. CASE RefreshRotate(h) /\ Keeps(h, "issue")
    <3>1. call[h].old \in Stored /\ row[call[h].old].family = call[h].family
      <4>1. call[h].pc = "rotate"
        BY <2>4 DEF RefreshRotate
      <4> QED
        BY <4>1 DEF TypeInv, HandlersOK, HandlerOK, SessionInv, RowsMatchClaims
    <3> QED
      BY <1>1, <2>1, <2>2, <2>3, <2>4, <3>1 DEF Keeps, Owes, SpentInv
  <2>5. CASE Answered(h, None)
    BY <1>1, <2>1, <2>2, <2>3, <2>5 DEF Answered, Owes, SpentInv
  <2> QED
    BY <1>3, <2>4, <2>5, Revoking
<1>4. ASSUME NEW h \in Handlers, NEW t \in Tokens \ Issued, SignToken(h, t) PROVE SpentInv'
  <2>1. /\ call[h].pc = "issue" /\ t \notin Stored /\ UNCHANGED row /\ Stored' = Stored
        /\ \A s \in Tokens \ {t} : origin'[s] = origin[s]
        /\ origin'[t] = [from |-> {call[h].old} \ {None}, before |-> call[h].before]
        /\ Keeps(h, "store") /\ call'[h].new = t
    BY <1>4, Signing
  <2>2. \A g \in Handlers : call[g].pc = "store" => call[g].new \in Tokens \ {t}
    BY <1>4 DEF TypeInv, TypeOK, HandlersOK, HandlerOK
  <2>3. Stored \subseteq Tokens \ {t}
    BY <2>1 DEF TypeInv, TypeOK
  <2>4. ExchangedTokensAreSpent'
    BY <2>1, <2>3 DEF SpentInv, ExchangedTokensAreSpent
  <2> QED
    BY <2>1, <2>2, <2>4 DEF Keeps, Owes, SpentInv
<1>5. ASSUME NEW h \in Handlers, StoreRefreshToken(h) PROVE SpentInv'
  <2>1. /\ call[h].pc = "store" /\ UNCHANGED origin
        /\ \A g \in Handlers \ {h} : call'[g] = call[g]
        /\ call'[h].pc = "reply"
    BY <1>5, Storing DEF Answered
  <2>2. /\ call[h].new \notin Stored
        /\ Stored' = Stored \cup {call[h].new}
        /\ \A t \in Stored : row'[t] = row[t]
    BY <1>5, StoreType
  <2>3. ASSUME NEW s \in origin[call[h].new].from PROVE s \in Stored /\ row[s].revoked
    BY <1>1, <2>1, <2>3 DEF Owes, SpentInv
  <2>4. ExchangedTokensAreSpent'
    BY <2>1, <2>2, <2>3 DEF SpentInv, ExchangedTokensAreSpent
  <2> QED
    BY <1>1, <2>1, <2>2, <2>4 DEF Owes, SpentInv
<1> QED
  BY <1>2, <1>3, <1>4, <1>5, StepsAreQuietOrWrite DEF Writes, IssueTokenPair

\* Whenever a token is stored, the token it was exchanged for is stored and
\* revoked, whatever failed or crashed in between.
THEOREM RotationSpendsTokens == Spec => []ExchangedTokensAreSpent
<1>1. Spec => [](TypeInv /\ SessionInv /\ SpentInv)
  BY InitType, NextType, InitSession, NextSession, InitSpent, NextSpent, PTL DEF Spec
<1> QED
  BY <1>1, PTL DEF SpentInv

-----------------------------------------------------------------------------
(***************************************************************************)
(* Two tokens from one only by overlap.  A refresh that passed its SELECT  *)
(* saw an unrevoked token, so none of the tokens stored when it began was  *)
(* exchanged for that one; and its UPDATE revoked those of its family.     *)
(***************************************************************************)
BeforeIsStored ==
    /\ \A t \in Stored : origin[t].before \subseteq Stored
    /\ \A h \in Handlers : call[h].pc \in Working => call[h].before \subseteq Stored

NoSuccessorBefore ==
    /\ \A t \in Stored : \A s \in origin[t].before : origin[s].from \cap origin[t].from = {}
    /\ \A h \in Handlers : call[h].pc = "rotate" \/ Owes(h) =>
           \A s \in call[h].before : call[h].old \notin origin[s].from

FamilyRevokedBefore ==
    /\ \A t \in Stored : \A s \in origin[t].before :
           row[s].family = row[t].family => row[s].revoked
    /\ \A h \in Handlers : call[h].pc \in {"issue", "store"} =>
           \A s \in call[h].before : row[s].family = call[h].family => row[s].revoked

OverlapInv == BeforeIsStored /\ NoSuccessorBefore /\ FamilyRevokedBefore

FullInv == TypeInv /\ SessionInv /\ SpentInv /\ OverlapInv

LEMMA InitOverlap == Init => OverlapInv
  BY DEF Init, OverlapInv, BeforeIsStored, NoSuccessorBefore, FamilyRevokedBefore, Stored,
         Idle, Owes, Working

LEMMA NextOverlap == FullInv /\ [Next]_vars => OverlapInv'
<1> SUFFICES ASSUME FullInv, [Next]_vars PROVE OverlapInv'
  OBVIOUS
<1> USE DEF OverlapInv
<1>1. TypeInv /\ SessionInv /\ SpentInv /\ OverlapInv
  BY DEF FullInv
<1>2. CASE Quiet
  <2>1. UNCHANGED <<row, origin>> /\ Stored' = Stored
    BY <1>2 DEF Quiet, Stored
  <2>2. CASE \A h \in Handlers : call'[h] = call[h] \/ Returned(h)
    BY <1>1, <2>1, <2>2
       DEF Returned, Owes, Working, BeforeIsStored, NoSuccessorBefore, FamilyRevokedBefore
  <2>3. ASSUME NEW h \in Handlers, Starts(h) PROVE OverlapInv'
    <3>1. \A g \in Handlers \ {h} : call'[g] = call[g]
      BY <2>3 DEF Starts
    <3>2. CASE LoggedIn(h) \/ Parsed(h)
      BY <1>1, <2>1, <3>1, <3>2
         DEF LoggedIn, Parsed, Owes, Working, BeforeIsStored, NoSuccessorBefore,
             FamilyRevokedBefore
    <3>3. CASE Validated(h)
      <4>1. ASSUME NEW s \in call[h].before PROVE call[h].old \notin origin[s].from
        <5>1. s \in Stored
          BY <1>1, <3>3 DEF Validated, Working, BeforeIsStored
        <5>2. ~row[call[h].old].revoked
          BY <3>3 DEF Validated, RotationAllowed, Live
        <5> QED
          BY <1>1, <5>1, <5>2 DEF SpentInv, ExchangedTokensAreSpent
      <4>2. BeforeIsStored'
        BY <1>1, <2>1, <3>3 DEF Validated, Keeps, Working, BeforeIsStored
      <4>3. NoSuccessorBefore'
        BY <1>1, <2>1, <3>3, <4>1 DEF Validated, Keeps, Owes, NoSuccessorBefore
      <4>4. FamilyRevokedBefore'
        BY <1>1, <2>1, <3>3 DEF Validated, Keeps, FamilyRevokedBefore
      <4> QED
        BY <4>2, <4>3, <4>4
    <3> QED
      BY <2>3, <3>2, <3>3 DEF Starts
  <2> QED
    BY <1>2, <2>2, <2>3 DEF Quiet
<1>3. ASSUME NEW h \in Handlers, RefreshRotate(h) \/ LogoutRevoke(h) PROVE OverlapInv'
  <2>1. /\ UNCHANGED origin /\ Stored' = Stored
        /\ call[h].family \in Families /\ row' = WithRevoked(call[h].family)
        /\ \A g \in Handlers \ {h} : call'[g] = call[g]
        /\ (RefreshRotate(h) /\ Keeps(h, "issue")) \/ Answered(h, None)
    BY <1>1, <1>3, Revoking
  <2>2. \A t \in Stored : /\ row'[t].family = row[t].family
                          /\ row[t].revoked => row'[t].revoked
                          /\ row[t].family = call[h].family => row'[t].revoked
    BY <1>1, <2>1, RevokeType
  <2>3. RefreshRotate(h) => call[h].pc = "rotate"
    BY DEF RefreshRotate
  <2>4. BeforeIsStored'
    BY <1>1, <2>1, <2>3 DEF Keeps, Answered, Working, BeforeIsStored
  <2>5. NoSuccessorBefore'
    BY <1>1, <2>1, <2>3 DEF Keeps, Answered, Owes, NoSuccessorBefore
  <2>6. FamilyRevokedBefore'
    <3>1. \A t \in Stored : \A s \in origin[t].before :
              row'[s].family = row'[t].family => row'[s].revoked
      BY <1>1, <2>2 DEF FamilyRevokedBefore, BeforeIsStored
    <3>2. ASSUME NEW g \in Handlers, call'[g].pc \in {"issue", "store"}, NEW s \in call'[g].before,
                 row'[s].family = call'[g].family
          PROVE  row'[s].revoked
      <4>1. CASE g = h
        BY <1>1, <2>1, <2>2, <2>3, <3>2, <4>1 DEF Keeps, Answered, Working, BeforeIsStored
      <4>2. CASE g # h
        BY <1>1, <2>1, <2>2, <3>2, <4>2 DEF Working, BeforeIsStored, FamilyRevokedBefore
      <4> QED
        BY <4>1, <4>2
    <3> QED
      BY <2>1, <3>1, <3>2 DEF FamilyRevokedBefore
  <2> QED
    BY <2>4, <2>5, <2>6
<1>4. ASSUME NEW h \in Handlers, NEW t \in Tokens \ Issued, SignToken(h, t) PROVE OverlapInv'
  <2>1. /\ call[h].pc = "issue" /\ UNCHANGED row /\ Stored' = Stored
        /\ \A s \in Tokens \ {t} : origin'[s] = origin[s]
        /\ Keeps(h, "store")
    BY <1>1, <1>4, Signing
  <2>2. Stored \subseteq Tokens \ {t}
    BY <1>1, <1>4 DEF TypeInv, TypeOK
  <2>3. BeforeIsStored'
    BY <1>1, <2>1, <2>2 DEF Keeps, Working, BeforeIsStored
  <2>4. NoSuccessorBefore'
    <3>1. \A r \in Stored : \A s \in origin'[r].before :
              origin'[s].from \cap origin'[r].from = {}
      BY <1>1, <2>1, <2>2 DEF BeforeIsStored, NoSuccessorBefore
    <3>2. ASSUME NEW g \in Handlers, call'[g].pc = "rotate" \/ Owes(g)'
          PROVE  \A s \in call'[g].before : call'[g].old \notin origin'[s].from
      <4>1. /\ call[g].pc = "rotate" \/ Owes(g)
            /\ call'[g].old = call[g].old /\ call'[g].before = call[g].before
        BY <2>1, <3>2 DEF Keeps, Owes
      <4>2. call[g].pc \in Working
        BY <4>1 DEF Owes, Working
      <4> QED
        BY <1>1, <2>1, <2>2, <4>1, <4>2 DEF BeforeIsStored, NoSuccessorBefore
    <3> QED
      BY <2>1, <3>1, <3>2 DEF NoSuccessorBefore
  <2>5. FamilyRevokedBefore'
    BY <1>1, <2>1, <2>2 DEF Keeps, Working, BeforeIsStored, FamilyRevokedBefore
  <2> QED
    BY <2>3, <2>4, <2>5
<1>5. ASSUME NEW h \in Handlers, StoreRefreshToken(h) PROVE OverlapInv'
  <2>1. /\ call[h].pc = "store" /\ UNCHANGED origin
        /\ \A g \in Handlers \ {h} : call'[g] = call[g]
        /\ call'[h].pc = "reply"
    BY <1>1, <1>5, Storing DEF Answered
  <2>2. /\ call[h].new \notin Stored
        /\ Stored' = Stored \cup {call[h].new}
        /\ \A t \in Stored : row'[t] = row[t]
        /\ row'[call[h].new].family = call[h].family
    BY <1>1, <1>5, StoreType
  <2>3. /\ origin[call[h].new].from = {call[h].old} \ {None}
        /\ origin[call[h].new].before = call[h].before
        /\ call[h].before \subseteq Stored
    BY <1>1, <2>1 DEF SpentInv, BeforeIsStored, Working
  <2>4. BeforeIsStored'
    BY <1>1, <2>1, <2>2, <2>3 DEF Working, BeforeIsStored
  <2>5. NoSuccessorBefore'
    <3>1. \A s \in call[h].before : origin[s].from \cap origin[call[h].new].from = {}
      BY <1>1, <2>1, <2>3 DEF Owes, NoSuccessorBefore
    <3> QED
      BY <1>1, <2>1, <2>2, <2>3, <3>1 DEF Owes, NoSuccessorBefore
  <2>6. FamilyRevokedBefore'
    BY <1>1, <2>1, <2>2, <2>3 DEF Working, BeforeIsStored, FamilyRevokedBefore
  <2> QED
    BY <2>4, <2>5, <2>6
<1> QED
  BY <1>1, <1>2, <1>3, <1>4, <1>5, StepsAreQuietOrWrite DEF Writes, IssueTokenPair

LEMMA Invariance == Spec => []FullInv
<1>1. Init => FullInv
  BY InitType, InitSession, InitSpent, InitOverlap DEF FullInv
<1>2. FullInv /\ [Next]_vars => FullInv'
  BY NextType, NextSession, NextSpent, NextOverlap DEF FullInv
<1> QED
  BY <1>1, <1>2, PTL DEF Spec

\* Two tokens exchanged for the same one, and two live tokens of a family,
\* come from refreshes that overlapped.
THEOREM RacesNeedOverlap == Spec => []RotationsRaceOnlyWhenTheyOverlap
<1>1. FullInv => RotationsRaceOnlyWhenTheyOverlap
  BY DEF FullInv, OverlapInv, NoSuccessorBefore, FamilyRevokedBefore,
         RotationsRaceOnlyWhenTheyOverlap, Live
<1> QED
  BY <1>1, Invariance, PTL

-----------------------------------------------------------------------------
(***************************************************************************)
(* A session stays usable.  The witness of a family moves from the handler *)
(* that owes a token to the one that carries it, and to the client.        *)
(***************************************************************************)
Carried(s) == \E h \in Handlers : call[h].pc = "reply" /\ call[h].new = s

Usable(f) ==
    \/ \E s \in Stored : /\ row[s].family = f /\ ~row[s].revoked
                         /\ s \in wallet \/ Carried(s)
    \/ \E h \in Handlers : Owes(h) /\ call[h].family = f

LEMMA UsableForm ==
  SessionStaysUsable <=>
      \A t \in Stored : row[t].family \notin loggedOut \cup interrupted => Usable(row[t].family)
  BY DEF SessionStaysUsable, Usable, Carried

LEMMA NextUsable == FullInv /\ SessionStaysUsable /\ [Next]_vars => SessionStaysUsable'
<1> SUFFICES ASSUME FullInv, SessionStaysUsable, [Next]_vars,
                    NEW t \in Stored', row'[t].family \notin loggedOut' \cup interrupted'
             PROVE  Usable(row[t].family)'
  BY UsableForm DEF SessionStaysUsable, Usable, Carried
<1>1. TypeInv /\ SessionInv
  BY DEF FullInv
<1>2. ASSUME NEW f, f \notin loggedOut \cup interrupted, \E s \in Stored : row[s].family = f
      PROVE  Usable(f)
  BY <1>2, UsableForm
<1>3. CASE Quiet
  <2> DEFINE f == row[t].family
  <2>1. /\ UNCHANGED <<row, jwt, loggedOut>> /\ Stored' = Stored
        /\ wallet \subseteq wallet' /\ interrupted \subseteq interrupted'
    BY <1>3 DEF Quiet, Stored
  <2>2. f \notin loggedOut \cup interrupted /\ f \notin interrupted' /\ Usable(f)
    BY <1>2, <2>1
  <2>3. ASSUME NEW h \in Handlers, call[h].pc = "reply" \/ Owes(h)
        PROVE  call'[h] = call[h] \/ Returned(h)
    BY <1>3, <2>3 DEF Quiet, Starts, Validated, Owes
  <2>4. ASSUME NEW s \in Stored, row[s].family = f, ~row[s].revoked, s \in wallet \/ Carried(s)
        PROVE  Usable(f)'
    <3>1. CASE s \in wallet
      BY <2>1, <2>4, <3>1 DEF Usable
    <3>2. ASSUME NEW h \in Handlers, call[h].pc = "reply", call[h].new = s
          PROVE  Usable(f)'
      <4>1. CASE call'[h] = call[h]
        BY <2>1, <2>4, <3>2, <4>1 DEF Usable, Carried
      <4>2. CASE Returned(h)
        <5>1. s # None /\ jwt[s].family = f
          BY <1>1, <2>4, NoneAssumption DEF TypeInv, TypeOK, SessionInv, RowsMatchClaims
        <5> QED
          BY <2>1, <2>2, <2>4, <3>2, <4>2, <5>1 DEF Returned, Usable
      <4> QED
        BY <2>3, <3>2, <4>1, <4>2
    <3> QED
      BY <2>4, <3>1, <3>2 DEF Carried
  <2>5. ASSUME NEW h \in Handlers, Owes(h), call[h].family = f
        PROVE  Usable(f)'
    <3>1. call'[h] = call[h]
      BY <2>2, <2>3, <2>5 DEF Returned
    <3> QED
      BY <2>1, <2>5, <3>1 DEF Usable, Owes
  <2>6. Usable(f)'
    BY <2>2, <2>4, <2>5 DEF Usable
  <2> QED
    BY <2>1, <2>6
<1>4. ASSUME NEW h \in Handlers, RefreshRotate(h) \/ LogoutRevoke(h)
      PROVE  Usable(row[t].family)'
  <2>1. /\ call[h].family \in Families /\ row' = WithRevoked(call[h].family)
        /\ call[h].pc \in {"rotate", "revoke"}
        /\ UNCHANGED wallet /\ Stored' = Stored
        /\ \A g \in Handlers \ {h} : call'[g] = call[g]
        /\ \/ /\ RefreshRotate(h) /\ Keeps(h, "issue")
              /\ UNCHANGED <<loggedOut, interrupted>>
           \/ loggedOut' \cup interrupted' = loggedOut \cup interrupted \cup {call[h].family}
    BY <1>1, <1>4, Revoking
  <2>2. \A s \in Stored : /\ row'[s].family = row[s].family
                          /\ row[s].family # call[h].family => row'[s] = row[s]
    BY <1>1, <2>1, RevokeType
  <2>3. CASE row[t].family = call[h].family
    <3>1. RefreshRotate(h) /\ Keeps(h, "issue")
      BY <2>1, <2>2, <2>3
    <3>2. call[h].old # None
      BY <1>1, <3>1, NoneAssumption
         DEF RefreshRotate, TypeInv, TypeOK, HandlersOK, HandlerOK
    <3> QED
      BY <2>1, <2>2, <2>3, <3>1, <3>2 DEF Keeps, Usable, Owes
  <2>4. CASE row[t].family # call[h].family
    <3> DEFINE f == row[t].family
    <3>1. f \notin loggedOut \cup interrupted
      BY <2>1, <2>2
    <3>2. Usable(f)
      BY <1>2, <2>1, <3>1
    <3>3. ASSUME NEW s \in Stored, row[s].family = f, ~row[s].revoked, s \in wallet \/ Carried(s)
          PROVE  Usable(f)'
      BY <2>1, <2>2, <2>4, <3>3 DEF Usable, Carried
    <3>4. ASSUME NEW g \in Handlers, Owes(g), call[g].family = f
          PROVE  Usable(f)'
      BY <2>1, <2>2, <2>4, <3>4 DEF Usable, Owes
    <3>5. Usable(f)'
      BY <3>2, <3>3, <3>4 DEF Usable
    <3> QED
      BY <2>1, <2>2, <3>5
  <2> QED
    BY <2>3, <2>4
<1>5. ASSUME NEW h \in Handlers, NEW k \in Tokens \ Issued, SignToken(h, k)
      PROVE  Usable(row[t].family)'
  <2>1. /\ call[h].pc = "issue"
        /\ UNCHANGED <<row, wallet, loggedOut, interrupted>> /\ Stored' = Stored
        /\ Keeps(h, "store")
    BY <1>1, <1>5, Signing
  <2>2. Usable(row[t].family)
    BY <1>2, <2>1
  <2>3. \A g \in Handlers : Owes(g) => Owes(g)' /\ call'[g].family = call[g].family
    BY <2>1 DEF Keeps, Owes
  <2>4. \A s : Carried(s) => Carried(s)'
    BY <2>1 DEF Keeps, Carried
  <2> QED
    BY <2>1, <2>2, <2>3, <2>4 DEF Usable
<1>6. ASSUME NEW h \in Handlers, StoreRefreshToken(h) PROVE Usable(row[t].family)'
  <2>1. /\ call[h].pc = "store"
        /\ UNCHANGED <<wallet, loggedOut>>
        /\ \A g \in Handlers \ {h} : call'[g] = call[g]
        /\ \/ Answered(h, call[h].new) /\ UNCHANGED interrupted
           \/ Answered(h, None) /\ interrupted' = interrupted \cup {call[h].family}
    BY <1>1, <1>6, Storing
  <2>2. /\ Stored' = Stored \cup {call[h].new}
        /\ \A s \in Stored : row'[s] = row[s]
        /\ row'[call[h].new].family = call[h].family
        /\ ~row'[call[h].new].revoked
    BY <1>1, <1>6, StoreType
  <2>3. CASE row'[t].family = call[h].family
    <3>1. Answered(h, call[h].new)
      BY <2>1, <2>3
    <3> QED
      BY <2>2, <2>3, <3>1 DEF Answered, Usable, Carried
  <2>4. CASE row'[t].family # call[h].family
    <3>1. t \in Stored /\ row'[t] = row[t]
      BY <2>2, <2>4
    <3>2. Usable(row[t].family)
      BY <1>2, <2>1, <3>1
    <3>3. \A g \in Handlers : Owes(g) /\ call[g].family # call[h].family
              => Owes(g)' /\ call'[g].family = call[g].family
      BY <2>1 DEF Owes
    <3>4. \A s : Carried(s) => Carried(s)'
      BY <2>1 DEF Carried
    <3> QED
      BY <2>1, <2>2, <2>4, <3>1, <3>2, <3>3, <3>4 DEF Usable
  <2> QED
    BY <2>3, <2>4
<1> QED
  BY <1>1, <1>3, <1>4, <1>5, <1>6, StepsAreQuietOrWrite DEF Writes, IssueTokenPair

\* A family that nobody logged out and nothing cut off has an unrevoked token
\* with a client or on its way to one, or a refresh that has yet to store it.
THEOREM RotationKeepsSessions == Spec => []SessionStaysUsable
<1>1. Init => SessionStaysUsable
  BY DEF Init, SessionStaysUsable, Stored
<1> QED
  BY <1>1, Invariance, NextUsable, PTL DEF Spec

-----------------------------------------------------------------------------
(***************************************************************************)
(* Refinement.  Storing the token of a login opens its family; every other *)
(* step closes some families, mostly none.                                 *)
(***************************************************************************)
LEMMA LifecycleInit == Init => Lifecycle!Init
  BY DEF Init, Lifecycle!Init, status, owners, Opened, Stored

\* A step that keeps the users of every family and opens none is a Close.
LEMMA CloseStep ==
  ASSUME owners' = owners,
         \A f \in Families : Opened(f)' <=> Opened(f),
         \A f \in Families : Open(f)' /\ Opened(f) => Open(f)
  PROVE  Lifecycle!Next
<1> DEFINE closing == {f \in Families : status[f] = "open" /\ status'[f] = "closed"}
<1>1. \A f \in Families : status'[f] = IF f \in closing THEN "closed" ELSE status[f]
  BY DEF status
<1>2. status' = [f \in Families |-> IF f \in closing THEN "closed" ELSE status[f]]
  BY <1>1 DEF status
<1>3. Lifecycle!Close(closing)
  BY <1>2 DEF Lifecycle!Close
<1> QED
  BY <1>3 DEF Lifecycle!Next

\* The users of a family are those of its rows, before and after the step.
LEMMA OwnersKept ==
  ASSUME Stored' = Stored,
         \A t \in Stored : row'[t].user = row[t].user /\ row'[t].family = row[t].family
  PROVE  owners' = owners /\ \A f \in Families : Opened(f)' <=> Opened(f)
<1>1. \A f \in Families : owners'[f] = owners[f]
  BY DEF owners
<1>2. owners' = owners
  BY <1>1 DEF owners
<1> QED
  BY <1>2 DEF Opened

\* The family of a login has no row, and no other handler works for it.
LoginInv ==
    \A h \in Handlers : call[h].pc \in {"issue", "store"} /\ call[h].old = None =>
        /\ \A t \in Stored : row[t].family # call[h].family
        /\ \A g \in Handlers \ {h} : call[g].family # call[h].family

LEMMA NextLogin == FullInv /\ LoginInv /\ [Next]_vars => LoginInv'
<1> SUFFICES ASSUME FullInv, LoginInv, [Next]_vars PROVE LoginInv'
  OBVIOUS
<1>1. TypeInv /\ SessionInv
  BY DEF FullInv
<1>2. \A h \in Handlers : call[h].pc \in {"issue", "store"} => call[h].family # None
  BY <1>1, NoneAssumption DEF TypeInv, HandlersOK, HandlerOK, Working
<1>3. CASE Quiet
  <2>1. UNCHANGED row /\ Stored' = Stored
    BY <1>3 DEF Quiet, Stored
  <2>2. CASE \A h \in Handlers : call'[h] = call[h] \/ Returned(h)
    BY <1>2, <2>1, <2>2 DEF Returned, LoginInv
  <2>3. ASSUME NEW h \in Handlers, Starts(h) PROVE LoginInv'
    <3>1. \A g \in Handlers \ {h} : call'[g] = call[g]
      BY <2>3 DEF Starts
    <3>2. CASE LoggedIn(h)
      <4>1. \A t \in Stored : row[t].family # call'[h].family
        BY <1>1, <3>2 DEF LoggedIn, FreshFamily, TypeInv, TypeOK, SessionInv, RowsMatchClaims
      <4> QED
        BY <2>1, <3>1, <3>2, <4>1 DEF LoggedIn, FreshFamily, LoginInv
    <3>3. CASE Parsed(h)
      <4>1. call'[h].old \in Stored /\ call'[h].family = row[call'[h].old].family
        BY <1>1, <3>3 DEF Parsed, SessionInv, RowsMatchClaims
      <4> QED
        BY <2>1, <3>1, <3>3, <4>1 DEF Parsed, LoginInv
    <3>4. CASE Validated(h)
      BY <2>1, <3>1, <3>4 DEF Validated, Keeps, LoginInv
    <3> QED
      BY <2>3, <3>2, <3>3, <3>4 DEF Starts
  <2> QED
    BY <1>3, <2>2, <2>3 DEF Quiet
<1>4. ASSUME NEW h \in Handlers, RefreshRotate(h) \/ LogoutRevoke(h) PROVE LoginInv'
  <2>1. /\ call[h].family \in Families /\ row' = WithRevoked(call[h].family)
        /\ Stored' = Stored
        /\ \A g \in Handlers \ {h} : call'[g] = call[g]
        /\ (RefreshRotate(h) /\ Keeps(h, "issue")) \/ Answered(h, None)
    BY <1>1, <1>4, Revoking
  <2>2. \A t \in Stored : row'[t].family = row[t].family
    BY <1>1, <2>1, RevokeType
  <2>3. CASE RefreshRotate(h) /\ Keeps(h, "issue")
    <3>1. call[h].old # None
      BY <1>1, <2>3, NoneAssumption DEF RefreshRotate, TypeInv, TypeOK, HandlersOK, HandlerOK
    <3> QED
      BY <2>1, <2>2, <2>3, <3>1 DEF Keeps, LoginInv
  <2>4. CASE Answered(h, None)
    BY <1>2, <2>1, <2>2, <2>4 DEF Answered, LoginInv
  <2> QED
    BY <2>1, <2>3, <2>4
<1>5. ASSUME NEW h \in Handlers, NEW k \in Tokens \ Issued, SignToken(h, k) PROVE LoginInv'
  <2>1. UNCHANGED row /\ Stored' = Stored /\ call[h].pc = "issue" /\ Keeps(h, "store")
    BY <1>1, <1>5, Signing
  <2> QED
    BY <2>1 DEF Keeps, LoginInv
<1>6. ASSUME NEW h \in Handlers, StoreRefreshToken(h) PROVE LoginInv'
  <2>1. /\ \A g \in Handlers \ {h} : call'[g] = call[g]
        /\ call'[h].pc = "reply" /\ call'[h].family = None
    BY <1>1, <1>6, Storing DEF Answered
  <2>2. /\ Stored' = Stored \cup {call[h].new}
        /\ \A t \in Stored : row'[t] = row[t]
        /\ row'[call[h].new].family = call[h].family
    BY <1>1, <1>6, StoreType
  <2> QED
    BY <1>2, <2>1, <2>2 DEF LoginInv
<1> QED
  BY <1>1, <1>3, <1>4, <1>5, <1>6, StepsAreQuietOrWrite DEF Writes, IssueTokenPair

LEMMA LifecycleNext ==
  FullInv /\ FullInv' /\ LoginInv /\ [Next]_vars => Lifecycle!Next
<1> SUFFICES ASSUME FullInv, FullInv', LoginInv, [Next]_vars PROVE Lifecycle!Next
  OBVIOUS
<1>1. TypeInv /\ SessionInv /\ TypeInv'
  BY DEF FullInv
<1>2. now \in Nat /\ now' \in Nat /\ \A t \in Stored : row[t].expires \in Nat
  BY <1>1, TimeAssumption DEF TypeInv, TypeOK, TokenRow
<1>3. CASE Quiet
  <2>1. UNCHANGED row /\ Stored' = Stored /\ now <= now'
    BY <1>3 DEF Quiet, Stored
  <2>2. owners' = owners /\ \A f \in Families : Opened(f)' <=> Opened(f)
    BY <2>1, OwnersKept
  <2>3. \A t \in Stored : Live(t)' => Live(t)
    BY <1>2, <2>1 DEF Live
  <2>4. ASSUME NEW h \in Handlers, call'[h].pc = "rotate" \/ Owes(h)'
        PROVE  Open(call'[h].family)
    <3>1. CASE call'[h] = call[h]
      BY <2>4, <3>1 DEF Open, Owes
    <3>2. CASE Starts(h)
      <4>1. Validated(h)
        BY <2>4, <3>2 DEF Starts, LoggedIn, Parsed, Owes
      <4> QED
        BY <4>1 DEF Validated, Keeps, RotationAllowed, Open
    <3> QED
      BY <1>3, <2>4, <3>1, <3>2 DEF Quiet, Starts, Returned, Owes
  <2>5. ASSUME NEW f \in Families, Open(f)' PROVE Open(f)
    BY <2>1, <2>3, <2>4, <2>5 DEF Open
  <2> QED
    BY <2>2, <2>5, CloseStep
<1>4. ASSUME NEW h \in Handlers, RefreshRotate(h) \/ LogoutRevoke(h) PROVE Lifecycle!Next
  <2>1. /\ call[h].family \in Families /\ row' = WithRevoked(call[h].family)
        /\ Stored' = Stored /\ UNCHANGED now
        /\ \A g \in Handlers \ {h} : call'[g] = call[g]
        /\ (RefreshRotate(h) /\ Keeps(h, "issue")) \/ Answered(h, None)
    BY <1>1, <1>4, Revoking
  <2>2. \A t \in Stored : /\ row'[t].user = row[t].user
                          /\ row'[t].family = row[t].family
                          /\ row'[t].expires = row[t].expires
                          /\ row[t].revoked => row'[t].revoked
    BY <1>1, <2>1, RevokeType
  <2>3. owners' = owners /\ \A f \in Families : Opened(f)' <=> Opened(f)
    BY <2>1, <2>2, OwnersKept
  <2>4. \A t \in Stored : Live(t)' => Live(t)
    BY <2>1, <2>2 DEF Live
  <2>5. ASSUME NEW g \in Handlers, call'[g].pc = "rotate" \/ Owes(g)'
        PROVE  /\ call[g].pc = "rotate" \/ Owes(g)
               /\ call'[g].family = call[g].family
    BY <2>1, <2>5 DEF Keeps, Answered, Owes, RefreshRotate
  <2>6. ASSUME NEW f \in Families, Open(f)' PROVE Open(f)
    BY <2>1, <2>2, <2>4, <2>5, <2>6 DEF Open
  <2> QED
    BY <2>3, <2>6, CloseStep
<1>5. ASSUME NEW h \in Handlers, NEW k \in Tokens \ Issued, SignToken(h, k)
      PROVE  Lifecycle!Next
  <2>1. UNCHANGED <<row, now>> /\ Stored' = Stored /\ call[h].pc = "issue" /\ Keeps(h, "store")
    BY <1>1, <1>5, Signing
  <2>2. owners' = owners /\ \A f \in Families : Opened(f)' <=> Opened(f)
    BY <2>1, OwnersKept
  <2>3. ASSUME NEW f \in Families, Open(f)' PROVE Open(f)
    BY <2>1, <2>3 DEF Open, Live, Keeps, Owes
  <2> QED
    BY <2>2, <2>3, CloseStep
<1>6. ASSUME NEW h \in Handlers, StoreRefreshToken(h) PROVE Lifecycle!Next
  <2>0. PICK f, k, u : f = call[h].family /\ k = call[h].new /\ u = call[h].user
    OBVIOUS
  <2>1. /\ call[h].pc = "store" /\ f \in Families /\ UNCHANGED now
        /\ \A g \in Handlers \ {h} : call'[g] = call[g]
        /\ call'[h].pc = "reply"
    BY <1>1, <1>6, <2>0, Storing DEF Answered
  <2>2. /\ k \notin Stored /\ Stored' = Stored \cup {k}
        /\ \A t \in Stored : row'[t] = row[t]
        /\ row'[k].user = u /\ row'[k].family = f
        /\ row'[k].expires = now + RefreshTTL /\ ~row'[k].revoked
    BY <1>1, <1>6, <2>0, StoreType
  <2>3. Live(k)'
    BY <1>2, <2>1, <2>2, TimeAssumption DEF Live
  <2>4. Open(f)' /\ Opened(f)'
    BY <2>2, <2>3 DEF Open, Opened
  <2>5. ASSUME NEW e \in Families \ {f}
        PROVE  /\ Opened(e)' <=> Opened(e)
               /\ Open(e)' <=> Open(e)
               /\ owners'[e] = owners[e]
    <3>1. Opened(e)' <=> Opened(e)
      BY <2>2 DEF Opened
    <3>2. \A t \in Stored : Live(t)' <=> Live(t)
      BY <2>1, <2>2 DEF Live
    <3>3. Open(e)' <=> Open(e)
      BY <2>0, <2>1, <2>2, <3>2 DEF Open, Owes
    <3>4. owners'[e] = owners[e]
      BY <2>2 DEF owners
    <3> QED
      BY <3>1, <3>3, <3>4
  <2>6. \A t \in Stored : row[t].family = f => row[t].user = u
    BY <1>1, <2>0 DEF TypeInv, TypeOK, SessionInv, OwnersAgree, RowsMatchClaims
  <2>7. owners'[f] = {u}
    BY <2>1, <2>2, <2>6 DEF owners
  <2>8. CASE call[h].old = None
    <3>1. ~Opened(f)
      BY <2>0, <2>1, <2>8 DEF LoginInv, Opened
    <3>2. status[f] = "unused"
      BY <2>1, <3>1 DEF status
    <3>3. \A e \in Families : status'[e] = [status EXCEPT ![f] = "open"][e]
      BY <2>1, <2>4, <2>5 DEF status
    <3>4. status' = [status EXCEPT ![f] = "open"]
      BY <3>3 DEF status
    <3>5. \A e \in Families : owners'[e] = [owners EXCEPT ![f] = {u}][e]
      BY <2>1, <2>5, <2>7 DEF owners
    <3>6. owners' = [owners EXCEPT ![f] = {u}]
      BY <3>5 DEF owners
    <3>7. u \in UserIds
      BY <1>1, <2>0, <2>1 DEF TypeInv, HandlersOK, HandlerOK, Working
    <3> QED
      BY <2>1, <3>2, <3>4, <3>6, <3>7 DEF Lifecycle!Next, Lifecycle!Open
  <2>9. CASE call[h].old # None
    <3>1. Open(f)
      BY <2>0, <2>1, <2>9 DEF Open, Owes
    <3>2. call[h].old \in Stored /\ row[call[h].old].family = f
      BY <1>1, <2>0, <2>1, <2>9
         DEF TypeInv, HandlersOK, HandlerOK, SessionInv, RowsMatchClaims
    <3>3. Opened(f)
      BY <3>2 DEF Opened
    <3>4. owners[f] = {u}
      BY <2>1, <2>6, <3>2 DEF owners
    <3>5. \A e \in Families : owners'[e] = owners[e]
      BY <2>5, <2>7, <3>4
    <3>6. owners' = owners
      BY <3>5 DEF owners
    <3> QED
      BY <2>4, <2>5, <3>1, <3>3, <3>6, CloseStep
  <2> QED
    BY <2>8, <2>9
<1>7. Writes \/ Quiet
  BY <1>1, StepsAreQuietOrWrite
<1> QED
  BY <1>3, <1>4, <1>5, <1>6, <1>7 DEF Writes, IssueTokenPair

\* A session opens once, for one user, and a closed one is never revived.
THEOREM SessionsFollowLifecycle == Spec => ImplementsLifecycle
<1>1. Init => LoginInv
  BY DEF Init, LoginInv, Idle
<1>2. Spec => [](FullInv /\ LoginInv)
  BY <1>1, Invariance, NextLogin, PTL DEF Spec
<1> QED
  BY <1>2, LifecycleInit, LifecycleNext, PTL DEF Spec, ImplementsLifecycle, Lifecycle!Spec
=============================================================================
