-------------------------- MODULE DeploymentProofs --------------------------
(***************************************************************************)
(* Proofs about Deployment, for every set of deployments and every bound   *)
(* on the restarts and on the faults.                                      *)
(*                                                                         *)
(* ReadyFindsItsTables is not inductive: that the gateway is ready says    *)
(* something of the tables only because the message service was serving    *)
(* when it was dialled, and that because the table of users was there.     *)
(***************************************************************************)
EXTENDS Deployment, TLAPS

\* What a step of a process may do to the stages and the counters.
LEMMA StartType ==
  ASSUME TypeOK, NEW p \in Processes, NEW first \in Stages, Start(p, first)
  PROVE  TypeOK' /\ tables' = tables
<1> USE DeploymentNumbersAssumption DEF Start, environment, TypeOK
<1>1. stage' \in [Processes -> Stages]
  BY DEF Stages
<1>2. \A q \in Processes \ Deployed' : stage'[q] = "new"
  BY DEF Deployed
<1>3. retries[p] < MaxRetries \/ retries' = retries
  BY DEF MayStart
<1>4. retries' \in [Processes -> 0 .. MaxRetries]
  <2>1. CASE retries' = retries
    BY <2>1
  <2>2. CASE retries[p] < MaxRetries
    <3>1. retries[p] + 1 \in 0 .. MaxRetries
      BY <2>2
    <3> QED
      BY <3>1
  <2> QED
    BY <1>3, <2>1, <2>2
<1> QED
  BY <1>1, <1>2, <1>4

LEMMA StepType ==
  ASSUME TypeOK, NEW p \in Processes, NEW from \in Stages \ {"new"}, NEW to \in Stages,
         Step(p, from, to), UNCHANGED <<environment, retries, postgres, faults>>,
         tables' \subseteq MonolithTables
  PROVE  TypeOK'
<1>1. stage' \in [Processes -> Stages] /\ \A q \in Processes \ {p} : stage'[q] = stage[q]
  BY DEF Step, TypeOK
<1>2. p \in Deployed
  BY DEF Step, TypeOK
<1>3. Deployed' = Deployed
  BY DEF Deployed, environment
<1> QED
  BY <1>1, <1>2, <1>3 DEF TypeOK, environment

-----------------------------------------------------------------------------
(***************************************************************************)
(* The types.                                                              *)
(***************************************************************************)
LEMMA InitType == Init => TypeOK
<1> SUFFICES ASSUME Init PROVE TypeOK
  OBVIOUS
<1>1. stage \in [Processes -> Stages] /\ \A p \in Processes : stage[p] = "new"
  BY DEF Init, Stages
<1>2. 0 \in 0 .. MaxRetries /\ faults \in 0 .. MaxFaults
  BY DeploymentNumbersAssumption DEF Init
<1> QED
  BY <1>1, <1>2 DEF Init, TypeOK

\* A step of a main function that is not a start.
Moves(p, from, to) ==
    /\ Step(p, from, to)
    /\ UNCHANGED <<environment, retries, postgres, faults>>

LEMMA NextCases ==
  ASSUME Next
  PROVE  \/ \E p \in Processes, first \in {"connecting", "dialAuth"} : Start(p, first)
         \/ \E p \in Processes, from \in Stages \ {"new"}, to \in Stages :
                /\ Moves(p, from, to)
                /\ tables' = tables \/ tables' = tables \cup AuthTables
                                    \/ tables' = tables \cup {"messages"}
                                    \/ tables' = tables \cup MonolithTables
         \/ \E p \in Processes : Crash(p)
         \/ DatabaseStops \/ DatabaseStarts
<1> USE DEF Moves, Processes, Services, Stages
<1>1. CASE StartAuth \/ AuthLoop
  BY <1>1 DEF StartAuth, AuthLoop, Connect, EnsureSchema, SchemaFails
<1>2. CASE UserMain
  BY <1>2 DEF UserMain, StartUser, Connect, ConnectFails, Fatal
<1>3. CASE MessageMain \/ EnsureMessageSchema
  BY <1>3 DEF MessageMain, EnsureMessageSchema, StartMessage, Connect, ConnectFails, Fatal,
              SchemaFails, EnsureSchema
<1>4. CASE GatewayMain
  BY <1>4 DEF GatewayMain, StartGateway, Dial, Fatal
<1>5. CASE MonolithMain \/ MonolithSchema
  BY <1>5 DEF MonolithMain, MonolithSchema, StartMonolith, Connect, ConnectFails, Fatal,
              SchemaFails, EnsureSchema, MonolithDials
<1> QED
  BY <1>1, <1>2, <1>3, <1>4, <1>5 DEF Next

LEMMA NextType == TypeOK /\ [Next]_vars => TypeOK'
<1> SUFFICES ASSUME TypeOK, [Next]_vars PROVE TypeOK'
  OBVIOUS
<1>1. CASE UNCHANGED vars
  BY <1>1 DEF vars, environment, TypeOK, Deployed
<1>2. ASSUME NEW p \in Processes, NEW first \in {"connecting", "dialAuth"}, Start(p, first)
      PROVE  TypeOK'
  BY <1>2, StartType DEF Stages
<1>3. ASSUME NEW p \in Processes, NEW from \in Stages \ {"new"}, NEW to \in Stages,
             Moves(p, from, to),
             tables' = tables \/ tables' = tables \cup AuthTables
                              \/ tables' = tables \cup {"messages"}
                              \/ tables' = tables \cup MonolithTables
      PROVE  TypeOK'
  <2>1. tables' \subseteq MonolithTables
    BY <1>3 DEF TypeOK, AuthTables, MonolithTables
  <2> QED
    BY <1>3, <2>1, StepType DEF Moves
<1>4. ASSUME NEW p \in Processes, Crash(p) PROVE TypeOK'
  <2>1. p \in Deployed /\ Deployed' = Deployed
    BY <1>4 DEF Crash, Running, TypeOK, Deployed, environment
  <2>2. faults' \in 0 .. MaxFaults
    BY <1>4, DeploymentNumbersAssumption DEF Crash, TypeOK
  <2> QED
    BY <1>4, <2>1, <2>2 DEF Crash, TypeOK, environment, Stages
<1>5. CASE DatabaseStops
  <2>1. faults' \in 0 .. MaxFaults
    BY <1>5, DeploymentNumbersAssumption DEF DatabaseStops, TypeOK
  <2> QED
    BY <1>5, <2>1 DEF DatabaseStops, TypeOK, environment, Deployed
<1>6. CASE DatabaseStarts
  BY <1>6 DEF DatabaseStarts, TypeOK, environment, Deployed
<1> QED
  BY <1>1, <1>2, <1>3, <1>4, <1>5, <1>6, NextCases

\* Stages and counters keep their types: restarts and faults stay within
\* their limits, and processes of another deployment never start.
THEOREM TypeCorrect == Spec => []TypeOK
  BY InitType, NextType, PTL DEF Spec

-----------------------------------------------------------------------------
(***************************************************************************)
(* Ready means that the tables are there.  Tables are never dropped, so    *)
(* what was so when a process began to serve is still so.                  *)
(***************************************************************************)
TablesInv ==
    /\ "users" \in tables => AuthTables \subseteq tables
    /\ stage["message"] = "serving" => tables = MonolithTables
    /\ stage["gateway"] = "serving" => tables = MonolithTables
    /\ stage["monolith"] \in {"dialAuth", "serving"} => tables = MonolithTables

\* A step that leaves the tables alone and lets nobody begin to serve, except
\* auth and the user service, of which the invariant does not speak.
LEMMA TablesKept ==
  ASSUME TypeOK, TablesInv, tables' = tables, NEW p \in Processes, NEW to \in Stages,
         stage' = [stage EXCEPT ![p] = to],
         p \in {"auth", "user"} \/ to # "serving",
         p = "monolith" => to # "dialAuth"
  PROVE  TablesInv'
<1> USE DEF TypeOK
<1>1. \A q \in Processes : stage'[q] = IF q = p THEN to ELSE stage[q]
  OBVIOUS
<1>2. {"message", "gateway", "monolith"} \subseteq Processes
  BY DEF Processes, Services
<1> QED
  BY <1>1, <1>2 DEF TablesInv

LEMMA StartKeepsTables ==
  ASSUME TypeOK, TablesInv, NEW p \in Processes, NEW first \in {"connecting", "dialAuth"},
         p = "monolith" => first = "connecting", Start(p, first)
  PROVE  TablesInv'
  BY TablesKept DEF Start, Stages

LEMMA NextTables == TypeOK /\ TypeOK' /\ TablesInv /\ [Next]_vars => TablesInv'
<1> SUFFICES ASSUME TypeOK, TypeOK', TablesInv, [Next]_vars PROVE TablesInv'
  OBVIOUS
<1> USE DEF Processes, Services, Stages
<1>1. CASE StartAuth \/ StartUser \/ StartMessage \/ StartGateway \/ StartMonolith
  BY <1>1, StartKeepsTables DEF StartAuth, StartUser, StartMessage, StartGateway, StartMonolith
<1>2. ASSUME NEW p \in Processes, NEW to \in {"schema", "connecting", "exited"},
             Connect(p, to) \/ ConnectFails(p) \/ SchemaFails(p, to)
      PROVE  TablesInv'
  BY <1>2, TablesKept DEF Connect, ConnectFails, SchemaFails, Step, Fatal
<1>3. CASE Connect("user", "serving")
  BY <1>3, TablesKept DEF Connect, Step
<1>4. CASE EnsureSchema("auth", AuthTables, "serving")
  <2>1. tables' = tables \cup AuthTables /\ "users" \in tables'
    BY <1>4 DEF EnsureSchema, AuthTables
  <2>2. \A q \in Processes \ {"auth"} : stage'[q] = stage[q]
    BY <1>4 DEF EnsureSchema, Step, TypeOK
  <2>3. tables = MonolithTables => tables' = MonolithTables
    BY <2>1 DEF AuthTables, MonolithTables
  <2> QED
    BY <2>1, <2>2, <2>3 DEF TablesInv
<1>5. CASE EnsureMessageSchema
  <2>1. "users" \in tables /\ tables' = tables \cup {"messages"}
    BY <1>5 DEF EnsureMessageSchema, EnsureSchema, Creatable
  <2>2. tables' = MonolithTables
    BY <2>1 DEF TablesInv, TypeOK, AuthTables, MonolithTables
  <2> QED
    BY <2>2 DEF TablesInv, AuthTables, MonolithTables
<1>6. CASE MonolithSchema
  <2>1. tables' = MonolithTables
    BY <1>6 DEF MonolithSchema, EnsureSchema, TypeOK
  <2> QED
    BY <2>1 DEF TablesInv, AuthTables, MonolithTables
<1>7. CASE Dial("auth", "dialAuth", "dialUser") \/ Dial("user", "dialUser", "dialMessage")
  BY <1>7, TablesKept DEF Dial, Step, Fatal
<1>8. CASE Dial("message", "dialMessage", "serving")
  <2>1. CASE Serving("message")
    <3>1. tables' = MonolithTables
      BY <1>8, <2>1 DEF Dial, Serving, TablesInv
    <3> QED
      BY <3>1 DEF TablesInv, AuthTables, MonolithTables
  <2>2. CASE ~Serving("message")
    BY <1>8, <2>2, TablesKept DEF Dial, Listening, Fatal, Step
  <2> QED
    BY <2>1, <2>2
<1>9. CASE MonolithDials
  <2>1. tables' = MonolithTables
    BY <1>9 DEF MonolithDials, Step, TablesInv
  <2> QED
    BY <2>1 DEF TablesInv, AuthTables, MonolithTables
<1>10. ASSUME NEW p \in Processes, Crash(p) PROVE TablesInv'
  BY <1>10, TablesKept DEF Crash
<1>11. CASE DatabaseStops \/ DatabaseStarts \/ UNCHANGED vars
  BY <1>11 DEF DatabaseStops, DatabaseStarts, vars, TablesInv
<1>12. CASE AuthLoop
  BY <1>12, <1>2, <1>4 DEF AuthLoop
<1>13. CASE UserMain
  BY <1>13, <1>1, <1>2, <1>3 DEF UserMain
<1>14. CASE MessageMain
  BY <1>14, <1>1, <1>2 DEF MessageMain
<1>15. CASE GatewayMain
  BY <1>15, <1>1, <1>7, <1>8 DEF GatewayMain
<1>16. CASE MonolithMain
  BY <1>16, <1>1, <1>2, <1>9 DEF MonolithMain
<1> QED
  BY <1>1, <1>5, <1>6, <1>10, <1>11, <1>12, <1>13, <1>14, <1>15, <1>16 DEF Next

\* Whoever is ready has all its tables, however the processes, the database
\* and the restarts come in the way of each other.
THEOREM ReadyIsServable == Spec => []ReadyFindsItsTables
<1>1. Init => TablesInv
  BY DEF Init, TablesInv, Processes, Services
<1>2. TablesInv /\ TypeOK => ReadyFindsItsTables
  BY DEF TablesInv, TypeOK, ReadyFindsItsTables, Ready, Serving
<1>3. TypeOK /\ TablesInv /\ [Next]_vars => TypeOK' /\ TablesInv'
  BY NextType, NextTables
<1> QED
  BY <1>1, <1>2, <1>3, InitType, PTL DEF Spec
=============================================================================
