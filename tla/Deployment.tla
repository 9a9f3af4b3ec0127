----------------------------- MODULE Deployment ------------------------------
(***************************************************************************)
(* How the system starts: the main functions of the four services and of   *)
(* the monolith (services/*/main.go, services/gateway/cmd/monolith), the   *)
(* database they share and the platform that starts them again.            *)
(*                                                                         *)
(* A process goes through the stages of its main function.  What it cannot *)
(* do ends it (log.Fatal), except that auth tries the database again for   *)
(* ever.  Docker Compose starts an ended process again without limit and   *)
(* in an order, once; Railway starts it again a limited number of times    *)
(* and in no order.                                                        *)
(***************************************************************************)
EXTENDS Naturals

CONSTANTS
    Deployments,   \* the ways of deploying: "compose", "railway", "monolith"
    MaxRetries,    \* restartPolicyMaxRetries of the railway.toml files
    MaxFaults      \* bound: the crashes and database outages

ASSUME DeploymentsAssumption == Deployments \subseteq {"compose", "railway", "monolith"}
ASSUME DeploymentNumbersAssumption == MaxRetries \in Nat /\ MaxFaults \in Nat

VARIABLES
    deployment,      \* the way of this behavior; it does not change
    misconfigured,   \* processes whose environment main refuses; neither does this
    stage,           \* stage[p]: how far the main function of process p is
    retries,         \* retries[p]: how often the platform has restarted p
    postgres,        \* the database accepts connections
    tables,          \* the tables it has
    faults           \* the faults so far

environment == <<deployment, misconfigured>>
vars == <<environment, stage, retries, postgres, tables, faults>>

-----------------------------------------------------------------------------
Services  == {"auth", "user", "message"}
Processes == Services \cup {"gateway", "monolith"}
Stages    == {"new", "connecting", "schema", "dialAuth", "dialUser", "dialMessage",
              "serving", "exited"}

\* The processes of the deployment.
Deployed == IF deployment = "monolith" THEN {"monolith"} ELSE Services \cup {"gateway"}

Running(p) == stage[p] \notin {"new", "exited"}
Serving(p) == stage[p] = "serving"

\* The calls of log.Fatal on the environment: a duration that does not parse
\* (auth), a key that has not 32 bytes (message), or either (the monolith).
\* The user service and the gateway have a default for everything.
MayBeMisconfigured == {"auth", "message", "monolith"}

\* The gRPC port accepts connections: auth opens it before it has a database,
\* the others when they have all they need.
Listening(s) == IF s = "auth" THEN Running(s) ELSE Serving(s)

\* Main of p gets from one stage to another.
Step(p, from, to) ==
    /\ stage[p] = from
    /\ stage' = [stage EXCEPT ![p] = to]

\* log.Fatal.
Fatal(p, from) == Step(p, from, "exited")

-----------------------------------------------------------------------------
(***************************************************************************)
(* The platform.                                                           *)
(***************************************************************************)
\* docker-compose.yml, depends_on: at first, the database is healthy and the
\* services have been started; a restart waits for nothing.
InOrder(p) ==
    deployment = "compose" =>
        postgres /\ (p = "gateway" => \A s \in Services : stage[s] # "new")

\* Mutant of MayStart: restarts are not limited.
RestartsForever(p) == (stage[p] = "new" /\ InOrder(p)) \/ stage[p] = "exited"

\* restart: unless-stopped, or restartPolicyType = "ON_FAILURE".
MayStart(p) ==
    \/ stage[p] = "new" /\ InOrder(p)
    \/ stage[p] = "exited" /\ (deployment = "compose" \/ retries[p] < MaxRetries)

\* The process starts and reads its environment.
Start(p, first) ==
    /\ p \in Deployed
    /\ MayStart(p)
    /\ stage' = [stage EXCEPT ![p] = IF p \in misconfigured THEN "exited" ELSE first]
    /\ retries' = [retries EXCEPT ![p] =
                      IF stage[p] = "exited" /\ deployment # "compose" THEN @ + 1 ELSE @]
    /\ UNCHANGED <<environment, postgres, tables, faults>>

\* sqlx.Connect pings the database.
Connect(p, next) ==
    /\ postgres
    /\ Step(p, "connecting", next)
    /\ UNCHANGED <<environment, retries, postgres, tables, faults>>

ConnectFails(p) ==
    /\ ~postgres
    /\ Fatal(p, "connecting")
    /\ UNCHANGED <<environment, retries, postgres, tables, faults>>

\* The script is one transaction; messages refers to users.
Creatable(p) == postgres /\ (p = "message" => "users" \in tables)

\* ensureSchema and ensureMessageSchema: CREATE TABLE IF NOT EXISTS.
EnsureSchema(p, created, next) ==
    /\ Creatable(p)
    /\ Step(p, "schema", next)
    /\ tables' = tables \cup created
    /\ UNCHANGED <<environment, retries, postgres, faults>>

\* IF NOT EXISTS does not keep two processes from creating the extension at
\* the same time: one of them gets a unique violation.
SchemaFails(p, next) ==
    /\ ~Creatable(p) \/ \E q \in Deployed \ {p} : stage[q] = "schema"
    /\ Step(p, "schema", next)
    /\ UNCHANGED <<environment, retries, postgres, tables, faults>>

-----------------------------------------------------------------------------
(***************************************************************************)
(* services/auth/main.go                                                   *)
(***************************************************************************)
\* Mutant of AuthTables: the table of users is left to another service.
OnlyTokens == {"refresh_tokens"}

AuthTables == {"users", "refresh_tokens"}

\* The gRPC and the health server run from here on; a background loop has
\* the database still to connect to.
StartAuth == Start("auth", "connecting")

\* One turn of the loop; one that fails to connect changes nothing.
AuthLoop ==
    \/ Connect("auth", "schema")
    \/ EnsureSchema("auth", AuthTables, "serving")
    \/ SchemaFails("auth", "connecting")

(***************************************************************************)
(* services/user/main.go: it creates no table and checks none.             *)
(***************************************************************************)
StartUser == Start("user", "connecting")

UserMain ==
    \/ StartUser
    \/ Connect("user", "serving")
    \/ ConnectFails("user")

(***************************************************************************)
(* services/message/main.go                                                *)
(***************************************************************************)
StartMessage == Start("message", "connecting")

MessageMain ==
    \/ StartMessage
    \/ Connect("message", "schema")
    \/ ConnectFails("message")
    \/ SchemaFails("message", "exited")

EnsureMessageSchema == EnsureSchema("message", {"messages"}, "serving")

(***************************************************************************)
(* services/gateway/main.go: one dial after the other, each blocking for   *)
(* five seconds at most.                                                   *)
(***************************************************************************)
\* Mutant of Dial: without grpc.WithBlock, a dial does not wait.
DialDoesNotBlock(s, from, to) ==
    /\ Step("gateway", from, to)
    /\ UNCHANGED <<environment, retries, postgres, tables, faults>>

Dial(s, from, to) ==
    /\ IF Listening(s) THEN Step("gateway", from, to) ELSE Fatal("gateway", from)
    /\ UNCHANGED <<environment, retries, postgres, tables, faults>>

\* config.Load has a default for everything.
StartGateway == Start("gateway", "dialAuth")

GatewayMain ==
    \/ StartGateway
    \/ Dial("auth", "dialAuth", "dialUser")
    \/ Dial("user", "dialUser", "dialMessage")
    \/ Dial("message", "dialMessage", "serving")

\* /v1/healthz and /v1/readyz are answered, always with 200.
Ready(p) == p \in {"gateway", "monolith"} /\ Serving(p)

(***************************************************************************)
(* services/gateway/cmd/monolith/main.go: the servers start in goroutines  *)
(* and the process dials itself.                                           *)
(***************************************************************************)
MonolithTables == {"users", "refresh_tokens", "messages"}

MonolithSchema == EnsureSchema("monolith", MonolithTables, "dialAuth")

\* The ports have been opened before the dials, so they succeed.
MonolithDials ==
    /\ Step("monolith", "dialAuth", "serving")
    /\ UNCHANGED <<environment, retries, postgres, tables, faults>>

StartMonolith == Start("monolith", "connecting")

MonolithMain ==
    \/ StartMonolith
    \/ Connect("monolith", "schema")
    \/ ConnectFails("monolith")
    \/ SchemaFails("monolith", "exited")
    \/ MonolithDials

-----------------------------------------------------------------------------
(***************************************************************************)
(* Faults.                                                                 *)
(***************************************************************************)
\* A listener fails, a panic leaves a goroutine, the platform stops the
\* process: the process ends at any stage.
Crash(p) ==
    /\ faults < MaxFaults
    /\ Running(p)
    /\ stage' = [stage EXCEPT ![p] = "exited"]
    /\ faults' = faults + 1
    /\ UNCHANGED <<environment, retries, postgres, tables>>

\* A process that has a database handle keeps it.
DatabaseStops ==
    /\ faults < MaxFaults
    /\ postgres
    /\ postgres' = FALSE
    /\ faults' = faults + 1
    /\ UNCHANGED <<environment, stage, retries, tables>>

DatabaseStarts ==
    /\ ~postgres
    /\ postgres' = TRUE
    /\ UNCHANGED <<environment, stage, retries, tables, faults>>

-----------------------------------------------------------------------------
Init ==
    /\ deployment \in Deployments
    /\ misconfigured \in SUBSET (Deployed \cap MayBeMisconfigured)
    /\ stage = [p \in Processes |-> "new"]
    /\ retries = [p \in Processes |-> 0]
    /\ postgres = FALSE
    /\ tables = {}
    /\ faults = 0

Next ==
    \/ StartAuth
    \/ AuthLoop
    \/ UserMain
    \/ MessageMain
    \/ EnsureMessageSchema
    \/ GatewayMain
    \/ MonolithMain
    \/ MonolithSchema
    \/ \E p \in Processes : Crash(p)
    \/ DatabaseStops
    \/ DatabaseStarts

Spec == Init /\ [][Next]_vars

\* Processes are scheduled, the platform restarts what it may, the database
\* comes back; whoever creates tables again and again is not always disturbed
\* by the other.  No fault has to happen.
Fairness ==
    /\ WF_vars(DatabaseStarts)
    /\ WF_vars(StartAuth)
    /\ WF_vars(AuthLoop) /\ SF_vars(EnsureSchema("auth", AuthTables, "serving"))
    /\ WF_vars(UserMain)
    /\ WF_vars(MessageMain) /\ SF_vars(EnsureMessageSchema)
    /\ WF_vars(GatewayMain)
    /\ WF_vars(MonolithMain) /\ WF_vars(MonolithSchema)

FairSpec == Spec /\ Fairness

-----------------------------------------------------------------------------
(***************************************************************************)
(* Properties.                                                             *)
(***************************************************************************)
\* Stages and counters are of their types, and a process that is not part of
\* the deployment never starts.
TypeOK ==
    /\ deployment \in Deployments
    /\ misconfigured \subseteq MayBeMisconfigured
    /\ stage \in [Processes -> Stages]
    /\ \A p \in Processes \ Deployed : stage[p] = "new"
    /\ retries \in [Processes -> 0 .. MaxRetries]
    /\ postgres \in BOOLEAN
    /\ tables \subseteq MonolithTables
    /\ faults \in 0 .. MaxFaults

\* Whoever answers /v1/readyz never sends a request to a database without
\* its tables, although the user service starts without looking for them and
\* auth accepts connections before they exist: the gateway has waited for the
\* message service, which cannot start without the tables of auth.
ReadyFindsItsTables ==
    \A p \in Processes : Ready(p) => tables = MonolithTables

\* Why a process may stay down: its environment, its restarts used up, or a
\* process that it cannot do without.
Exhausted(p) == stage[p] = "exited" /\ ~MayStart(p)

AuthIsLost == "auth" \in misconfigured \/ Exhausted("auth")

MessageIsLost ==
    \/ "message" \in misconfigured
    \/ Exhausted("message")
    \/ AuthIsLost /\ "users" \notin tables

IsLost(p) ==
    CASE p = "auth"     -> AuthIsLost
      [] p = "message"  -> MessageIsLost
      [] p = "gateway"  -> Exhausted(p) \/ AuthIsLost \/ MessageIsLost \/ Exhausted("user")
      [] OTHER          -> p \in misconfigured \/ Exhausted(p)

\* Whatever the order in which the processes, the database and the tables
\* come, and whichever of them fail on the way: in the end every process
\* serves for good, except those with a reason to stay down.
ComesUp ==
    <>[](\A p \in Deployed : Serving(p) \/ IsLost(p))
=============================================================================
