------------------------------ MODULE Process ------------------------------
(* The process of an agent, src/micro_agent/__main__.py: build the runtime,  *)
(* start it, serve readiness requests through the HealthChecker              *)
(* (src/micro_agent/health/health.py), stop it and close its resources, for  *)
(* both adapters (src/runtimes/adk/runtime.py,                               *)
(* src/runtimes/google_adk/runtime.py).                                      *)
(*                                                                           *)
(* Environment: a health check, an MCP connection, opening a file and a      *)
(* close may each fail whenever they are called.                             *)
EXTENDS Bootstrap

CONSTANTS
    Deployments,    \* deployments, see Bootstrap
    ReadyReqs,      \* concurrent requests of /health/ready
    ContextKeys     \* keys of a policy's conditions

VARIABLES
    deployment,     \* rigid
    phase,          \* where run() is
    todo,           \* the stages, checks or closes of the phase that are left
    open,           \* resources constructed and not closed
    built,          \* what the builders returned, by resource
    passed,         \* history: resources whose check at startup passed
    health,         \* the HealthChecker's status by dependency
    ready,          \* the readiness requests: left (the probes to run), bad, met, answer
    cause           \* history: why the process ended

prvars == <<deployment, phase, todo, open, built, passed, health, ready, cause>>

Resources == {"exchange", "mcp", "knowledge", "audit", "model", "session", "memory", "operations", "approvals"}

(* What build_runtime() constructs or resolves, one after the other.         *)
Stages == Resources \cup {"tools", "policy"}

Google == RuntimeName(deployment) = "google-adk"

NoRequest == [left |-> <<>>, bad |-> FALSE, met |-> FALSE, answer |-> "none"]

ProcTypeOK ==
    /\ phase \in {"resolve", "build", "start", "app", "serve", "close", "exited", "aborted"}
    /\ open \subseteq Resources
    /\ passed \subseteq Resources
    /\ DOMAIN built \subseteq Resources
    /\ \A n \in DOMAIN health : health[n] \in {"healthy", "unhealthy"}
    /\ ready \in [ReadyReqs -> [left : {ready[r].left : r \in ReadyReqs}, bad : BOOLEAN, met : BOOLEAN,
                                answer : {"none", "waiting", "ready", "unready"}]]
    /\ cause \in {"none", "resolve", "build", "init", "check", "tools", "policy", "app", "close"}

ProcInit ==
    /\ deployment \in Deployments
    /\ phase = "resolve"
    /\ todo = <<>>
    /\ open = {}
    /\ built = [n \in {} |-> "none"]
    /\ passed = {}
    /\ health = [n \in {} |-> "healthy"]
    /\ ready = [r \in ReadyReqs |-> NoRequest]
    /\ cause = "none"

(* An exception leaves run() outside its try statement: nothing is closed.   *)
Abort(c) ==
    /\ phase' = "aborted"
    /\ cause' = c
    /\ todo' = <<>>
    /\ UNCHANGED <<deployment, open, built, passed, health, ready>>

-----------------------------------------------------------------------------
(* build_runtime().                                                          *)

BuildOrder ==
    <<"exchange", "mcp", "tools", "policy", "knowledge", "audit", "model">>
    \o IF Google THEN <<"approvals", "session", "memory", "operations">>
       ELSE <<"session", "memory", "operations", "approvals">>

Builder(n) ==
    LET d == deployment
    IN CASE n = "exchange" -> TokenExchange(d)
         [] n = "mcp" -> McpManager(d)
         [] n = "tools" -> ToolBindings(d)
         [] n = "policy" -> ResolvePolicy(d)
         [] n = "knowledge" -> KnowledgeProvider(d)
         [] n = "audit" -> AuditSink(d)
         [] n = "model" -> ModelProvider(d)
         [] n = "session" -> SessionProvider(d)
         [] n = "memory" -> MemoryProvider(d)
         [] n = "operations" -> OperationRegistryOf(d)
         [] n = "approvals" -> ApprovalStore(d)

Resolve ==
    /\ phase = "resolve"
    /\ \/ /\ "error" \in {ResolveDefinitionConfig(deployment), RuntimeName(deployment), CredentialBindings(deployment)}
          /\ Abort("resolve")
       \/ /\ "error" \notin {ResolveDefinitionConfig(deployment), RuntimeName(deployment), CredentialBindings(deployment)}
          /\ phase' = "build"
          /\ todo' = BuildOrder
          /\ UNCHANGED <<deployment, open, built, passed, health, ready, cause>>

Built(n) == IF n \in DOMAIN built THEN built[n] ELSE "none"

(* A policy and the tools are values, and what lives in this process alone   *)
(* holds no connection; an SQLite knowledge store opens one per call.        *)
Held(n, b) ==
    /\ n \in Resources
    /\ b \notin {"none", "memory", "fake", "stdout"}
    /\ n # "knowledge" \/ b # "sqlite"

Build ==
    /\ phase = "build"
    /\ todo # <<>>
    /\ LET n == Head(todo)
           b == Builder(n)
       IN \/ b = "error" /\ Abort("build")
          \/ /\ b # "error"
             /\ todo' = Tail(todo)
             /\ open' = IF Held(n, b) THEN open \cup {n} ELSE open
             /\ built' = IF n \in Resources /\ b # "none"
                         THEN [m \in DOMAIN built \cup {n} |-> Builder(m)] ELSE built
             /\ UNCHANGED <<deployment, phase, passed, health, ready, cause>>

(* The file of an audit sink cannot be opened: not a BootstrapError.         *)
AuditFileFails ==
    /\ phase = "build"
    /\ todo # <<>> /\ Head(todo) = "audit" /\ Builder("audit") \in {"file", "sqlite"}
    /\ Abort("build")

-----------------------------------------------------------------------------
(* start() of the adapters: the checks of what is configured, the tools, the *)
(* policy, the MCP servers.  The checkpoint store of both adapters is a view *)
(* of the session provider and its check asks that provider.                 *)

Configured(s) == Filtered(s, {"tools", "policy"} \cup DOMAIN built)

(* A native model is not probed.                                             *)
Probed(s) == Filtered(s, IF built["model"] = "native" THEN Stages \ {"model"} ELSE Stages)

AdkStartOrder ==
    <<"model", "session", "session", "memory", "operations", "approvals", "knowledge", "tools", "policy", "mcp">>

GoogleStartOrder == <<"model", "session", "operations", "memory", "knowledge", "tools", "policy", "mcp">>

StartChecks == Configured(IF Google THEN GoogleStartOrder ELSE AdkStartOrder)

(* create_agent() refuses a native model when the definition names another   *)
(* provider than the environment.                                            *)
Startup ==
    LET d == deployment
        foreign == built["model"] = "native" /\ d.provider.def \notin {"none", "google"}
    IN /\ phase = "build" /\ todo = <<>>
       /\ \/ foreign /\ Abort("init")
          \/ /\ ~foreign
             /\ phase' = "start"
             /\ todo' = Probed(StartChecks)
             /\ UNCHANGED <<deployment, open, built, passed, health, ready, cause>>

(* The policy judges what the definition declares, outside any invocation.   *)
Asks(kind, name, also, provider) ==
    [kind |-> kind, name |-> name, also |-> also, provider |-> provider,
     context |-> [k \in ContextKeys |-> Missing]]

PolicyAllows ==
    LET d == deployment
        Allowed(q) == Evaluated(d.policy, q) # "denied"
    IN \/ ResolvePolicy(d) = "none"
       \/ /\ d.mcp => Allowed(Asks("mcp", "server", "none", "none"))
          /\ \A s \in d.skills : Allowed(Asks("skill", s, "none", "none"))
          /\ d.model => Allowed(Asks("model", "ref", d.modelId.def, d.provider.def))

(* A store in this process always answers; an in-memory knowledge retriever  *)
(* holds no documents.                                                       *)
MayPass(n) == Built(n) # "memory" \/ n # "knowledge"

MayFail(n) == Built(n) \notin {"fake"} /\ (Built(n) # "memory" \/ n = "knowledge")

CheckPasses ==
    /\ phase = "start"
    /\ todo # <<>> /\ Head(todo) \notin {"tools", "policy"}
    /\ MayPass(Head(todo))
    /\ todo' = Tail(todo)
    /\ passed' = passed \cup {Head(todo)}
    /\ UNCHANGED <<deployment, phase, open, built, health, ready, cause>>

CheckFails ==
    /\ phase = "start"
    /\ todo # <<>> /\ Head(todo) \notin {"tools", "policy"}
    /\ MayFail(Head(todo))
    /\ Abort("check")

(* A provider without tool use cannot serve declared tools.                  *)
Negotiate ==
    /\ phase = "start"
    /\ todo # <<>> /\ Head(todo) = "tools"
    /\ \/ /\ deployment.tools # {} /\ ~deployment.toolUse /\ built["model"] # "native"
          /\ Abort("tools")
       \/ /\ deployment.tools = {} \/ deployment.toolUse \/ built["model"] = "native"
          /\ todo' = Tail(todo)
          /\ UNCHANGED <<deployment, phase, open, built, passed, health, ready, cause>>

CheckPolicy ==
    /\ phase = "start"
    /\ todo # <<>> /\ Head(todo) = "policy"
    /\ \/ ~PolicyAllows /\ Abort("policy")
       \/ /\ PolicyAllows
          /\ todo' = Tail(todo)
          /\ UNCHANGED <<deployment, phase, open, built, passed, health, ready, cause>>

(* health_probes(): the Google adapter has none for its session provider.    *)
AdkProbes == <<"model", "session", "memory", "operations", "approvals", "knowledge", "mcp">>

GoogleProbes == <<"model", "memory", "knowledge", "mcp", "operations">>

Probes == Probed(Configured(IF Google THEN GoogleProbes ELSE AdkProbes))

Started ==
    /\ phase = "start" /\ todo = <<>>
    /\ phase' = "app"
    /\ health' = [n \in {Probes[i] : i \in 1..Len(Probes)} |-> "healthy"]
    /\ UNCHANGED <<deployment, todo, open, built, passed, ready, cause>>

(* _validate_cors_origins(), on stripped origins.                            *)
OriginsRefused(d) ==
    \/ "empty" \in d.origins
    \/ "*" \in d.origins /\ Cardinality(d.origins) > 1
    \/ "*" \notin d.origins /\ "path" \in d.origins

(* create_app() refuses limits and origins again, and an agent that requires *)
(* a caller identity without an authenticator; the audit sink is built a     *)
(* second time and a file may not open.                                      *)
AppRefused ==
    LET d == deployment
    IN \/ "error" \in {Authenticator(d), AuditSink(d)}
       \/ \E l \in d.limits : l < 1
       \/ OriginsRefused(d)
       \/ d.identity /\ Authenticator(d) = "none"

App ==
    /\ phase = "app"
    /\ \/ ~AppRefused /\ phase' = "serve" /\ UNCHANGED <<deployment, todo, open, built, passed, health, ready, cause>>
       \/ AppRefused /\ Abort("app")
       \/ AuditSink(deployment) \in {"file", "sqlite"} /\ Abort("app")

-----------------------------------------------------------------------------
(* /health/ready: the probes one after the other, each suspending the        *)
(* request, on statuses that the requests share.                             *)

Ask(r) ==
    /\ phase = "serve"
    /\ ready[r].answer # "waiting"
    /\ LET others == {o \in ReadyReqs : ready[o].answer = "waiting"}
       IN ready' = [o \in ReadyReqs |->
              IF o = r THEN [left |-> Probes, bad |-> FALSE, met |-> others # {}, answer |-> "waiting"]
              ELSE IF o \in others THEN [ready[o] EXCEPT !.met = TRUE] ELSE ready[o]]
    /\ UNCHANGED <<deployment, phase, todo, open, built, passed, health, cause>>

(* Mutant of UpdateStatus: a recovery is not noted.                          *)
UpdateStatusSticky(n, ok) == [health EXCEPT ![n] = IF ok THEN @ ELSE "unhealthy"]

(* A probe that raises is unhealthy like one that answers no.                *)
UpdateStatus(n, ok) == [health EXCEPT ![n] = IF ok THEN "healthy" ELSE "unhealthy"]

Probe(r) ==
    /\ ready[r].answer = "waiting"
    /\ ready[r].left # <<>>
    /\ LET n == Head(ready[r].left)
       IN \E ok \in BOOLEAN :
            /\ (ok => MayPass(n)) /\ (~ok => MayFail(n))
            /\ health' = UpdateStatus(n, ok)
            /\ ready' = [ready EXCEPT ![r].left = Tail(@), ![r].bad = @ \/ ~ok]
    /\ UNCHANGED <<deployment, phase, todo, open, built, passed, cause>>

CheckReadiness == IF \E n \in DOMAIN health : health[n] = "unhealthy" THEN "unready" ELSE "ready"

AnswerReady(r) ==
    /\ ready[r].answer = "waiting"
    /\ ready[r].left = <<>>
    /\ ready' = [ready EXCEPT ![r].answer = CheckReadiness]
    /\ UNCHANGED <<deployment, phase, todo, open, built, passed, health, cause>>

-----------------------------------------------------------------------------
(* The end of serve(): the server has finished its requests, the agent stops *)
(* and shuts down, and close() releases the resources in the adapter's order *)
(* up to the first that fails.                                               *)

AdkCloseOrder == <<"model", "session", "memory", "operations", "approvals", "knowledge", "mcp">>

GoogleCloseOrder == <<"model", "mcp", "memory", "knowledge", "session", "operations">>

CloseOrder == Configured(IF Google THEN GoogleCloseOrder ELSE AdkCloseOrder)

StopServing ==
    /\ phase = "serve"
    /\ \A r \in ReadyReqs : ready[r].answer # "waiting"
    /\ phase' = "close"
    /\ todo' = CloseOrder
    /\ ready' = [r \in ReadyReqs |-> NoRequest]
    /\ UNCHANGED <<deployment, open, built, passed, health, cause>>

(* Closing the MCP manager closes its token exchange.                        *)
Closes(n) == IF n = "mcp" THEN {"mcp", "exchange"} ELSE {n}

Close ==
    /\ phase = "close" /\ todo # <<>>
    /\ \/ /\ open' = open \ Closes(Head(todo))
          /\ todo' = Tail(todo)
          /\ UNCHANGED <<deployment, phase, built, passed, health, ready, cause>>
       \/ Abort("close")

Exit ==
    /\ phase = "close" /\ todo = <<>>
    /\ phase' = "exited"
    /\ UNCHANGED <<deployment, todo, open, built, passed, health, ready, cause>>

ProcNext ==
    \/ Resolve \/ Build \/ AuditFileFails \/ Startup
    \/ CheckPasses \/ CheckFails \/ Negotiate \/ CheckPolicy \/ Started \/ App
    \/ \E r \in ReadyReqs : Ask(r) \/ Probe(r) \/ AnswerReady(r)
    \/ StopServing \/ Close \/ Exit

ProcSpec == ProcInit /\ [][ProcNext]_prvars

-----------------------------------------------------------------------------
(* start() probes "required dependencies when configured ... before marking  *)
(* the agent ready so a broken store cannot be discovered only on the first  *)
(* invocation": whichever adapter serves, every store, model and server that *)
(* build_runtime() has constructed passed a check, except a native model.    *)
ServingProbed ==
    phase = "serve" =>
        \A n \in DOMAIN built \ {"exchange", "audit"} :
            n \in passed \/ built[n] = "native"

(* build_runtime() promises that "declarations that cannot be satisfied fail *)
(* before runtime creation": a process that serves has a policy when the     *)
(* definition names one, no local store where an external one is declared, a *)
(* verified caller where one is required, and the tools' servers.            *)
DeclaredSatisfied ==
    phase = "serve" =>
        LET d == deployment
        IN /\ d.refs => ResolvePolicy(d) = "policy"
           /\ d.persistence = "external" => Built("session") \in {"redis", "postgres"}
           /\ d.memoryEndpoint \in {"redis", "postgres"} => Built("memory") = d.memoryEndpoint
           /\ d.approvals # "none" => Built("approvals") = d.approvals
           /\ d.identity => Authenticator(d) = "oidc"
           /\ "mcp" \in d.tools => Built("mcp") = "mcp"
           /\ d.key.def # "none" => CatalogKey(d) # "none"

(* validate_config() refuses everything that the builders of the application *)
(* refuse after the agent has started and holds its connections: what is     *)
(* left to fail there is a file that cannot be opened and the requirement of *)
(* a caller identity.                                                        *)
LateRefusal ==
    phase = "aborted" /\ cause = "app" =>
        \/ Built("audit") \in {"file", "sqlite"}
        \/ deployment.identity /\ deployment.auth.mode = "none"

(* A readiness request that no other one overlaps answers from the probes it *)
(* ran itself: it is ready exactly when none of them failed, whatever the    *)
(* statuses were before.                                                     *)
ReadyHonest ==
    \A r \in ReadyReqs :
        ready[r].answer \in {"ready", "unready"} /\ ~ready[r].met =>
            (ready[r].answer = "ready") = ~ready[r].bad

(* close() releases what build_runtime() constructed: a process that ends    *)
(* without an exception holds nothing but its audit sink.                    *)
AllClosed == phase = "exited" => open \subseteq {"audit"}

(* The process over its life, for every deployment: what serves was checked  *)
(* and declared, what is refused is refused early, readiness is honest after *)
(* whatever other requests left, and what was opened is closed (run).        *)
ProcessSound == ProcTypeOK /\ ServingProbed /\ DeclaredSatisfied /\ LateRefusal /\ ReadyHonest /\ AllClosed
=============================================================================
