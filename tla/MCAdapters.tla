----------------------------- MODULE MCAdapters -----------------------------
(* The adapters around the agent, one of them at a time: the Google ADK      *)
(* runtime, the MCP client, the HTTP API, the process with its bootstrap,    *)
(* policy evaluation, knowledge retrieval and streamed model answers.        *)
EXTENDS GoogleAdk, McpClient, HttpApi, Process, Knowledge, ModelStream, TLC

CONSTANTS r1, r2, r3, k1, k2, q1, q2, q3, al, bo

VARIABLE part

mcvars == <<vars, mpvars, hvars, prvars, plvars, knvars, msvars, part>>

-----------------------------------------------------------------------------
(* Google ADK: two overlapping requests of a session, and three that follow  *)
(* each other with failures, resumes and approvals.                          *)
MCSetups ==
    [who : {{r1, r2}}, fresh : {{r1, r2}}, overlap : {TRUE}, begun : BOOLEAN, tool : {"unsafe"}, gated : {FALSE}, registry : {FALSE}]
    \cup [who : {Requests}, fresh : {Requests}, overlap : {FALSE}, begun : {FALSE}, tool : {"unsafe"}, gated : BOOLEAN, registry : {FALSE}]
    \cup [who : {Requests}, fresh : {{r1}}, overlap : {TRUE}, begun : {TRUE}, tool : {"unsafe"}, gated : {TRUE}, registry : {TRUE}]
    \cup [who : {{r1, r2}}, fresh : {{r1}}, overlap : {TRUE}, begun : {TRUE}, tool : {"unsafe"}, gated : {FALSE}, registry : {TRUE}]
    \cup [who : {{r1, r2}}, fresh : {{r1, r2}}, overlap : {FALSE}, begun : {TRUE}, tool : {"read_only"}, gated : {TRUE}, registry : {TRUE}]

-----------------------------------------------------------------------------
(* MCP servers over both transports, bound, delegated and with credentials.  *)
Declared(t, cmd, e, o, s, d) ==
    [transport |-> t, command |-> cmd, endpoint |-> e, override |-> o, secret |-> s, delegated |-> d]

MCServers ==
    {Declared("http", FALSE, "tls", "none", "vault", TRUE), Declared("http", FALSE, "tls", "none", "none", FALSE),
     Declared("http", FALSE, "tls", "remote", "aws", FALSE), Declared("http", FALSE, "remote", "local", "aws", FALSE),
     Declared("stdio", TRUE, "none", "none", "aws", TRUE), Declared("stdio", FALSE, "none", "none", "none", FALSE),
     Declared("stdio", TRUE, "none", "tls", "none", FALSE)}

-----------------------------------------------------------------------------
(* HTTP: invocations and A2A calls of two callers and of nobody.             *)
Shape(r, c, st, z) == [route |-> r, caller |-> c, stream |-> st, size |-> z]

MCShapes ==
    {Shape("invoke", c, FALSE, "fits") : c \in {al, bo, NoOne}}
    \cup {Shape("invoke", al, TRUE, "fits"), Shape("invoke", al, FALSE, "declared"),
          Shape("invoke", bo, FALSE, "chunked"), Shape("invoke", bo, FALSE, "malformed"),
          Shape("rpc", al, FALSE, "fits"), Shape("rpc", NoOne, FALSE, "fits"), Shape("rpc_old", al, FALSE, "fits")}

Served(a, r, x, l, s, m) ==
    [most |-> m, auth |-> a, required |-> r, a2a |-> x, limited |-> l, streaming |-> s]

MCHttpConfigs ==
    {Served(FALSE, TRUE, TRUE, FALSE, TRUE, 2), Served(TRUE, TRUE, TRUE, FALSE, TRUE, 3),
     Served(TRUE, FALSE, FALSE, TRUE, FALSE, 3), Served(FALSE, FALSE, TRUE, TRUE, TRUE, 2)}

-----------------------------------------------------------------------------
(* Deployments: every setting on its own, the refused ones included, and one *)
(* deployment with everything, for both runtimes.                            *)
NoLists == [allow |-> {}, deny |-> {}]

AllowAll ==
    [lists |-> [k \in Kinded |-> NoLists], models |-> NoLists, providers |-> NoLists,
     side |-> "allow", approval |-> FALSE, rules |-> <<>>]

Unset == [def |-> "none", env |-> "none", var |-> "none"]

Bare ==
    [runtime |-> Unset, provider |-> [Unset EXCEPT !.def = "openai"], modelId |-> [Unset EXCEPT !.def = "m1"],
     endpoint |-> [Unset EXCEPT !.def = "http"], key |-> Unset, environ |-> {}, vault |-> {}, tokens |-> {},
     audit |-> [sink |-> "stdout", file |-> FALSE, db |-> FALSE], limits |-> {}, level |-> TRUE,
     exchange |-> "none", origins |-> {}, auth |-> [mode |-> "none", issuer |-> FALSE, audience |-> FALSE],
     store |-> [endpoint |-> "none", answer |-> "policy"],
     catalog |-> [endpoint |-> "none", answer |-> "entry", provider |-> "none", modelId |-> "none",
                  at |-> "none", ref |-> "none"],
     model |-> TRUE, creds |-> {}, mcp |-> FALSE, bound |-> {}, tools |-> {}, toolUse |-> TRUE,
     injected |-> FALSE, refs |-> FALSE, skills |-> {}, policy |-> AllowAll,
     knowledge |-> FALSE, knowledgeEndpoint |-> "none", persistence |-> "none", sessionEndpoint |-> "none",
     memory |-> FALSE, memoryEndpoint |-> "none", operations |-> "none", approvals |-> "none", identity |-> FALSE]

Complete ==
    [Bare EXCEPT !.mcp = TRUE, !.exchange = "http", !.tools = {"native", "mcp"}, !.knowledge = TRUE,
                 !.knowledgeEndpoint = "http", !.persistence = "external", !.sessionEndpoint = "redis",
                 !.memory = TRUE, !.memoryEndpoint = "postgres", !.operations = "redis", !.approvals = "redis",
                 !.refs = TRUE, !.store.endpoint = "http", !.key.def = "kd", !.environ = {"kd"}, !.vault = {"kd"},
                 !.identity = TRUE, !.auth = [mode |-> "oidc", issuer |-> TRUE, audience |-> TRUE]]

OnGoogle(d) == [d EXCEPT !.runtime.var = "google-adk", !.approvals = "none"]

Stores(d) ==
    {[d EXCEPT !.persistence = p, !.sessionEndpoint = e] :
        p \in {"none", "memory", "sqlite", "external"}, e \in {"none", "memory", "sqlite", "redis", "other"}}
    \cup {[d EXCEPT !.memory = m, !.memoryEndpoint = e] : m \in BOOLEAN, e \in {"none", "memory", "postgres", "other"}}
    \cup {[d EXCEPT !.operations = e] : e \in {"redis", "other"}}
    \cup {[d EXCEPT !.approvals = e] : e \in {"redis", "postgres"}}
    \cup {[d EXCEPT !.knowledge = TRUE, !.knowledgeEndpoint = e] : e \in {"none", "sqlite", "other"}}

Capabilities(d) ==
    {[d EXCEPT !.mcp = m, !.tools = t, !.bound = b] :
        m \in BOOLEAN, t \in {{"mcp"}, {"unknown"}}, b \in {{}, {"declared"}, {"unknown"}}}
    \cup {[d EXCEPT !.tools = {"native"}, !.toolUse = FALSE]}
    \cup {[d EXCEPT !.refs = TRUE, !.injected = i, !.store.endpoint = e, !.store.answer = a] :
            i \in BOOLEAN, e \in {"none", "http", "other"}, a \in {"policy", "none"}}
    \cup {[d EXCEPT !.injected = TRUE, !.policy.models.deny = {"m1"}],
          [d EXCEPT !.injected = TRUE, !.policy.providers.allow = {"fake"}],
          [d EXCEPT !.injected = TRUE, !.mcp = TRUE, !.policy.lists["mcp"].deny = {"server"}],
          [d EXCEPT !.injected = TRUE, !.skills = {"s1"}, !.policy.lists["skill"].deny = {"s1"}]}

Settings(d) ==
    {[d EXCEPT !.auth.mode = m, !.auth.issuer = i, !.auth.audience = TRUE, !.identity = q] :
        m \in {"none", "oidc", "other"}, i \in BOOLEAN, q \in BOOLEAN}
    \cup {[d EXCEPT !.audit.sink = a, !.audit.file = f] : a \in {"none", "file", "sqlite", "other"}, f \in BOOLEAN}
    \cup {[d EXCEPT !.origins = o] : o \in {{"*"}, {"*", "origin"}, {"path"}, {"empty"}}}
    \cup {[d EXCEPT !.provider.var = p] : p \in {"google", "fake"}}
    \cup {[d EXCEPT !.provider.var = "google", !.endpoint.def = "none"]}
    \cup {[d EXCEPT !.limits = {0}], [d EXCEPT !.level = FALSE], [d EXCEPT !.tokens = {"t"}], [d EXCEPT !.runtime.var = "other"]}
    \cup {[d EXCEPT !.key = [def |-> "kd", env |-> x, var |-> "set"], !.environ = e, !.vault = v] :
            x \in {"none", "ke"}, e \in {{}, {"kd"}}, v \in {{}, {"kd"}}}
    \cup {[d EXCEPT !.catalog.endpoint = "http", !.catalog.answer = a, !.catalog.ref = r, !.provider.def = "none",
                    !.catalog.provider = "anthropic"] : a \in {"entry", "none"}, r \in {"none", "kc"}}
    \cup {[d EXCEPT !.provider.def = p, !.endpoint.def = e, !.modelId.def = i] :
            p \in {"none", "fake", "anthropic", "openai", "google", "other"}, e \in {"none", "http"}, i \in {"none", "m1"}}

MCDeployments ==
    UNION {Stores(d) \cup Capabilities(d) \cup Settings(d) : d \in {Bare, OnGoogle(Bare)}}
    \cup {Complete, OnGoogle(Complete)}

-----------------------------------------------------------------------------
(* Policies with up to two rules, on the caller's role, and the questions.   *)
Rule(e, a, c) == [effect |-> e, resources |-> {<<k, "x">> : k \in Kinded \cup {"model", "side_effect"}}, actions |-> a, conditions |-> c]

MCRules ==
    {Rule(e, a, c) : e \in {"allow", "deny"}, a \in {{}, {"invoke"}, {"execute", "connect"}},
                     c \in {{}, {[key |-> "role", op |-> "in", values |-> {"admin"}]},
                            {[key |-> "role", op |-> "not_in", values |-> {"admin"}]},
                            {[key |-> "role", op |-> "exists", values |-> {}]}}}

MCPolicies ==
    {[AllowAll EXCEPT !.rules = rs] : rs \in {<<>>} \cup {<<a, b>> : a, b \in MCRules}}
    \cup {[AllowAll EXCEPT !.lists = [k \in Kinded |-> l], !.models = l, !.providers = m, !.side = s, !.approval = a, !.rules = rs] :
            l, m \in {NoLists, [allow |-> {"y"}, deny |-> {}], [allow |-> {"x"}, deny |-> {"x"}]},
            s \in {"allow", "deny"}, a \in BOOLEAN, rs \in {<<>>} \cup {<<r>> : r \in MCRules}}

MCQuestions ==
    {[kind |-> k, name |-> "x", also |-> "none", provider |-> "none", context |-> ("role" :> v)] :
        k \in Kinded \cup {"side_effect"}, v \in {"admin", Missing}}
    \cup {[kind |-> "model", name |-> "x", also |-> i, provider |-> p, context |-> ("role" :> "guest")] :
            i \in {"none", "y"}, p \in {"none", "x"}}

-----------------------------------------------------------------------------
(* Knowledge: contents of different lengths, one blank, one irrelevant.      *)
MCContents == {"long", "short", "blank", "other"}
MCSize == "long" :> 3 @@ "short" :> 1 @@ "blank" :> 0 @@ "other" :> 2
MCRelevance == "long" :> 2 @@ "short" :> 1 @@ "blank" :> 1 @@ "other" :> 0

MCBudgets ==
    [kind : {"sqlite", "http"}, limit : {2}, each : {3}, total : {3, 5}]
    \cup [kind : {"http"}, limit : {1, 2}, each : {2}, total : {3, 5}]

(* Streamed answers with up to two calls of up to two fragments.             *)
MCAnswers == {[wire |-> w, texts |-> t, calls |-> c] :
                w \in {"openai", "anthropic"}, t \in 0..2, c \in {<<>>, <<2>>, <<2, 2>>, <<0, 1, 2>>}}

-----------------------------------------------------------------------------
Parts == {"google", "mcp", "http", "process", "policy", "knowledge", "stream"}

(* The parts that do not run are pinned to one of their initial states.      *)
One(S) == CHOOSE x \in S : TRUE

MCInit ==
    /\ part \in Parts
    /\ setup \in IF part = "google" THEN Setups ELSE {One(Setups)}
    /\ server \in IF part = "mcp" THEN Servers ELSE {One(Servers)}
    /\ hcfg \in IF part = "http" THEN HttpConfigs ELSE {One(HttpConfigs)}
    /\ deployment \in IF part = "process" THEN Deployments ELSE {One(Deployments)}
    /\ budget \in IF part = "knowledge" THEN Budgets ELSE {One(Budgets)}
    /\ answer \in IF part = "stream" THEN StreamAnswers ELSE {One(StreamAnswers)}
    /\ Init /\ McpInit /\ HttpInit /\ ProcInit /\ PolInit /\ KnInit /\ MsInit

MCNext ==
    /\ UNCHANGED part
    /\ \/ part = "google" /\ Next /\ UNCHANGED <<mpvars, hvars, prvars, plvars, knvars, msvars>>
       \/ part = "mcp" /\ McpNext /\ UNCHANGED <<vars, hvars, prvars, plvars, knvars, msvars>>
       \/ part = "http" /\ HttpNext /\ UNCHANGED <<vars, mpvars, prvars, plvars, knvars, msvars>>
       \/ part = "process" /\ ProcNext /\ UNCHANGED <<vars, mpvars, hvars, plvars, knvars, msvars>>
       \/ part = "policy" /\ PolNext /\ UNCHANGED <<vars, mpvars, hvars, prvars, knvars, msvars>>
       \/ part = "knowledge" /\ KnNext /\ UNCHANGED <<vars, mpvars, hvars, prvars, plvars, msvars>>
       \/ part = "stream" /\ MsNext /\ UNCHANGED <<vars, mpvars, hvars, prvars, plvars, knvars>>

MCSpec == MCInit /\ [][MCNext]_mcvars

MCMcpSpec == part = "mcp" /\ MCInit /\ [][MCNext]_mcvars

(* The requests of the HTTP API are interchangeable.                         *)
Interchangeable == Permutations(HttpReqs)
=============================================================================
