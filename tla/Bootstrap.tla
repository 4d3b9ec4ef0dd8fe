------------------------------ MODULE Bootstrap ------------------------------
(* From a definition and a deployment to the resources of a runtime:         *)
(* resolve_config() and validate_config() (src/micro_agent/config/config.py) *)
(* and the builders of build_runtime() (src/micro_agent/config/bootstrap.py).*)
(*                                                                           *)
(* A deployment d is a record: the settings in their layers, each "none" or  *)
(* a class of values (an endpoint is its scheme), and the declarations of    *)
(* the definition.  A builder returns the kind of provider it constructs,    *)
(* "none", or "error" for a BootstrapError.                                  *)
EXTENDS Policy

(* Definition overrides, the environment layer and the MICRO_AGENT_          *)
(* variables, in this order: a later one that is set replaces an earlier.    *)
EnvironmentLayer(s) == IF s.env # "none" THEN s.env ELSE s.def

Layered(s) == IF s.var # "none" THEN s.var ELSE EnvironmentLayer(s)

(* A secret reference names the key of the environment layer or, without     *)
(* one, of the definition; it replaces the variable even when it does not    *)
(* resolve, and the credential provider is the fallback for the              *)
(* definition's reference only.                                              *)
SecretRefOf(d) == IF d.key.env # "none" THEN d.key.env ELSE d.key.def

SecretLayer(d) ==
    LET ref == SecretRefOf(d)
    IN IF ref = "none" THEN d.key.var ELSE IF ref \in d.environ THEN ref ELSE "none"

ModelKey(d) ==
    IF d.key.def # "none" /\ SecretLayer(d) = "none"
    THEN IF d.key.def \in d.vault THEN d.key.def ELSE "error"
    ELSE SecretLayer(d)

-----------------------------------------------------------------------------
(* validate_config(): the error diagnostics.                                 *)

AuditErrors(d) ==
    \/ d.audit.sink \notin {"none", "stdout", "file", "sqlite"}
    \/ d.audit.sink = "file" /\ ~d.audit.file
    \/ d.audit.sink = "sqlite" /\ ~d.audit.file /\ ~d.audit.db

LimitErrors(d) == \E l \in d.limits : l < 1

EndpointErrors(d) == \E e \in {d.store.endpoint, d.catalog.endpoint, d.exchange} : e \notin {"none", "http"}

(* The wildcard is the only origin that is not a URL without a path.         *)
OriginErrors(d) ==
    \/ d.origins \cap {"empty", "path"} # {}
    \/ "*" \in d.origins /\ Cardinality(d.origins) > 1

AuthErrors(d) ==
    \/ d.auth.mode \notin {"none", "oidc"}
    \/ d.auth.mode = "oidc" /\ ~(d.auth.issuer /\ d.auth.audience)

ValidateConfig(d) ==
    d.level /\ ~(AuditErrors(d) \/ LimitErrors(d) \/ EndpointErrors(d) \/ OriginErrors(d) \/ AuthErrors(d))

-----------------------------------------------------------------------------
(* _resolve_definition_config(): the catalog fills what no layer has set,    *)
(* and its credential reference is used when the definition has none.        *)

TokensAvailable(d) == d.tokens \subseteq d.environ \cup d.vault

UsesCatalog(d) == d.catalog.endpoint # "none" /\ d.model

FromCatalog(d, set, entry) == IF UsesCatalog(d) /\ set = "none" THEN entry ELSE set

Effective(d) ==
    [runtime |-> Layered(d.runtime),
     provider |-> FromCatalog(d, Layered(d.provider), d.catalog.provider),
     modelId |-> FromCatalog(d, Layered(d.modelId), d.catalog.modelId),
     endpoint |-> FromCatalog(d, Layered(d.endpoint), d.catalog.at)]

CatalogKey(d) ==
    LET key == ModelKey(d)
        ref == d.catalog.ref
    IN CASE key = "error" -> "error"
         [] key # "error" /\ UsesCatalog(d) /\ d.key.def = "none" /\ ref # "none" ->
                IF key # "none" THEN key ELSE IF ref \in d.vault THEN ref ELSE "error"
         [] OTHER -> key

ResolveDefinitionConfig(d) ==
    IF \/ ~ValidateConfig(d) \/ ~TokensAvailable(d)
       \/ UsesCatalog(d) /\ d.catalog.answer # "entry"
       \/ CatalogKey(d) = "error"
    THEN "error" ELSE "none"

RuntimeName(d) ==
    LET name == Effective(d).runtime
    IN IF name = "none" THEN "custom" ELSE IF name = "other" THEN "error" ELSE name

-----------------------------------------------------------------------------
(* The builders, in the order build_runtime() calls them.                    *)

CredentialBindings(d) ==
    IF d.creds \cup ({d.key.def} \ {"none"}) \subseteq d.vault THEN "none" ELSE "error"

TokenExchange(d) == IF d.mcp /\ d.exchange # "none" THEN "exchange" ELSE "none"

(* A binding of a server that is not declared is refused.                    *)
McpManager(d) == IF d.bound \ (IF d.mcp THEN {"declared"} ELSE {}) # {} THEN "error"
                 ELSE IF d.mcp THEN "mcp" ELSE "none"

ToolBindings(d) ==
    IF "unknown" \in d.tools \/ ("mcp" \in d.tools /\ ~d.mcp) THEN "error" ELSE "none"

(* Declared policy references must resolve; a policy that is only injected   *)
(* applies too.  The store is asked once and its client closed.              *)
ResolvePolicy(d) ==
    CASE d.injected -> "policy"
      [] ~d.injected /\ ~d.refs -> "none"
      [] ~d.injected /\ d.refs ->
            IF d.store.endpoint # "none" /\ d.store.answer = "policy" THEN "policy" ELSE "error"

KnowledgeProvider(d) ==
    CASE ~d.knowledge -> "none"
      [] d.knowledge /\ d.knowledgeEndpoint = "none" -> "memory"
      [] d.knowledge /\ d.knowledgeEndpoint \in {"http", "sqlite"} -> d.knowledgeEndpoint
      [] OTHER -> "error"

(* Both file sinks need a path, the SQLite one accepts either.               *)
AuditSink(d) ==
    CASE d.audit.sink = "file" -> IF d.audit.file THEN "file" ELSE "error"
      [] d.audit.sink = "sqlite" -> IF d.audit.file \/ d.audit.db THEN "sqlite" ELSE "error"
      [] OTHER -> IF d.audit.sink \in {"none", "stdout"} THEN d.audit.sink ELSE "error"

(* A Google provider needs the google-adk runtime without an endpoint; an    *)
(* endpoint alone asks for the OpenAI-compatible provider.                   *)
ModelProvider(d) ==
    LET e == Effective(d)
    IN CASE e.provider = "google" ->
                IF RuntimeName(d) = "google-adk" /\ e.endpoint = "none"
                   /\ (e.modelId # "none" \/ d.model) THEN "native" ELSE "error"
         [] e.provider = "fake" -> "fake"
         [] e.provider = "anthropic" -> IF e.modelId = "none" THEN "error" ELSE "anthropic"
         [] e.provider = "openai" \/ (e.provider \in {"none", "other"} /\ e.endpoint # "none") ->
                IF e.endpoint = "none" \/ e.modelId = "none" THEN "error" ELSE "openai"
         [] OTHER -> "error"

SessionProvider(d) ==
    LET e == d.sessionEndpoint
    IN CASE d.persistence = "none" -> IF e = "none" THEN "none" ELSE "error"
         [] d.persistence = "memory" -> IF e \in {"none", "memory"} THEN "memory" ELSE "error"
         [] d.persistence = "sqlite" -> IF e \in {"none", "sqlite"} THEN "sqlite" ELSE "error"
         [] d.persistence = "external" -> IF e \in {"redis", "postgres"} THEN e ELSE "error"

MemoryProvider(d) ==
    LET e == d.memoryEndpoint
    IN CASE ~d.memory -> IF e = "none" THEN "none" ELSE "error"
         [] d.memory /\ e \in {"none", "memory"} -> "memory"
         [] d.memory /\ e \in {"redis", "postgres"} -> e
         [] OTHER -> "error"

OperationRegistryOf(d) == IF d.operations \in {"none", "redis", "postgres"} THEN d.operations ELSE "error"

(* The Google adapter has no durable approvals and refuses an endpoint.      *)
ApprovalStore(d) ==
    IF RuntimeName(d) = "google-adk" THEN IF d.approvals = "none" THEN "none" ELSE "error"
    ELSE IF d.approvals \in {"none", "redis"} THEN d.approvals ELSE "error"

Authenticator(d) ==
    IF d.auth.mode = "none" THEN "none"
    ELSE IF d.auth.mode = "oidc" /\ d.auth.issuer /\ d.auth.audience THEN "oidc" ELSE "error"
=============================================================================
