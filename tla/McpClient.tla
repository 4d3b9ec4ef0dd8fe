----------------------------- MODULE McpClient -----------------------------
(***************************************************************************)
(* One MCP server of a definition: the connection manager (mcp/client.py), *)
(* the SDK wire client with its connection task and its reconnects         *)
(* (mcp/sdk_client.py), and the credentials of the connection and of each  *)
(* request (security/credentials.py, security/delegation.py).              *)
(*                                                                         *)
(* A step ends where the code awaits.  The SDK session is external: it     *)
(* numbers its requests from 0, initialize() takes the first number, and a *)
(* request takes its number when the coroutine first runs, which without   *)
(* token exchange is in the step that reserved it.  Credentials and trace  *)
(* carriers are named after the call they were captured for.               *)
(***************************************************************************)
EXTENDS Naturals, FiniteSets, FiniteSetsExt

CONSTANTS
    McpCalls,       \* calls of the server's tools
    Servers,        \* declarations of a server together with its deployment binding
    NoCall,         \* not a call
    Attempts,       \* _reconnect_attempts
    MaxLinks        \* bound on the sessions made

ASSUME McpAssumption ==
    /\ NoCall \notin McpCalls /\ IsFiniteSet(McpCalls) /\ Attempts \in Nat /\ MaxLinks \in Nat
    /\ \A s \in Servers :
        /\ s.transport \in {"http", "stdio"} /\ {s.command, s.delegated} \subseteq BOOLEAN
        /\ {s.endpoint, s.override} \subseteq {"none", "tls", "tls_unlisted", "local", "remote"}
        /\ s.secret \in {"none", "vault", "aws"}

VARIABLES
    server,     \* rigid: the declaration
    mgr,        \* where connect_server() or aclose() is
    link,       \* the client: state, task, ref (_task is set), once, closing, ready, tries, session, endpoint
    actor,      \* the resolved credential of the connection
    links,      \* sessions made so far; also the identity of the latest
    nextId,     \* the session's _request_id
    traces,     \* _trace_contexts: request number -> call
    creds,      \* _request_credentials: request number -> call
    mcall,      \* the calls: pc, session, id (reserved), num (taken)
    carried     \* <<call, trace, credential>> of the requests the transport emitted

mpvars == <<server, mgr, link, actor, links, nextId, traces, creds, mcall, carried>>

TaskStates == {"none", "enter", "hold", "backoff", "exit", "cancel", "gone"}
Empty == [i \in {} |-> NoCall]
Without(f, i) == [j \in DOMAIN f \ {i} |-> f[j]]
With(f, i, c) == [j \in DOMAIN f \cup {i} |-> IF j = i THEN c ELSE f[j]]

McpTypeOK ==
    /\ server \in Servers
    /\ mgr \in {"idle", "exchange", "connect", "abort", "discover", "up", "failed", "close", "kill", "closed"}
    /\ link.state \in {"disconnected", "connecting", "connected", "error"} /\ link.task \in TaskStates
    /\ {link.ref, link.once, link.closing, link.ready} \subseteq BOOLEAN
    /\ link.tries \in 0..Attempts + 1 /\ link.session \in 0..links /\ links \in 0..MaxLinks
    /\ (link.task \in {"hold", "exit"} => link.session # 0)
    /\ (link.session # 0 => link.task \in {"hold", "exit", "cancel"})
    /\ (link.ref => link.task # "none")
    /\ actor \in {"none", "actor", "delegated"} /\ nextId \in Nat
    /\ Range(traces) \cup Range(creds) \subseteq McpCalls
    /\ \A c \in McpCalls : mcall[c].pc \in {"idle", "exchange", "queued", "sent", "late", "done", "error"}

McpInit ==
    /\ server \in Servers /\ mgr = "idle"
    /\ link = [state |-> "disconnected", task |-> "none", ref |-> FALSE, once |-> FALSE, closing |-> FALSE,
               ready |-> FALSE, tries |-> 0, session |-> 0, endpoint |-> "none"]
    /\ actor = "none" /\ links = 0 /\ nextId = 0 /\ traces = Empty /\ creds = Empty
    /\ mcall = [c \in McpCalls |-> [pc |-> "idle", session |-> 0, id |-> 0, num |-> 0]]
    /\ carried = {}

requests == <<nextId, traces, creds, mcall, carried>>

------------------------------------------------------------------------------
(* What the connection is made with.                                         *)

\* McpSecurityPolicy.validate() of an endpoint, with an allowlist and TLS required.
Acceptable(e) == e \in {"tls", "local"}

\* VaultCredentialProvider.resolve(): what a KV v2 answer comes to.
VaultResolve(answer) ==
    IF answer \in {"not_found", "no_field"} THEN "none"
    ELSE IF answer = "text" THEN "value"
    ELSE "error"

\* AwsSecretsManagerCredentialProvider.resolve(): a binary secret is decoded first.
AwsResolve(answer) ==
    IF answer \in {"not_found", "no_field"} THEN "none"
    ELSE IF answer \in {"text", "binary"} THEN "value"
    ELSE "error"

\* What the secret store can answer: the last four are failures of the lookup or of its contract.
Answers == {"not_found", "no_field", "text", "binary", "unreachable", "status", "malformed", "not_text"}

Resolved(answer) == IF server.secret = "vault" THEN VaultResolve(answer) ELSE AwsResolve(answer)

\* _resolve_credential(): a declared credential must be there.
ResolveCredential(answer) ==
    IF server.secret = "none" THEN "none"
    ELSE IF Resolved(answer) = "value" THEN "actor" ELSE "refused"

\* connect_server() up to the credential: the binding replaces the endpoint, then the result is validated.
Endpoint ==
    IF server.transport = "stdio"
    THEN [use |-> "none", ok |-> server.override = "none" /\ server.command]
    ELSE LET e == IF server.override = "none" THEN server.endpoint ELSE server.override
         IN  [use |-> e, ok |-> Acceptable(e)]

\* HttpTokenExchangeProvider.exchange() is asked per request, except for a stdio server.
PerRequest == server.delegated /\ server.transport = "http"

\* SdkMcpClient.connect(): a fresh client starts its connection task.
Connecting(e) == [link EXCEPT !.state = "connecting", !.task = "enter", !.ref = TRUE, !.once = FALSE,
                              !.closing = FALSE, !.ready = FALSE, !.tries = 0, !.endpoint = e]

ConnectServer(answer) ==
    /\ mgr = "idle"
    /\ LET a == ResolveCredential(answer) IN
       IF ~Endpoint.ok \/ a = "refused"
       THEN mgr' = "failed" /\ UNCHANGED <<link, actor>>
       ELSE /\ actor' = a
            /\ IF PerRequest THEN mgr' = "exchange" /\ UNCHANGED link
               ELSE mgr' = "connect" /\ link' = Connecting(Endpoint.use)
    /\ UNCHANGED <<server, links, requests>>

\* _resolve_downstream_credential(): a token is issued, or the request or its answer fails.
Exchanged(ok) ==
    /\ mgr = "exchange"
    /\ IF ok THEN mgr' = "connect" /\ actor' = "delegated" /\ link' = Connecting(Endpoint.use)
             ELSE mgr' = "failed" /\ UNCHANGED <<actor, link>>
    /\ UNCHANGED <<server, links, requests>>

------------------------------------------------------------------------------
(* The connection task, _run().                                              *)

Cleared == traces' = Empty /\ creds' = Empty

\* initialize() has answered.
Initialized ==
    /\ link.task = "enter" /\ links < MaxLinks
    /\ links' = links + 1 /\ nextId' = 1
    /\ link' = [link EXCEPT !.task = "hold", !.session = links + 1, !.once = TRUE,
                            !.state = "connected", !.ready = TRUE, !.tries = 0]
    /\ UNCHANGED <<server, mgr, actor, traces, creds, mcall, carried>>

\* The handler of a transport failure: no session, and another attempt or none.
Lost ==
    IF ~link.once \/ link.closing
    THEN [link EXCEPT !.session = 0, !.state = "error", !.ready = TRUE, !.task = "gone"]
    ELSE IF link.tries + 1 > Attempts
    THEN [link EXCEPT !.session = 0, !.state = "error", !.ready = TRUE, !.task = "gone", !.tries = @ + 1]
    ELSE [link EXCEPT !.session = 0, !.state = "connecting", !.ready = TRUE, !.task = "backoff", !.tries = @ + 1]

\* The reservations are cleared by the finally clause, which runs after the backoff.
TransportFails ==
    /\ link.task \in {"enter", "hold", "exit", "cancel"}
    /\ link' = Lost
    /\ IF Lost.task = "gone" THEN Cleared ELSE UNCHANGED <<traces, creds>>
    /\ UNCHANGED <<server, mgr, actor, links, nextId, mcall, carried>>

\* The delay is over, or _closing is set.
BackoffEnds ==
    /\ link.task = "backoff"
    /\ link' = [link EXCEPT !.task = IF link.closing THEN "gone" ELSE "enter"]
    /\ Cleared
    /\ UNCHANGED <<server, mgr, actor, links, nextId, mcall, carried>>

\* _closing is set while the transport is held: its contexts are left.
CloseSeen ==
    /\ link.task = "hold" /\ link.closing
    /\ link' = [link EXCEPT !.task = "exit"]
    /\ UNCHANGED <<server, mgr, actor, links, requests>>

\* The contexts have been left, after _closing or by a cancellation.
TaskEnds ==
    /\ link.task \in {"exit", "cancel"}
    /\ link' = [link EXCEPT !.task = "gone", !.session = 0]
    /\ Cleared
    /\ UNCHANGED <<server, mgr, actor, links, nextId, mcall, carried>>

------------------------------------------------------------------------------
(* connect(), discover() and disconnect(), as the manager runs them.         *)

\* Task.cancel().
Cancelled == [link EXCEPT !.task = IF @ = "gone" THEN "gone" ELSE "cancel"]

\* A connection that has meanwhile been lost again is refused; its task goes on.
ConnectReturns ==
    /\ mgr = "connect" /\ link.ready
    /\ IF link.once
       THEN mgr' = (IF link.state = "connected" THEN "discover" ELSE "failed") /\ UNCHANGED link
       ELSE mgr' = "failed" /\ link' = [link EXCEPT !.state = "error", !.ref = FALSE]
    /\ UNCHANGED <<server, actor, links, requests>>

ConnectTimesOut ==
    /\ mgr = "connect" /\ ~link.ready
    /\ mgr' = "abort"
    /\ link' = [Cancelled EXCEPT !.state = "error", !.closing = TRUE]
    /\ UNCHANGED <<server, actor, links, requests>>

\* _abort().
Aborted ==
    /\ mgr = "abort" /\ link.task = "gone"
    /\ mgr' = "failed"
    /\ link' = [link EXCEPT !.ref = FALSE, !.session = 0]
    /\ UNCHANGED <<server, actor, links, requests>>

Usable == link.session # 0 /\ link.state = "connected"

\* Three requests; a failure of the first fails the connection, whose task goes on.
Discover(ok) ==
    /\ mgr = "discover" /\ (ok => Usable)
    /\ mgr' = IF ok THEN "up" ELSE "failed"
    /\ nextId' = IF ok THEN nextId + 3 ELSE nextId
    /\ UNCHANGED <<server, link, actor, links, traces, creds, mcall, carried>>

\* aclose(): only a client that has been registered is disconnected.
Aclose ==
    /\ mgr \in {"up", "failed"}
    /\ IF mgr = "up" THEN mgr' = "close" /\ link' = [link EXCEPT !.closing = TRUE]
                     ELSE mgr' = "closed" /\ UNCHANGED link
    /\ UNCHANGED <<server, actor, links, requests>>

\* Mutant of DisconnectTimesOut: the connection task is left behind.
DisconnectTimesOutLeaving ==
    /\ mgr = "close" /\ link.task # "gone"
    /\ mgr' = "closed"
    /\ link' = [link EXCEPT !.ref = FALSE, !.state = "disconnected"]
    /\ UNCHANGED <<server, actor, links, requests>>

DisconnectTimesOut ==
    /\ mgr = "close" /\ link.task # "gone"
    /\ mgr' = "kill" /\ link' = Cancelled
    /\ UNCHANGED <<server, actor, links, requests>>

Disconnected ==
    /\ mgr \in {"close", "kill"} /\ link.task = "gone"
    /\ mgr' = "closed"
    /\ link' = [link EXCEPT !.ref = FALSE, !.session = 0, !.state = "disconnected"]
    /\ UNCHANGED <<server, actor, links, requests>>

\* health_probe() of the registered client.
HealthProbe == mgr \in {"up", "close", "kill"} /\ link.state = "connected"

------------------------------------------------------------------------------
(* call_tool() and the credential and trace carrier of its request.          *)

\* _reserve_trace_context(): the session's next number that is not reserved.
Reserve == Min({i \in nextId .. nextId + Cardinality(McpCalls) : i \notin DOMAIN traces})

\* The SDK takes a number for the request and hands it to the transport task.
Taken(c, i) == [mcall[c] EXCEPT !.pc = "queued", !.id = i, !.session = link.session, !.num = nextId]

\* McpToolAdapter.execute() up to the first await: the session at hand is the one the call will use.
CallTool(c) ==
    /\ mcall[c].pc = "idle" /\ mgr \in {"up", "close", "kill", "closed"}
    /\ IF ~Usable
       THEN mcall' = [mcall EXCEPT ![c].pc = "error"] /\ UNCHANGED <<nextId, traces, creds>>
       ELSE /\ traces' = With(traces, Reserve, c)
            /\ IF PerRequest
               THEN /\ mcall' = [mcall EXCEPT ![c] = [@ EXCEPT !.pc = "exchange", !.id = Reserve, !.session = link.session]]
                    /\ UNCHANGED <<nextId, creds>>
               ELSE /\ creds' = With(creds, Reserve, c)
                    /\ mcall' = [mcall EXCEPT ![c] = Taken(c, Reserve)]
                    /\ nextId' = nextId + 1
    /\ UNCHANGED <<server, mgr, link, actor, links, carried>>

\* The finally clause of _with_trace_context().
Release(c, p) ==
    /\ mcall' = [mcall EXCEPT ![c] = [pc |-> p, session |-> 0, id |-> 0, num |-> 0]]
    /\ traces' = Without(traces, mcall[c].id) /\ creds' = Without(creds, mcall[c].id)

\* The exchange for the call answers; the request then takes the number the session is at.
CallExchanged(c, ok) ==
    /\ mcall[c].pc = "exchange"
    /\ IF ok /\ mcall[c].session = link.session
       THEN /\ creds' = With(creds, mcall[c].id, c)
            /\ mcall' = [mcall EXCEPT ![c] = Taken(c, @.id)]
            /\ nextId' = nextId + 1 /\ UNCHANGED traces
       ELSE Release(c, "error") /\ UNCHANGED nextId
    /\ UNCHANGED <<server, mgr, link, actor, links, carried>>

\* What the request hook finds under the number of the request.
At(f, i) == IF i \in DOMAIN f THEN f[i] ELSE NoCall

\* The transport task emits the request.
Emit(c) ==
    /\ mcall[c].pc \in {"queued", "late"} /\ mcall[c].session = link.session /\ link.task = "hold"
    /\ mcall' = [mcall EXCEPT ![c].pc = IF @ = "late" THEN "error" ELSE "sent"]
    /\ carried' = IF server.transport = "http"
                  THEN carried \cup {<<c, At(traces, mcall[c].num), At(creds, mcall[c].num)>>}
                  ELSE carried
    /\ UNCHANGED <<server, mgr, link, actor, links, nextId, traces, creds>>

Answered(c) ==
    /\ mcall[c].pc = "sent" /\ mcall[c].session = link.session
    /\ Release(c, "done")
    /\ UNCHANGED <<server, mgr, link, actor, links, nextId, carried>>

\* A timeout, a lost session, an error of the server or a response that is too large.
CallFails(c) ==
    /\ mcall[c].pc \in {"queued", "sent"}
    /\ IF mcall[c].pc = "sent" THEN Release(c, "error")
       ELSE /\ mcall' = [mcall EXCEPT ![c].pc = "late", ![c].id = 0]
            /\ traces' = Without(traces, mcall[c].id) /\ creds' = Without(creds, mcall[c].id)
    /\ UNCHANGED <<server, mgr, link, actor, links, nextId, carried>>

McpNext ==
    \/ \E a \in Answers : ConnectServer(a)
    \/ \E ok \in BOOLEAN : Exchanged(ok) \/ Discover(ok)
    \/ Initialized \/ TransportFails \/ BackoffEnds \/ CloseSeen \/ TaskEnds
    \/ ConnectReturns \/ ConnectTimesOut \/ Aborted \/ Aclose \/ DisconnectTimesOut \/ Disconnected
    \/ \E c \in McpCalls : \/ CallTool(c) \/ Emit(c) \/ Answered(c) \/ CallFails(c)
                           \/ \E ok \in BOOLEAN : CallExchanged(c, ok)

McpSpec == McpInit /\ [][McpNext]_mpvars

------------------------------------------------------------------------------
(* The endpoint a connection uses passed the validation, whichever of the    *)
(* declaration and the deployment's binding it came from (connect_server).   *)
EndpointValidated == link.endpoint # "none" => Acceptable(link.endpoint)

(* A connection to a server that declares a credential is made with it or    *)
(* with the token it was exchanged for, never without (_resolve_credential). *)
DeclaredCredentialUsed ==
    link.task # "none" /\ server.secret # "none" => actor # "none"

(* "an explicit disconnect never reconnects" (sdk_client.py): once a         *)
(* registered client has been disconnected, no connection task is left and   *)
(* there is neither a session nor a state other than disconnected.           *)
DisconnectFinal ==
    mgr = "closed" /\ link.state = "disconnected" =>
        link.task \in {"none", "gone"} /\ link.session = 0 /\ ~link.ref

(* A health probe that says connected is right: there is a session to send   *)
(* on, also while the connection is being lost and made again, unless a      *)
(* disconnect has begun (health_probe, _require_session).                    *)
HealthHonest == HealthProbe /\ ~link.closing => link.session # 0

(* Where no token is exchanged per request, a request carries the trace      *)
(* context of its own call or none, never that of another call: the number   *)
(* reserved is the number the request takes (_with_trace_context).           *)
OwnTrace == ~PerRequest => \A r \in carried : r[2] \in {r[1], NoCall}

(* Reservations do not outlive their calls: with no call under way both maps *)
(* are empty, whatever reconnects happened meanwhile (_with_trace_context).  *)
NoLeakedReservation ==
    (\A c \in McpCalls : mcall[c].pc \notin {"exchange", "queued", "sent"}) => traces = Empty /\ creds = Empty

(* "The SDK request id is assigned synchronously before the send is awaited; *)
(* reserve that id here" (_with_trace_context): a request carries the        *)
(* delegated credential of its own call, or the connection's when that is    *)
(* gone, never the one issued for another call.                              *)
OwnCredential == \A r \in carried : r[3] \in {r[1], NoCall}

(* One MCP connection over its life, with transport failures, reconnects,    *)
(* timeouts and calls in flight: made as declared, honest about its state,   *)
(* final once disconnected, and without reservations that outlive a call or  *)
(* serve another one (connect_server, _run, disconnect, call_tool).          *)
ConnectionSound ==
    /\ McpTypeOK /\ EndpointValidated /\ DeclaredCredentialUsed
    /\ DisconnectFinal /\ HealthHonest
    /\ OwnTrace /\ NoLeakedReservation
=============================================================================
