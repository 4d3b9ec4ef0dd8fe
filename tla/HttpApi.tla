------------------------------- MODULE HttpApi -------------------------------
(***************************************************************************)
(* The HTTP boundary (interoperability/http_api.py): the application       *)
(* factory, the middleware around every route, the /v1/invoke handler with *)
(* its token bucket, the event stream, and the A2A transport as a route    *)
(* that reaches the same agent.                                            *)
(*                                                                         *)
(* A step ends where the code awaits.  The agent is its lifecycle module;  *)
(* here an invocation is admitted while fewer than AgentLimit are running  *)
(* and ends in one of the ways the handler tells apart.  Tokens and ticks  *)
(* are counted so that one token is added per tick.                        *)
(***************************************************************************)
EXTENDS Naturals, Sequences, FiniteSets, FiniteSetsExt

CONSTANTS
    HttpReqs,
    Shapes,         \* requests: route, caller (NoOne: without valid credentials), stream, size
    HttpConfigs,    \* deployments: auth, required, a2a, limited, streaming, and a bound on the requests
    NoOne,          \* no verified caller; also the limiter's key of such requests
    Callers,
    AgentLimit,     \* max_concurrency of the agent
    Burst, MaxBuckets, IdleTicks, MaxTick

ASSUME HttpAssumption ==
    /\ NoOne \notin Callers /\ {AgentLimit, Burst, MaxBuckets, IdleTicks} \subseteq Nat \ {0} /\ MaxTick \in Nat
    /\ IdleTicks >= Burst       \* a bucket that is dropped as idle has filled up
    /\ \A s \in Shapes : s.route \in {"invoke", "rpc", "rpc_old"} /\ s.caller \in Callers \cup {NoOne}
                         /\ s.stream \in BOOLEAN /\ s.size \in {"fits", "declared", "chunked", "malformed"}
    /\ \A c \in HttpConfigs : {c.auth, c.required, c.a2a, c.limited, c.streaming} \subseteq BOOLEAN /\ c.most \in Nat

VARIABLES
    hcfg,       \* rigid: the deployment
    app,        \* whether create_app() has made the application
    hreq,       \* the requests: pc, shape, id (the verified caller), status, events
    tick,
    buckets,    \* _buckets: key -> tokens and updated_at
    grants,     \* grants[k]: the ticks at which the limiter let k through
    evicted     \* keys whose bucket made room for another

hvars == <<hcfg, app, hreq, tick, buckets, grants, evicted>>

Limited == Callers \cup {NoOne}
NoShape == [route |-> "invoke", caller |-> NoOne, stream |-> FALSE, size |-> "fits"]
Statuses == {0, 200, 400, 401, 403, 404, 406, 413, 422, 429, 500, 503, 504}

HttpTypeOK ==
    /\ hcfg \in HttpConfigs /\ app \in {"none", "up", "refused"}
    /\ \A r \in HttpReqs :
        /\ hreq[r].pc \in {"idle", "verify", "handle", "agent", "stream", "done", "ended"}
        /\ hreq[r].shape \in Shapes \cup {NoShape} /\ hreq[r].id \in Limited
        /\ hreq[r].status \in Statuses /\ (hreq[r].pc \in {"done", "ended"} <=> hreq[r].status # 0)
        /\ hreq[r].events \in Seq({"final", "error"})
    /\ tick \in 0..MaxTick
    /\ DOMAIN buckets \subseteq Limited /\ Cardinality(DOMAIN buckets) <= MaxBuckets
    /\ \A k \in DOMAIN buckets : buckets[k].tokens \in 0..Burst /\ buckets[k].at \in 0..tick
    /\ evicted \subseteq Limited

HttpInit ==
    /\ hcfg \in HttpConfigs /\ app = "none" /\ tick = 0 /\ evicted = {}
    /\ hreq = [r \in HttpReqs |-> [pc |-> "idle", shape |-> NoShape, id |-> NoOne, status |-> 0,
                                   events |-> <<>>, reached |-> FALSE]]
    /\ buckets = [k \in {} |-> 0]
    /\ grants = [k \in Limited |-> <<>>]

limiter == <<buckets, grants, evicted>>

------------------------------------------------------------------------------
(* create_app().                                                             *)

\* A definition that demands a caller identity is not served without an authenticator.
CreateApp ==
    /\ app = "none"
    /\ app' = IF hcfg.required /\ ~hcfg.auth THEN "refused" ELSE "up"
    /\ UNCHANGED <<hcfg, hreq, tick, limiter>>

\* Mutant of AuthenticatedPaths: the A2A transport is left public.
AuthenticatedPathsInvoke == {"invoke"}

\* authenticated_paths.
AuthenticatedPaths == {"invoke"} \cup IF hcfg.a2a /\ hcfg.required THEN {"rpc"} ELSE {}

------------------------------------------------------------------------------
(* The middleware, from the outside in.                                      *)

\* Nothing but its outcome is kept of a request that has been answered.
Answer(p, s, es) == [pc |-> p, shape |-> NoShape, id |-> NoOne, status |-> s, events |-> es, reached |-> FALSE]
Respond(r, s) == hreq' = [hreq EXCEPT ![r] = Answer("done", s, <<>>)]

\* enforce_request_size() refuses a declared length before anything else looks at the request.
Arrive(r, s) ==
    /\ app = "up" /\ hreq[r].pc = "idle" /\ Cardinality({q \in HttpReqs : hreq[q].pc # "idle"}) < hcfg.most
    /\ (s.route # "invoke" => hcfg.a2a)
    /\ IF s.size = "malformed" THEN Respond(r, 400)
       ELSE IF s.size = "declared" THEN Respond(r, 413)
       ELSE hreq' = [hreq EXCEPT ![r].pc = "verify", ![r].shape = s]
    /\ UNCHANGED <<hcfg, app, tick, limiter>>

PathOf(s) == IF s.route = "invoke" THEN "invoke" ELSE "rpc"

\* OidcJwtAuthenticator.authenticate(): the caller a valid token names; any failure verifies no one.
Authenticate(s) == s.caller

\* authenticate_request().
AuthenticateRequest(r) ==
    /\ hreq[r].pc = "verify"
    /\ IF ~hcfg.auth \/ PathOf(hreq[r].shape) \notin AuthenticatedPaths
       THEN hreq' = [hreq EXCEPT ![r].pc = "handle"]
       ELSE IF Authenticate(hreq[r].shape) = NoOne THEN Respond(r, 401)
       ELSE hreq' = [hreq EXCEPT ![r].pc = "handle", ![r].id = Authenticate(hreq[r].shape)]
    /\ UNCHANGED <<hcfg, app, tick, limiter>>

\* guard_a2a_protocol_version().
WrongVersion(r) ==
    /\ hreq[r].pc = "handle" /\ hreq[r].shape.route = "rpc_old"
    /\ Respond(r, 400)
    /\ UNCHANGED <<hcfg, app, tick, limiter>>

\* limited_receive(): a body that grows past the limit while it is read.
BodyTooLarge(r) ==
    /\ hreq[r].pc = "handle" /\ hreq[r].shape.size = "chunked" /\ hreq[r].shape.route # "rpc_old"
    /\ Respond(r, 413)
    /\ UNCHANGED <<hcfg, app, tick, limiter>>

------------------------------------------------------------------------------
(* InMemoryRateLimitStore.consume().                                         *)

\* TokenBucketRateLimiter._default_key().
Key(r) == hreq[r].id

Fresh == [tokens |-> Burst, at |-> tick]

\* Buckets not used for longer than idle_seconds are dropped.
Idle(b) == b.at + IdleTicks < tick

\* The buckets left when k comes, and the one that makes room for k.
Left == {k \in DOMAIN buckets : ~Idle(buckets[k])}
Oldest == CHOOSE k \in Left : \A j \in Left : buckets[k].at <= buckets[j].at

Room(k) == IF k \in Left \/ Cardinality(Left) < MaxBuckets THEN {} ELSE {Oldest}

\* The bucket of k, brought up to date.
Refilled(k) ==
    IF k \notin Left THEN Fresh
    ELSE [tokens |-> Min({Burst, buckets[k].tokens + (tick - buckets[k].at)}), at |-> tick]

\* The buckets after k has asked, with or without having got a token.
Consumed(k) ==
    LET b == Refilled(k)
        c == IF b.tokens >= 1 THEN [b EXCEPT !.tokens = @ - 1] ELSE b
    IN  [j \in (Left \ Room(k)) \cup {k} |-> IF j = k THEN c ELSE buckets[j]]

Allowed(k) == Refilled(k).tokens >= 1

------------------------------------------------------------------------------
(* The /v1/invoke handler up to the agent.                                   *)

Running == {r \in HttpReqs : hreq[r].pc \in {"agent", "stream"} /\ hreq[r].reached}

\* StreamingResponse starts with 200; the agent is reached when the body is iterated.
Enter(r) ==
    IF hreq[r].shape.stream THEN hreq' = [hreq EXCEPT ![r].pc = "stream"]
    ELSE IF Cardinality(Running) >= AgentLimit THEN Respond(r, 429)
    ELSE hreq' = [hreq EXCEPT ![r].pc = "agent", ![r].reached = TRUE]

Handle(r) ==
    /\ hreq[r].pc = "handle" /\ hreq[r].shape.size = "fits" /\ hreq[r].shape.route = "invoke"
    /\ IF hreq[r].shape.stream /\ ~hcfg.streaming THEN Respond(r, 406) /\ UNCHANGED limiter
       ELSE IF ~hcfg.limited THEN Enter(r) /\ UNCHANGED limiter
       ELSE LET k == Key(r) IN
            /\ buckets' = Consumed(k) /\ evicted' = evicted \cup Room(k)
            /\ IF Allowed(k) THEN Enter(r) /\ grants' = [grants EXCEPT ![k] = Append(@, tick)]
                             ELSE Respond(r, 429) /\ UNCHANGED grants
    /\ UNCHANGED <<hcfg, app, tick>>

\* An injected limiter fails.
LimiterFails(r) ==
    /\ hreq[r].pc = "handle" /\ hreq[r].shape.size = "fits" /\ hreq[r].shape.route = "invoke" /\ hcfg.limited
    /\ hreq[r].shape.stream => hcfg.streaming
    /\ Respond(r, 503)
    /\ UNCHANGED <<hcfg, app, tick, limiter>>

\* The A2A transport runs the agent as well; its task protocol answers with 200.
Rpc(r) ==
    /\ hreq[r].pc = "handle" /\ hreq[r].shape.size = "fits" /\ hreq[r].shape.route = "rpc"
    /\ IF Cardinality(Running) >= AgentLimit THEN Respond(r, 200)
       ELSE hreq' = [hreq EXCEPT ![r].pc = "agent", ![r].reached = TRUE]
    /\ UNCHANGED <<hcfg, app, tick, limiter>>

------------------------------------------------------------------------------
(* What the agent's outcome becomes.                                         *)

Outcomes == {"answer", "not_found", "contract", "timeout", "unauthenticated", "denied", "unavailable", "other"}

StatusOf(o) ==
    CASE o = "answer" -> 200
      [] o = "not_found" -> 404         \* ContinuationNotFoundError, CheckpointNotFoundError
      [] o = "contract" -> 422
      [] o = "timeout" -> 504
      [] o = "unauthenticated" -> 401
      [] o = "denied" -> 403
      [] o = "unavailable" -> 503
      [] o = "other" -> 500

AgentEnds(r, o) ==
    /\ hreq[r].pc = "agent"
    /\ Respond(r, IF hreq[r].shape.route = "rpc" THEN 200 ELSE StatusOf(o))
    /\ UNCHANGED <<hcfg, app, tick, limiter>>

\* _stream_invoke(): the agent admits the stream, or it fails as an error event.
StreamOpens(r) ==
    /\ hreq[r].pc = "stream" /\ ~hreq[r].reached
    /\ hreq' = [hreq EXCEPT ![r] = IF Cardinality(Running) >= AgentLimit
                                   THEN Answer("ended", 200, <<"error">>)
                                   ELSE [@ EXCEPT !.reached = TRUE]]
    /\ UNCHANGED <<hcfg, app, tick, limiter>>

\* The response event is passed on as the final event.
StreamFinal(r) ==
    /\ hreq[r].pc = "stream" /\ hreq[r].reached /\ hreq[r].events = <<>>
    /\ hreq' = [hreq EXCEPT ![r].events = <<"final">>]
    /\ UNCHANGED <<hcfg, app, tick, limiter>>

\* The agent's stream is exhausted, or raises before or after its response event.
StreamEnds(r, o) ==
    /\ hreq[r].pc = "stream" /\ hreq[r].reached /\ (o = "answer" => hreq[r].events # <<>>)
    /\ hreq' = [hreq EXCEPT ![r] = Answer("ended", 200, IF o = "answer" THEN @.events ELSE Append(@.events, "error"))]
    /\ UNCHANGED <<hcfg, app, tick, limiter>>

Tick ==
    /\ hcfg.limited /\ tick < MaxTick /\ tick' = tick + 1
    /\ UNCHANGED <<hcfg, app, hreq, limiter>>

HttpNext ==
    \/ CreateApp \/ Tick
    \/ \E r \in HttpReqs :
        \/ \E s \in Shapes : Arrive(r, s)
        \/ AuthenticateRequest(r) \/ WrongVersion(r) \/ BodyTooLarge(r) \/ Handle(r) \/ LimiterFails(r) \/ Rpc(r)
        \/ StreamOpens(r) \/ StreamFinal(r)
        \/ \E o \in Outcomes : AgentEnds(r, o) \/ StreamEnds(r, o)

HttpSpec == HttpInit /\ [][HttpNext]_hvars

------------------------------------------------------------------------------
(* Where the definition demands a caller identity, nothing reaches the agent *)
(* without a verified one, by whichever route it comes: /v1/invoke, its      *)
(* stream or the A2A transport (create_app, authenticate_request).           *)
NoUnverifiedInvocation ==
    hcfg.required => \A r \in HttpReqs : hreq[r].reached => hreq[r].id # NoOne

(* Between any two requests of a caller that were let through, the limiter   *)
(* let through no more than the burst and what was added in that time.  This *)
(* holds while the caller's bucket has not made room for another's; dropping *)
(* idle buckets gives nothing away (InMemoryRateLimitStore.consume).         *)
GrantsBounded ==
    \A k \in Limited \ evicted : \A i, j \in DOMAIN grants[k] :
        i <= j => j - i + 1 <= Burst + (grants[k][j] - grants[k][i])

(* A stream that has ended told its client how: by a final event or by an    *)
(* error event, never by silence (_stream_invoke).                           *)
StreamTerminated ==
    \A r \in HttpReqs : hreq[r].pc = "ended" => hreq[r].events # <<>>

(* The HTTP boundary: no unverified caller where one is demanded, no more    *)
(* grants than the bucket allows, no stream without an ending, with requests *)
(* of several callers in the middleware and in the handlers at once.         *)
BoundaryHolds == HttpTypeOK /\ NoUnverifiedInvocation /\ GrantsBounded /\ StreamTerminated
=============================================================================
