# micro-agents in TLA+

TLA+ modules for the parts of micro-agents whose correctness depends on the
order in which tasks, replicas, timers and failures meet. Each module follows
the Python code action by action. TLC checks small instances; TLAPS proves
their safety properties for every value of the constants.

`PROJECT.json` lists the components, the runs, the lines each definition
models (`map`), the hazards, the findings and the theorems.

## 1. The system

A *micro-agent* is a process that serves one agent definition: a prompt, a
model, tools, policies. A request enters through HTTP or A2A, is admitted by
the agent, and runs a loop of model calls and tool calls in a runtime adapter.
State that outlives a call (sessions, memory, checkpoints, approvals,
idempotency records) lives in providers: in memory, SQLite, Redis, PostgreSQL.
Around the agents an optional "cloud" plane holds a gateway, a registry, a
configuration store and an observability store.

| Component (`src/`) | State | Operations | Talks to | What is hard | What makes it correct |
|---|---|---|---|---|---|
| Agent lifecycle `micro_agent/core/default_agent.py` | `_state`, `_active_invocations`, `_invocation_tasks`, events `_idle`, `_stop_complete`, condition `_capacity_available`, `_lifecycle_lock` | initialize, start, invoke, stream, stop, shutdown | runtime (create/start/invoke/stop) | callers, stoppers, deadline and cancellations interleave at every await | exact accounting, capacity, drain before close, one stopper, stop ends |
| Built-in runtime `runtimes/adk/runtime.py` | per request: transcript, iteration, attempted tools, output flag | invoke, stream: retry policy, checkpoint/model/tool loop, approval pause | model, tools, sessions, memory, checkpoints, approvals, breaker, idempotency | a failure, retry, resume or second approval at every await after a side effect | no side effect is repeated behind the model's back, approved waves only, once |
| Circuit breaker `micro_agent/resilience.py` | failures, opened_at, half_open | check, record_success, record_failure; classify_retry | runtime | outcomes of calls that started before, during and after a trip | opens at and only at the threshold, heals |
| Idempotency registries `security/side_effects.py`, `security/redis_operations.py`, `memory/postgres.py` | one record per key, with TTL | claim, record | runtime `_execute_tools` | sequences of commands from several replicas, expiry, death of the holder | one execution at a time, owner publishes, key is freed |
| Checkpoint stores `checkpoint/checkpoint.py` | checkpoint by id | save, get, delete | sessions provider | who deletes, who restores | a checkpoint never leads to an unsafe replay |
| Approval stores `security/approvals.py` | pending approval by continuation id, TTL | save, get, delete | runtime | two answers, answer against expiry | a continuation is acted on once |
| Policy `security/policy.py` | none across calls | evaluate_* | runtime, start-up | rules, conditions and lists combine | a deny always wins, the order of the rules does not matter |
| Session providers `session/*.py` | versioned session by tenant and id, TTL | create, get, update, delete, list_active | runtime, checkpoint store | read-work-write races, create race, WATCH retries | no lost update, version grows |
| Memory providers `memory/*.py` | versioned entries, capacity, TTL | store, search, get, delete | runtime | eviction and version races | bounded, one versioned document per entry |
| Google ADK runtime `runtimes/google_adk/*.py` | ADK sessions, checkpoint snapshot | invoke, stream, create, close | external ADK runner | failed, resumed, approved and overlapping requests on one session | a side-effecting call runs once, gated calls only when approved, turns are kept |
| Gateway `cloud/gateway.py`, `gateway_state.py` | target breakers, semaphores, token buckets, round robin; the same in Redis | forward, health | agents, Redis | local and shared state disagree, a store that fails, streamed responses | slots and leases returned, one probe, no repeated request, rate honoured |
| Registry and discovery `cloud/registry.py`, `discovery.py` | entries with leases; cached snapshots | register, heartbeat, deregister, query; discover | agents, gateway | lease expiry, pruning, outage | healthy means leased, cache marked as such |
| Configuration plane `cloud/config.py`, `config_client.py` | versioned records | store, get, rollback | agents | concurrent writers, retention | versions strictly grow, latest survives |
| Observability store `cloud/observability.py` | bounded spans, usage, audit | ingest, queries | agents | stamps and commits in different orders, bad batches | bounded, atomic batches, newest rows kept |
| A2A `interoperability/a2a*.py` | task snapshots, in-flight tasks, push configs | execute, cancel; save, get, list, delete; push | agent, A2A SDK, callbacks | cancel against completion, several workers on one store | one outcome per execution, whole artifacts, complete listings |
| MCP `mcp/*.py`, `security/credentials.py`, `security/delegation.py` | connections, reservations, discovered tools | connect, discover, call_tool, disconnect | external servers, token exchange | reconnects under calls, request numbers reserved ahead | validated endpoint, declared credential, state matches the session |
| HTTP API `interoperability/http_api.py` | rate buckets | middleware, /v1/invoke, A2A mount | agent | several routes to one agent, failures after a stream has begun | no unverified invocation, bounded grants, a stream says how it ended |
| Bootstrap and process `config/*.py`, `__main__.py`, `health/health.py` | resources opened, statuses | build, start, probe, serve, stop, close | every provider | refusals early and late, overlapping readiness requests | what serves was checked, what was declared is there, what was opened is closed |
| Knowledge `knowledge/knowledge.py` | documents | retrieve, format | runtime | two budgets, documents that move meanwhile | bounded context, every source is heard |
| Model providers `models/*.py` | fragments of a streamed answer | stream | runtime | interleaved fragments, early end | calls are put together whole |
| Telemetry, audit, tools, skills, definition loader | start-up tables, counters | - | - | sequential | not modelled, see section 8 |

How they interact: `DefaultMicroAgent` calls one runtime under its admission
control; the runtime calls the breaker before and after an invocation, writes
checkpoints before each model call, takes and saves approvals, and claims an
idempotency key around each tool with side effects. All of it is asyncio: what
runs between two awaits is atomic inside a process, and nothing is atomic
between replicas except one Redis command or one SQL statement.

## 2. Modules

| Module | Models | Composes / extends |
|---|---|---|
| `DrainingService` | abstract: what an agent promises its callers | - |
| `AgentLifecycle` | `DefaultMicroAgent` | refines `DrainingService` |
| `CircuitBreaker` | `CircuitBreaker` as `AdkRuntime._invoke` drives it | - |
| `IdempotencyContract` | abstract: `OperationRegistryProtocol`; the in-process registry is this contract without expiry | - |
| `OperationRegistry` | Redis and PostgreSQL registries under `_execute_tools` | refines `IdempotencyContract` |
| `Invocation` | `AdkRuntime._invoke`, `_invoke_inner`, `_execute_tools` with checkpoint and approval stores | composes runtime and stores |
| `VersionedStore` | abstract: one versioned document, as `docs/API.md` states it | - |
| `Sessions` | the four session providers under the built-in runtime, the ADK session service and an unversioned writer; the session-backed checkpoint | refines `VersionedStore` |
| `MemoryStore` | the three memory providers | refines `VersionedStore`, per entry |
| `Gateway` | replicas of the cloud gateway, local state and Redis | extends `Selection` |
| `Registry`, `ConfigPlane`, `Observability` | the three control planes and their caching clients | - |
| `A2aServer` | the A2A executor and push sender | extends `Selection` |
| `A2aStore` | the SQLite and Redis task stores | - |
| `GoogleAdk` | the Google ADK adapter on one session | uses the atomic operations of `VersionedStore` |
| `McpClient` | manager, wire client and credentials of one MCP server | - |
| `HttpApi` | the HTTP boundary | - |
| `Policy` | `PolicyEvaluator` | extends `Selection` |
| `Bootstrap` | `resolve_config`, `validate_config` and the builders of `build_runtime`, as operators | extends `Policy` |
| `Process` | `__main__`: build, start, readiness, stop, close | extends `Bootstrap` |
| `Knowledge`, `ModelStream` | the knowledge context; streamed model answers | - |
| `Selection` | a list with some of its elements taken out, as a recursive function the proofs can reason about | - |
| `AgentLifecycleProofs`, `OperationRegistryProofs` | theorems | extend the module they are about |
| `InvocationProofs` | theorems about the invocation loop and the breaker | extends `Invocation`, `CircuitBreaker` |
| `CloudProofs` | theorems about the gateway and the three control planes | extends `Gateway`, `Registry`, `ConfigPlane`, `Observability`, `SelectionProofs` |
| `StateProofs` | theorems about the session and memory providers | extends `Sessions`, `MemoryStore` |
| `A2aProofs` | theorems about the task stores and the bridge | extends `A2aStore`, `A2aServer`, `SelectionProofs` |
| `SelectionProofs` | lemmas about `Filtered`, and about finite sets of numbers | extends `Selection` |
| `AdapterProofs` | theorems about the HTTP boundary, the MCP connection, policies, the process, the knowledge context, streamed answers and the Google ADK adapter | extends `HttpApi`, `McpClient`, `Process`, `Knowledge`, `ModelStream`, `GoogleAdk`, `SelectionProofs` |
| `MC...` | instances for TLC; `MCState`, `MCA2a`, `MCCloud` and `MCAdapters` hold several modules that share no state, and a variable `part` says which of them a behaviour runs | extend the modules they are about |

A setting that does not change while the program runs (concurrency policy,
error policy, backend, deployment) is a variable that `Init` chooses and no
step changes, so that one run covers its values.

### AgentLifecycle

State: the object's fields under their own meaning (`active` is
`_active_invocations`, `idle` the event `_idle`, ...), plus a place for every
caller (`pc`) and every stopper (`spc`). Actions: `InitializeBegin/End` and
`StartBegin/End` (split at the awaited runtime call, lock held), `Invoke`
(admission: capacity, then state), `Resume` (a waiter woken by
`notify_all`), `AbandonWait` (cancelled while waiting), `Finish` (the `finally`
block), `Stop` (join or begin), `Drained`, `DrainTimeout` with the
cancellation of what is in flight, `Gathered`, `Close`, `CancelStop`,
`Shutdown`. `invoke()` and `stream()` share the same admission and `finally`.

The FIFO queue of the lifecycle lock is not modelled. Only initialize() and
start() hold it across an await; in READY and STOPPING every critical section
runs without suspending, so waiting for the lock is not observable there.

### CircuitBreaker

`failures`, `halfOpen`, and `opened`, which abstracts `_opened_at` against the
clock (none, cooling, elapsed). Counters saturate at the threshold: the code
only compares them with it. `Check`, `Succeed`, `TimeOut`, `EndUnrecorded`,
`Fail`, `GiveUp` are the exits of `AdkRuntime._invoke` and what each reports.
`healthy` and `stale` are the environment: when the dependency recovers, calls
already in flight may still fail. `streak` counts failed invocations
independently of the breaker.

### OperationRegistry

One key, several operations, one action per Redis command or SQL statement.
`row`, `live`, `ttl` are what is stored, whether it has expired, whether it
carries an expiry. Redis removes an expired key; a PostgreSQL row stays and can
be reclaimed or completed. `GiveUp` is the death of the holder, its deadline,
or a backend error, at any point. `TtlCoversWork` says whether a reservation
may expire under the operation at work: the TTL (a day by default) against the
duration of one tool call.

### Invocation

Requests of one conversation turn: a fresh one, and then resumes
(`checkpoint_id`) and answers to approvals (`continuation_id`). Each action is
the code from one await to the next: `Load`, `Take`/`Consume`, `Save`,
`ModelTools`/`ModelFinal`, `PauseSave`/`PauseDelete`, `UnsafeDelete`,
`ToolWithEffect`/`ToolWithoutEffect`, `Persist`, `Finish`. `Raise` is a failure
at any await, and `Throw` the error policy of `_invoke`. A transcript is
abstracted to the set of side effects it tells the model about (`known`);
`performed` is what really happened, `blind` what was asked for by a request
that did not know everything performed before. The model's answers, the tools'
success and the policy's decisions are free choices. `Setup` fixes approvals,
streaming, whether the approval store suspends between get and delete, and
whether requests overlap.

The stores are atomic per operation here. A checkpoint store backed by a
session provider is really get, create and update; `Sessions` takes those steps.

### Sessions and MemoryStore

`Sessions` has one session id. `row` is what the provider stores, with the
sequence of turns as its content; `wk` is the place of every worker: an
invocation of the built-in runtime (load, work, `update()`, memory, drop of the
checkpoint), an event of the ADK session service, or a caller that writes
without a version. In-memory and SQLite operations are one step; Redis and
PostgreSQL ones take a step per command (`RedisWatch`/`RedisExec`,
`PostgresWrite`, ...), so that creation, expiry, deletion and listings of others
fall between them. `VersionedStore` is the contract of `docs/API.md`: a write
states the version its caller holds and is accepted only when it is current.

`MemoryStore` does the same for entries under a policy of number and age: a
store on Redis counts, evicts, watches and writes in separate commands, on
PostgreSQL it writes and then trims. What a search matches is left out.
`lost` records the keys that a late ZREM took from the Redis index while their
entry was live: `get()` of a missing key removes it from the index in a second
command, and the key may have been stored in between. Such an entry is outside
what ZCARD counts and comes back to the index without an eviction, so the bound
on Redis is stated without the lost keys; the next store that passes ZCARD has
counted those that came back, and they stop being lost. The attempt to prove
the bound without `lost` is what showed this; TLC then found it with two keys
and seven writes.

### Gateway

Requests walk the code of `forward()` in replicas: rate limit, targets in
round-robin order, local circuit, bulkhead slot, shared circuit and lease, the
call, the outcome, the release, and the streamed form whose slot is given back
by the body's iterator, or never when the body is not iterated. The Lua scripts
are atomic. Leases and circuit keys expire; the store may fail in any command.
`credit` counts the tokens a caller's bucket ever held, at the place where the
bucket is: the replica, or Redis. A setup fixes replicas, targets, retries, streams and faults.

### Registry, ConfigPlane, Observability

Each has the in-memory and the SQLite store behind one variable. Time is kept as
what the code compares: a live lease, a registration older than the retention,
a stamp before the cutoff. The discovery and configuration clients have several
calls in flight whose answers arrive in any order, and fall back to their cache
when the plane is down. An observability batch is validated and stamped in one
step and committed in a later one, or its ingestion dies.

### A2aServer and A2aStore

An execution is suspended where its `pc` says; a cancellation makes its next
step raise there. `log` is what was published for a task, `inFlight` the table
of running executions. Texts are short sequences of letters: whether the final
text continues the deltas decides what the artifact contains. The push sender
posts to each callback, with retries. `A2aStore` has worker processes, a step
per transaction or Redis command, expiry, and workers that stop in between.
`newer` is the order of the status timestamps, by which `list()` sorts: a save
puts its task before all others. A page is the tasks from the one its token
names on that have fewer than `PageSize` of them before them.

### GoogleAdk

Requests on one session around an external runner that loads the session,
appends each event before it goes on, and re-executes unanswered calls when it
resumes. Modelled are the adapter's decisions: which snapshot is taken of a
failed invocation (`UnsafePending`), what a resume restores, which call a
confirmation approves, the versioned appends with their retries, and the tool
adapter with the operation registry. The session provider's operations are the
atomic ones of `VersionedStore`.

### McpClient

One server: the manager (`mgr`), the connection task with its reconnects
(`link`), and calls that reserve the number of the next request. The SDK's
session is external and numbers its requests from 0. Declarations and deployment
bindings give endpoint and credential; Vault, AWS and the token exchange answer
or fail.

### HttpApi

Requests pass the body limit, authentication, the rate limiter and the handler,
with an await between them where the code has one, and reach the agent through
`/v1/invoke`, its stream or the A2A mount. The agent is a number of places.

### Policy, Bootstrap, Process

`Policy` is a translation of `PolicyEvaluator` on sets; patterns are the sets of
resources they match. `Bootstrap` has one operator per function of
`config/config.py` and `config/bootstrap.py`, on a deployment record whose
settings are classes of values (an endpoint is its scheme). `Process` calls them
in the order of `build_runtime()` and goes on to start, the application,
readiness, stop and close for both runtimes, each of which may fail.

### Knowledge and ModelStream

`Knowledge` asks the sources in order while documents are added and deleted,
and clips and de-duplicates what they return; a document is a content with its
length and relevance. `ModelStream` puts a streamed answer together from text
and from fragments of tool calls, for both wire formats, with streams that break
or end early.

## 3. Runs

| Run | Expect | Instance | States | Shows |
|---|---|---|---|---|
| `lifecycle` | pass | 3 callers, 2 stoppers, limit 2, both policies, cancellations | 9 k | no lost wake-up, capacity, drain before close, stop() and waiters end, refinement of `DrainingService` |
| `breaker` | pass | 3 calls, threshold 2, all policies | 0.9 k | trips at and only at the threshold, heals |
| `operations` | pass | 3 operations, both backends, long TTL | 1.3 k | exclusion, the contract, abandoned keys are freed |
| `invocation` | pass | 2 requests with resumes; 3 with approvals, overlapping in memory, in sequence on Redis; 3 iterations, waves of 2, 1 retry | 621 k | complete checkpoints, no unsafe replay, approvals acted on once and only as approved, output not replayed, requests end |
| `state` | pass | four session providers with 2 invocations, or one and an event or an unversioned writer; three memory providers with 2 storers, 3 keys, bound 1 | 1.20 M | acknowledged turns stay, recorded or resumable, versions and bounds of entries, refinement of `VersionedStore` |
| `a2a` | pass | 2 executions of one task, 2 cancels; 3 callbacks, 2 attempts; 2 workers on 2 tasks, both stores | 2.0 M | outcomes, artifacts, cancellation, notifications, reads and listings |
| `cloud` | pass | gateway: 3 requests on 2 replicas, or 2 targets with retries and streams, or a failing store, or no store; 2 agents and 2 discoveries; 3 versions and 2 readers; 3 batches, bound 2 | 951 k | slots, leases, probes, tokens; honest discovery; immutable versions; whole batches |
| `adapters` | pass | ADK: up to 3 requests; MCP: 7 declarations, 2 calls, 2 links; HTTP: 3 requests, 4 configurations; deployments with every setting on its own and one with all; policies of up to 2 rules; 2 knowledge sources; answers of up to 3 calls | 547 k | side effects and transcripts, the MCP connection, the HTTP boundary, the process, deny wins, budgets, reassembly |
| `lifecycle_cancelled_stop` | violation | 2 callers, 2 stoppers | small | a cancelled stop() leaves later ones waiting |
| `invocation_pause_in_retry` | violation | 2 requests, 1 retry | small | a pause reached in a retry is an error |
| `sessions_first_turns` | violation | 2 invocations, PostgreSQL | small | two first turns of a session: one accepted update is lost |
| `mcp_credentials` | violation | 2 calls with token exchange | small | a request carries the credential issued for another call |

Some properties are conjunctions whose parts have names and comments of their
own in the module:

| Property | Parts |
|---|---|
| `ApprovalsSound` | the type invariant, `ApprovalGate`, `ConsumedOnce` |
| `SessionTurns` | the type invariant, `AckedTurnsKept`, `OncePerRun` |
| `MemoryBounded` | the type invariant, `WithinPolicy` |
| `GatewayAccounts` | the type invariant, `SlotsAccounted`, `FleetBulkhead`, `SentOnce`, `RateHonoured` |
| `BridgeSound` | the type invariant, `CancelFindsNewest`, `EndsWithOutcome`, `ArtifactWhole`, `PushSettled` |
| `ListingsComplete` | the type invariant, `ListComplete`, `PagesComplete` |
| `DiscoveryHonest` | the type invariant, `StaleIsMarked`, `HealthyOnlyHolds` |
| `VersionsStand` | the type invariant, `VersionImmutable`, `LatestStands`, `PinnedServed` |
| `BatchesKept` | the type invariant, `BatchAtomic`, `NewestKept` |
| `SideEffectsGuarded` | `CallsOnce`, `ApprovalGate`, `FinishedForgotten` |
| `TranscriptKept` | the type invariant, `TranscriptOrdered`, `TurnsKept` |
| `ConnectionSound` | the type invariant, `EndpointValidated`, `DeclaredCredentialUsed`, `DisconnectFinal`, `HealthHonest`, `OwnTrace`, `NoLeakedReservation` |
| `BoundaryHolds` | the type invariant, `NoUnverifiedInvocation`, `GrantsBounded`, `StreamTerminated` |
| `ProcessSound` | the type invariant, `ServingProbed`, `DeclaredSatisfied`, `LateRefusal`, `ReadyHonest`, `AllClosed` |
| `ContextSound` | the type invariant, `ContextBounded`, `EverySourceHeard` |

**Bounds.** Two invocations at the limit and a third that must wait; two
stoppers so that one joins. Three calls and threshold 2: two trip the circuit
while a third, started earlier, reports late. Three operations: a holder, one
that takes over, and one more that looks at both. Three iterations: a first
wave, a second one that must know the first, and the limit; waves of two so
that a read-only request can precede a write. Two requests for a resume of a
failed turn; three for a pause and two answers to it. One retry is enough to
run a turn again. Two writers of one session, one resume and four writes: each
can meet the other before, inside and after its update, and come back once. A
bound of one entry with two storers and three keys makes every store evict; four
stores, three of them on Redis, where a store is several commands.
Three gateway requests with a bulkhead and a threshold of one: one holds the
target, one is refused, one probes. Two executions of one task overlap, with a
cancel for each. Two saves of two tasks with pages of one: a task moves between
two pages. Two tables of rows over a bound of two: every commit trims. Three ADK
requests: a failure, its resume and an approval, or two resumes of one.
`MaxLinks` of two is one reconnect under a call; three ticks of the limiter
outlast its idle time.

**Deadlock** is checked in `lifecycle` and `breaker`, where a system always has
a step left. Elsewhere every request, operation or worker is used once, so the
behaviour really ends.

**Symmetry** is used over interchangeable requests, workers and keys in runs
whose properties are invariants and action properties.

## 4. Fairness

- Lifecycle: the event loop runs every runnable task; create/start/stop of the
  runtime return; a timer fires; a *cancelled* invocation unwinds. Nothing is
  assumed of an invocation that was not cancelled: it may never return, and the
  shutdown deadline has to do the work.
- Breaker: the clock advances, each call ends (it has a deadline), and clients
  keep calling. Recovery of the dependency is a hypothesis of the property.
- Registry: the TTL runs out, and an operation holding the key ends or gives up.
- Invocation: each await of a running request ends; model, tools and stores run
  under the invocation's deadline. No fairness on failures, clients or expiry.

The other modules state no fairness: their properties are about what a step or a
state may be.

## 5. What is proved

All theorems hold for any number of callers, stoppers, calls, requests, workers,
keys, replicas and agents, and any limit, threshold and bound on the behaviour.
Each inductive invariant was first checked by TLC on the instances of section 3.

**Lifecycle** (`AgentLifecycleProofs`). `LifecycleInv` is inductive. The safety
properties are not so on their own: that the drain is complete at `Close` needs
that only READY admits (`QuietInv`), that the handle exists while anything runs
(`HandleInv`), that the lock's holder determines the state (`LockInv`), that
joiners and drainers imply STOPPING (`OneStopper`), and exact accounting, since
the code decides by the counter and the event while the property speaks of the
invocations. From it: `AccountingCorrect`, `CapacityCorrect`, `WakeupCorrect`
(no caller sleeps, un-notified, while a place is free), `DrainCorrect`,
`OneStopperCorrect`, `NoAdmission`, and `ServiceRefinement`: every step is a
step of `DrainingService` or a stutter. Assumed: `Callers` is finite, the limit
is a natural number.

**Breaker** (`InvocationProofs`). `BreakerInv`: half-open implies that the
cooldown is over, a full count implies an open circuit, and the recorded count
never exceeds the true streak and equals it unless the policy is fallback. From
it `HalfOpenCorrect`, `OpensCorrect` (every policy but fallback) and
`TripsCorrect` (all).

**Registries** (`OperationRegistryProofs`). Each command is shown to be a claim
of an absent or expired row, a publication, the end of an operation, or nothing
(`OpSteps`). `RegistryInv` - whoever is at work holds the live reservation - is
inductive when the TTL covers the work; exclusion (`ExclusiveCorrect`) and the
refinement of `IdempotencyContract` (`RegistryRefinement`) follow. For
PostgreSQL `PostgresOwnerCorrect` needs no assumption on the TTL: a result
lands only on its owner's row. Assumed: `"none"` is not an operation id.

**Invocation** (`InvocationProofs`). `ApprovalInv` treats a continuation as a
token: it is in the store or with one request (`Tokens`), whoever holds it is
ahead of every wave granted under its id, and the request that first paused
under an id is its root (`Roots`). `ApprovalsAreSound` follows where the token
is taken in one step or answers do not overlap. `ResumeInv` adds `Resumed`: the
requests of a turn share a checkpoint id, a stored checkpoint and a request
about to run tools know all that was performed, and no checkpoint is stored
while a wave with side effects runs; from it `CheckpointsAreComplete`. With
`Answered`, the same for stored continuations, it gives
`NothingIsReplayedUnsafely`. The hypotheses on `Setups` are those of the run:
requests that overlap a resume, overlapping answers on Redis, and resumes of a
turn whose pause failed are the divergences of section 7, and there the
properties do not hold. `OutputOfTheFirstAttemptStands` holds in every setup.

**Sessions** (`StateProofs`). `SessionInv`: what each worker read agrees with
what is stored as far as the provider's own test will find out: a Redis worker
between WATCH and EXEC whose key was not written holds the current version, a
PostgreSQL worker states the version it read. That is what each provider's last
command relies on, so `ProvidersAreVersioned` follows step by step: every command
is a read, an accepted write that states the current version or none, a removal,
or a stutter of `VersionedStore`. `FailuresAreResumable` needs only the order
of the invocation's own steps; `SessionsKeepTurns` needs also that no copy held by
a worker has a turn more often than its invocation ran (`TurnInv`).

**Memory** (`StateProofs`). `MemInv` is the same for storers, and gives
`EntriesAreVersioned`. For `MemoryIsBounded`, `EntryInv` says that the live
entries have different stamps, so that "the oldest" exists and trimming to the
newest `MaxEntries` leaves as many (`Ranked`, `Oldest`, `Newest`), and
`IndexInv` that on Redis the members of the index together with the keys that
storers past ZCARD will add stay below `MaxEntries` plus the number of storers:
the members alone are not inductive. Assumed: finitely many storers and a bound
of at least one. Keys may be infinitely many.

**Cloud** (`CloudProofs`). Registry: a snapshot asked for as healthy holds only
live agents, in the cache and on its way (`RegInv`), hence `DiscoveryIsHonest`;
`LiveAgentsAreKept` is a property of each step. Configuration: rows, cache
and answers hold only what was numbered (`CfgInv`), hence `ConfigVersionsStand`.
Observability: rows with one stamp are of one batch, so the order that trimming
uses is total, and what was lost inside the retention lies before a full
table (`ObsInv`), hence `BatchesAreKept`. Gateway: a request that probes carries
the mark of the current opening of its target's circuit or of an earlier one
(`ProbesMarked`), so that no two share one (`OneProbePerOpening`).

`GatewayKeepsBooks` needs more than its own statement (`BookInv`): what a
request's place in `forward()` says about its slot, its lease, the targets tried
and its status (`Arrivals`); that a request with a lease is in the sorted set,
whose size the script bounds (`LeaseBooks`: the calls in progress are counted
by no one else); and that the list of recent callers names exactly the callers
with a bucket (`TableBooks`), so that an eviction takes away what it counts. That
grants stay within the credit is not inductive: grants *and tokens left* do
(`RateBooks`), and a bucket evicted with tokens in it only loses some. Each
action is then one of four things a request can do to a slot: take one, give it
back, leave it behind, or keep what it has. Assumed: positive limits, and that no
replica is called "redis", the name of the place of the shared buckets. Requests
and callers may be infinitely many.

**A2A task stores** (`A2aProofs`). `SnapshotInv`: a stored snapshot is the last
one saved, so that `ReadsAreLatest` for every order of saves, removals and
reads. For `ListingsAreComplete`: what a Redis listing owes between ZRANGE and
MGET is among its keys and stored (`Operations`), the times of the saves are a
strict total order (`Ordered`), so that a nonempty rest of a listing has a
first task (`FirstIsThere`), and what a walk over the pages owes and has not
got lies at its token or after it (`Walks`). The last is what a save between two
pages could break: a task that moves to the front is no longer owed, and a
token whose task moved to the front is before all that is. Assumed: the two
marks of a walk without a token are no task ids. Tasks may be infinitely many.

**A2A bridge** (`A2aProofs`). `BridgeInv` takes `CancelFindsNewest` and
`EndsWithOutcome` as they are, with the number of calls so far, which orders the
executions of a task. `ArtifactWhole` speaks only of executions that are over;
on the way (`OnTheWay`), the deltas are the text published and the text held
back, something is held back from the first delta on (so that the last chunk
can be marked), and only the first chunk starts the artifact. What the client
assembles is the concatenation of the chunks, a recursive function that is
shown to grow by the text of a chunk with each chunk. `PushInv`: the callbacks to
come were sent nothing, the one at hand has not answered, the others are
settled. Every step of an execution is reduced to one form (`Moves`): at most
one entry by the execution itself, the last one if it is an outcome. From these
`BridgeIsSound`, and `CancellationWins` for each step. Assumed: finitely many
executions, none of them called "none".

**HTTP boundary** (`AdapterProofs`). `BoundaryInv` follows a request through the
middleware: past authentication it is verified where that is demanded, and
nothing is served by an application whose construction was refused. The bound
on grants is not inductive. Needed is that from any grant on, the grants and the
tokens left are together no more than the burst and the ticks passed since
(`Spent`), and that a key without a bucket has spent no more than one with a
full bucket (`Paced`); the latter is why dropping an idle bucket gives nothing
away, and why keys whose bucket made room for another are excepted. From it
`BoundaryIsKept`. Assumed, beyond positive limits: the idle time is at least the
time in which a bucket fills. The code has an hour against `burst` divided by
the rate, one minute unless a larger burst is configured.

**MCP connection** (`AdapterProofs`). `LinkInv` relates client, connection task
and manager: the task has a session while it holds the connection, leaves only
when the client closes, and is gone after a disconnect; what `connect()` was
given was validated and resolved. `Books` keeps the reserved request numbers:
each entry is of a call under way that will remove it, the entries of a session
end with it, and without token exchange the number a request takes is the one it
reserved, which no other request of its session has. That a reservation finds a
free number is a counting argument (`ReserveIsFree`): of one number more than
there are calls, one is not taken. From both, `ConnectionsAreSound`. Assumed:
finitely many calls, for any number of reconnects. `OwnCredential`, which the
code does not keep (section 7), is no part of it.

**Policy** (`AdapterProofs`). The rules refuse exactly what one of them denies
(`RefusedByRules`), so two policies with the same lists whose rules deny the same
decide alike (`DecidedByDenials`), and neither reversing the rules nor leaving
out those that allow changes what is denied: `DenyAlwaysWins`, for every policy
and question. Assumed: a policy has the fields the evaluator reads, and its
rules are a list.

**Process** (`AdapterProofs`). `ProcInv` says what each phase finds done by
those before it (`ProcStaged`): every stage left behind was constructed without
an error, every resource built has passed its check or has none, and whatever is
open at `close` is in the hands of a closer still to come. A readiness request
that waits alone has noted exactly the failures of the probes it has run
(`ProcReady`); one that met another may have noted more, because both write the
same statuses. From it `ProcessIsSound`, for every deployment record and any
number of readiness requests.

**Knowledge** (`AdapterProofs`). The loop over a source's entries is a recursive
function of the entries; `LoopInv` is shown for each of its steps: blocks clipped
to their content, no content twice, both budgets kept (`BlocksFit`), and every
source so far represented, or cut off by the total, or with nothing to add
(`Heard`). That ranking entries by relevance returns every one that fits the
limit is a counting argument about linear orders (`Ranked`). `KnInv` carries it
over the sources; from it `ContextIsSound`. Assumed: sizes, relevances and
budgets are numbers, the budgets positive, finitely many document ids.

**Model streams** (`AdapterProofs`). `StreamInv`: what has arrived is what was
sent so far, call by call and in order; requests are sorted by index
(`InIndexOrder`), whatever the interleaving. From it `AnswersAreReassembled`.

**Google ADK** (`AdapterProofs`). Every step is first shown to be one of the
some 25 things a request can do (`Turns`: fail, restore, decide, read, write,
call, ask, claim, execute, snap, ...), whatever the action it is part of.
`AdkInv` is then shown part by part: an approved call is noted before it is
claimed (`Gated`); of the requests with one call, one holds the claim, and only
before it has run (`Registered`); among requests that follow each other, a
finished invocation is nobody's any more (`Sequential`); their snapshots hold no
call without its response, so that a resume repeats none, a request without a
gate runs its own call, and with a gate the one whose confirmation it answered
(`RunsOnce`); no event is twice in the session or about to be (`Unrepeated`); and
in a session that was there, what was yielded stays and an answer follows its
call (`Ordered`). From it `SideEffectsAreGuarded` and `TranscriptIsKept`, for
any number of requests, resumes and crashes, with and without overlap.

**Recursive functions** (`SelectionProofs`). What a list keeps when elements are
taken out (`Filtered`) and what texts give when joined are recursive functions
over lists. The library's induction theorems are not usable with these provers,
so induction is used in the form "a set of numbers that is not empty has a least
element" (`LeastNatural`): the least length for which a fact fails would have a
predecessor for which it holds.

The inductive invariants and the properties that are proved but in no run
(`AccountingExact`, `OneStopper`, `NoAdmissionWhileStopping`,
`HalfOpenOnlyAfterCooldown`) hold for every instance by their theorems.

## 6. What is only model-checked

Liveness (`StopTerminates`, `WaitersAnswered`, `HealsAfterOutage`,
`AbandonedKeyFreed`, `InvocationEnds`): fairness and ENABLED are out of the
prover's reach. Every other property of the passing runs, invariant, action
property or refinement, is a theorem. The runs still add to the proofs: they
show that the properties can fail (the mutants), that the steps they speak of
happen, and the four divergences.

## 7. Divergences between the code and what it says

Each violated run is one (`findings` quotes the lines):

- a cancelled `stop()` never sets `_stop_complete`;
- `_ApprovalPausedError` escapes from the retry loop;
- PostgreSQL `create()` of a session that exists returns its current version and
  no messages, so the following update overwrites what it did not read;
- the MCP client reserves the number of its next request, awaits the token
  exchange, and the SDK numbers requests afterwards: two calls can swap
  credentials.

Others were met while modelling and have no run:

- under `error_policy: fallback` a failure is also recorded as a success
  (`runtimes/adk/runtime.py:734`), so the circuit never opens;
- `CircuitBreaker.check` lets every caller through once the cooldown is over
  (the docstring says one probe), and a late success of a call admitted before
  the trip closes the circuit in its cooldown;
- without a shutdown deadline a caller woken by `stop()` while the agent is
  full waits again, for an invocation that may never return; `stop()` called
  from inside an invocation would wait for itself (`default_agent.py:219`; no
  code does it);
- Redis `record()` tests the owner and publishes in two commands
  (`redis_operations.py:165`): with a TTL shorter than the work it overwrites
  another reservation. PostgreSQL `record()` completes an expired row that nobody
  has reclaimed (the docstring says the result is ignored). The in-process
  registry keeps the claim of a cancelled call (`side_effects.py:89`);
- output streamed in a retry does not suppress the following retry
  (`runtimes/adk/runtime.py:654`), and a continuation that pauses again and then
  fails is retried with its old decision (line 1050);
- get and delete of the Redis approval store are two commands
  (`runtimes/adk/runtime.py:785`): overlapping answers can both take one
  continuation, so `ConsumedOnce` is checked for Redis with answers in sequence;
- a resume that overlaps the request it resumes can write back a checkpoint
  deleted for a side-effecting wave, and a continuation that dies between
  saving its next approval and deleting its checkpoint leaves one that the
  approved wave outdates. `CheckpointsComplete` is therefore stated without
  approvals and checked for requests one after another;
- `get()` of the Redis memory provider removes a missing key from the index in a
  second command (`memory/redis.py:284`): a key stored in between keeps its
  entry and leaves the index, so it is neither counted against `max_entries`
  nor evicted until it is stored again, and that store evicts nothing;
- `get()` of the SQLite task store deletes a row in a second transaction without
  testing `expires_at` again (`a2a_store.py:207`), which can remove a row saved
  meanwhile;
- the registry's purge measures from `registered_at` (`cloud/registry.py:136`),
  so an entry that renewed its lease for longer than the window is removed as
  soon as that lease lapses;
- a refused callback URL ends a notification before later callbacks are tried
  (`a2a_store.py:794`);
- a server that connects and then fails discovery is closed by nobody
  (`mcp/client.py:378`), and after a failed start nothing is closed;
- in the Google ADK adapter a restore rolls the whole session back to the
  snapshot (`runtimes/google_adk/runtime.py:900`), with any confirmation that was
  open when it was taken. A request pauses for a confirmation, another one fails
  and is snapshot, a third answers the confirmation and the call runs; resuming
  the second makes the confirmation pending again (`_has_pending_confirmation`,
  line 1539), and a further answer runs the call again. Without an operation
  registry nothing notices. The attempt to prove `CallsOnce` showed this, and
  TLC finds it with five requests; `CallsOnce` is therefore stated, without a
  registry and with a gate, as long as no restore has replaced the session;
- a model stream that ends early without an error is taken for a finished answer;
- `docs/CONFIGURATION.md:29` describes a model override per deployment; the
  runtimes pass the model of the definition with each request
  (`runtimes/adk/runtime.py:867`), which the providers prefer
  (`openai_compat.py:77`, `anthropic.py:132`).

## 8. Not modelled

Prompt assembly, message formats, structured output and provider translation:
formatting that no decision reads. Telemetry, counters and audit records:
nothing in the system reads them back. The loader and schema of the definition
file: sequential, once, and a refusal there comes before anything is opened.
Tools and skills: registration tables built at start-up; what a tool does is a
choice in `Invocation` and `GoogleAdk`. Token validation, secret back ends,
Redis, PostgreSQL, the A2A and MCP SDKs and Google ADK appear only through the
calls made to them. Search and scoring of memory and knowledge are a relevance
given to each document.

## 9. Plan

1. Done: the lifecycle, the breaker, the registries and their proofs; the
   invocation loop; session, memory and task stores; the gateway and the control
   planes; both runtimes; MCP, HTTP, policy, bootstrap, process, knowledge and
   model streams.
2. Proofs. Done: every invariant, action property and refinement of the
   passing runs. Left: liveness, which stays with TLC.
3. Liveness of the gateway (a recovered target is used again once its circuit
   key expires) and of the MCP connection task.
4. The definition loader, and the composition of `HttpApi` with
   `AgentLifecycle`, whose admission it now abstracts to a number of places.
