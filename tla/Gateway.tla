------------------------------- MODULE Gateway -------------------------------
(***************************************************************************)
(* The cloud gateway (cloud/gateway.py, cloud/gateway_state.py): replicas  *)
(* that forward the requests of one route to its targets.  Each request    *)
(* passes the rate limit, walks over the targets in round-robin order, and *)
(* at each target the circuit, the local bulkhead slot and, with a shared  *)
(* state store, the Redis circuit and the bulkhead lease, before it is     *)
(* sent.  Afterwards the outcome is recorded and the slot given back.      *)
(*                                                                         *)
(* A step is the code between two awaits of the network; the Lua scripts   *)
(* of the store are atomic.  _record_success, _record_failure and _release *)
(* are one step each, their store part lost when Redis fails.              *)
(***************************************************************************)
EXTENDS Selection, FiniteSets

CONSTANTS
    Requests, Replicas, Targets, Callers,
    CallerOf,           \* the rate-limit key of each request
    Setups,             \* deployments and workloads, see SetupOK
    MaxConcurrency, FailureThreshold, Rate, MaxBuckets

\* shared: a state store is configured; faults: its calls may fail; order: the
\* route's targets as configured; at: the requests that come and the replica each
\* reaches; retries, streams: whether a request may be idempotent, ask for events;
\* refills: bound on the tokens time adds.
SetupOK(s) ==
    /\ {s.shared, s.faults} \subseteq BOOLEAN /\ s.order \in Seq(Targets)
    /\ DOMAIN s.at \subseteq Requests /\ \A q \in DOMAIN s.at : s.at[q] \in Replicas
    /\ s.retries \cup s.streams \subseteq BOOLEAN /\ s.refills \in Nat

ASSUME GatewayAssumption ==
    /\ \A s \in Setups : SetupOK(s)
    /\ CallerOf \in [Requests -> Callers] /\ "redis" \notin Replicas
    /\ {MaxConcurrency, FailureThreshold, Rate, MaxBuckets} \subseteq Nat \ {0}

VARIABLES
    setup,      \* rigid: the setup of this behavior
    req,        \* the requests
    local,      \* local[r][t]: failures, circuit and used slots of a Target
    turn,       \* turn[r]: the round-robin counter
    circuit,    \* Redis: the circuit hash of a target
    leases,     \* Redis: leases[t], the requests whose lease is in the sorted set
    bucket,     \* bucket[p]: caller -> tokens, at a replica or in Redis
    recent,     \* recent[r]: callers with a bucket, least recently used first
    credit      \* credit[p][c]: tokens ever given to c's bucket at p

vars == <<setup, req, local, turn, circuit, leases, bucket, recent, credit>>
rates == <<bucket, recent, credit>>

None == "none"
shared == setup.shared
Places == Replicas \cup {"redis"}
NoCircuit == [fails |-> 0, open |-> "closed", probe |-> FALSE, times |-> 0]
Opens == {"closed", "open", "cooled"}
Finals == {"done", "streaming"}

TypeOK ==
    /\ setup \in Setups
    /\ req \in [Requests -> [pc : {"idle", "select", "check", "circuit", "lease", "call", "after"} \cup Finals,
                             retry : BOOLEAN, stream : BOOLEAN, todo : Seq(Targets),
                             sent : SUBSET Targets, outcome : {None, "success", "failure"},
                             after : Seq({"record", "release"}), leased : BOOLEAN, probe : Nat,
                             held : BOOLEAN, status : {"none", "2xx", "4xx", "429", "5xx", "503"}]]
    /\ local \in [Replicas -> [Targets -> [fails : Nat, open : Opens, used : 0..MaxConcurrency]]]
    /\ turn \in [Replicas -> Nat]
    /\ circuit \in [Targets -> [fails : Nat, open : Opens, probe : BOOLEAN, times : Nat]]
    /\ leases \in [Targets -> SUBSET Requests]
    /\ \A p \in Places : DOMAIN bucket[p] \subseteq Callers /\ \A c \in DOMAIN bucket[p] : bucket[p][c] \in 0..Rate
    /\ \A r \in Replicas : Cardinality(DOMAIN bucket[r]) <= MaxBuckets
    /\ recent \in [Replicas -> Seq(Callers)]
    /\ credit \in [Places -> [Callers -> Nat]]

Init ==
    /\ setup \in Setups
    /\ req = [q \in Requests |-> [pc |-> "idle", retry |-> FALSE, stream |-> FALSE, todo |-> <<>>,
                                  sent |-> {}, outcome |-> None, after |-> <<>>, leased |-> FALSE,
                                  probe |-> 0, held |-> FALSE, status |-> "none"]]
    /\ local = [r \in Replicas |-> [t \in Targets |-> [fails |-> 0, open |-> "closed", used |-> 0]]]
    /\ turn = [r \in Replicas |-> 0]
    /\ circuit = [t \in Targets |-> NoCircuit]
    /\ leases = [t \in Targets |-> {}]
    /\ bucket = [p \in Places |-> [c \in {} |-> 0]]
    /\ recent = [r \in Replicas |-> <<>>]
    /\ credit = [p \in Places |-> [c \in Callers |-> 0]]

At(q, pc) == q \in DOMAIN setup.at /\ req[q].pc = pc
Here(q) == setup.at[q]
PlaceOf(q) == IF shared THEN "redis" ELSE Here(q)
Target(q) == Head(req[q].todo)

\* The request goes on with its next target, or answers what the last one said.
Onward(q, rec) ==
    IF Len(rec.todo) > 1 THEN [rec EXCEPT !.pc = "check", !.todo = Tail(rec.todo)]
    ELSE [rec EXCEPT !.pc = "done", !.todo = <<>>, !.status = IF rec.status = "none" THEN "503" ELSE rec.status]

Skip(q) == req' = [req EXCEPT ![q] = Onward(q, req[q])]
Refuse(q) == req' = [req EXCEPT ![q].pc = "done", ![q].status = "503", ![q].todo = <<>>]

------------------------------------------------------------------------------
(* Rate limit: _TokenBucket.try_take, the bounded table of buckets, and the  *)
(* Redis script, which keeps the same bucket under a key per caller.         *)

\* _evict_buckets: a full table loses its idle buckets, else the least recently
\* used one; which of the old ones are idle is left open.
Evictions(r, c) ==
    IF c \in DOMAIN bucket[r] \/ Len(recent[r]) < MaxBuckets THEN {{}}
    ELSE {{recent[r][i] : i \in 1..k} : k \in 1..Len(recent[r])}

\* No credentials, no such route, or a tenant the route does not allow.
Denied(q) ==
    /\ At(q, "idle")
    /\ req' = [req EXCEPT ![q].pc = "done", ![q].status = "4xx"]
    /\ UNCHANGED <<setup, local, turn, circuit, leases, rates>>

\* Arrival: the caller's bucket is made if missing, then one token is taken.
RateLimit(q) ==
    /\ At(q, "idle")
    /\ LET c == CallerOf[q]
           p == PlaceOf(q)
           known == c \in DOMAIN bucket[p]
           have == IF known THEN bucket[p][c] ELSE Rate
           ok == have >= 1
       IN /\ \E lost \in IF shared THEN {{}} ELSE Evictions(Here(q), c) :
               /\ bucket' = [bucket EXCEPT ![p] =
                                [x \in (DOMAIN @ \ lost) \cup {c} |->
                                    IF x # c THEN @[x] ELSE IF ok THEN have - 1 ELSE have]]
               /\ recent' = IF shared THEN recent
                            ELSE [recent EXCEPT ![Here(q)] =
                                     Append(Filtered(@, Callers \ (lost \cup {c})), c)]
          /\ credit' = IF known THEN credit ELSE [credit EXCEPT ![p][c] = @ + Rate]
          /\ \E retry \in setup.retries, stream \in setup.streams :
               req' = [req EXCEPT ![q].retry = retry, ![q].stream = stream,
                                  ![q].pc = IF ok THEN "select" ELSE "done",
                                  ![q].status = IF ok THEN @ ELSE "429"]
    /\ UNCHANGED <<setup, local, turn, circuit, leases>>

RateStoreFails(q) ==
    /\ setup.faults /\ shared /\ At(q, "idle")
    /\ Refuse(q)
    /\ UNCHANGED <<setup, local, turn, circuit, leases, rates>>

\* Time adds a token to a bucket below its capacity.
Refill(p, c) ==
    /\ c \in DOMAIN bucket[p] /\ bucket[p][c] < Rate
    /\ credit[p][c] < Rate + setup.refills
    /\ bucket' = [bucket EXCEPT ![p][c] = @ + 1]
    /\ credit' = [credit EXCEPT ![p][c] = @ + 1]
    /\ UNCHANGED <<setup, req, local, turn, circuit, leases, recent>>

------------------------------------------------------------------------------
(* Target.available(): a circuit whose cooldown has passed is closed again,  *)
(* one failure short of opening.                                             *)

Reopened(x) == IF x.open = "cooled" THEN [x EXCEPT !.open = "closed", !.fails = FailureThreshold - 1] ELSE x
Available(x) == x.open # "open"
AllChecked(r) == [local EXCEPT ![r] = [t \in Targets |-> Reopened(local[r][t])]]

\* The targets at the positions S of the route, in the configured order.
InOrder(S) ==
    {[i \in 1..Cardinality(S) |-> setup.order[at[i]]] :
        at \in {f \in [1..Cardinality(S) -> S] : \A i, j \in DOMAIN f : i < j => f[i] < f[j]}}

\* _select_targets: the available ones, rotated; a request that may not be
\* repeated keeps the first.  A body that is too large is refused after that.
Select(q) ==
    /\ At(q, "select")
    /\ \E ready \in InOrder({i \in DOMAIN setup.order : Available(local[Here(q)][setup.order[i]])}) :
        LET r == Here(q)
            start == turn[r] % Len(ready)
            order == SubSeq(ready, start + 1, Len(ready)) \o SubSeq(ready, 1, start)
        IN IF ready = <<>>
             THEN Refuse(q) /\ UNCHANGED turn
             ELSE /\ \/ req' = [req EXCEPT ![q].pc = "check",
                                           ![q].todo = IF req[q].retry THEN order ELSE <<order[1]>>]
                     \/ req' = [req EXCEPT ![q].pc = "done", ![q].status = "4xx"]
                  /\ turn' = [turn EXCEPT ![r] = start + 1]
    /\ local' = AllChecked(Here(q))
    /\ UNCHANGED <<setup, circuit, leases, rates>>

\* GET /gateway/health asks every breaker, and so half-opens the cooled ones.
Health(r) ==
    /\ \E t \in Targets : local[r][t].open = "cooled"
    /\ local' = AllChecked(r)
    /\ UNCHANGED <<setup, req, turn, circuit, leases, rates>>

\* Target.try_acquire: a free slot or none.
TakeSlot(q, x, pc) ==
    IF x.used < MaxConcurrency
      THEN /\ local' = [local EXCEPT ![Here(q)][Target(q)] = [x EXCEPT !.used = x.used + 1]]
           /\ req' = [req EXCEPT ![q].pc = pc, ![q].held = TRUE,
                                 ![q].sent = IF pc = "call" THEN @ \cup {Target(q)} ELSE @]
      ELSE /\ local' = [local EXCEPT ![Here(q)][Target(q)] = x]
           /\ Skip(q)

\* The local half of _target_available and, without a store, the slot.
CheckTarget(q) ==
    /\ At(q, "check")
    /\ LET x == local[Here(q)][Target(q)] IN
       \/ ~Available(x) /\ Skip(q) /\ UNCHANGED local
       \/ Available(x) /\ ~shared /\ TakeSlot(q, Reopened(x), "call")
       \/ /\ Available(x) /\ shared
          /\ local' = [local EXCEPT ![Here(q)][Target(q)] = Reopened(x)]
          /\ req' = [req EXCEPT ![q].pc = "circuit"]
    /\ UNCHANGED <<setup, turn, circuit, leases, rates>>

\* Mutant of SharedCircuit: the probe is not marked.
SharedCircuitUnmarked(q) ==
    /\ At(q, "circuit")
    /\ LET t == Target(q)
           c == circuit[t]
           probes == c.open = "cooled"
       IN \/ /\ c.open = "open" \/ (probes /\ c.probe)
             /\ Skip(q) /\ UNCHANGED <<local, circuit>>
          \/ /\ ~(c.open = "open" \/ (probes /\ c.probe))
             /\ UNCHANGED circuit
             /\ IF local[Here(q)][t].used < MaxConcurrency
                  THEN /\ local' = [local EXCEPT ![Here(q)][t].used = @ + 1]
                       /\ req' = [req EXCEPT ![q].pc = "lease", ![q].held = TRUE,
                                             ![q].probe = IF probes THEN c.times ELSE 0]
                  ELSE Skip(q) /\ UNCHANGED local
    /\ UNCHANGED <<setup, turn, leases, rates>>

\* The script circuit_available: an open circuit refuses, a cooled one lets a
\* single probe pass and marks it.  Then the local slot.
SharedCircuit(q) ==
    /\ At(q, "circuit")
    /\ LET t == Target(q)
           c == circuit[t]
           probes == c.open = "cooled"
       IN \/ /\ c.open = "open" \/ (probes /\ c.probe)
             /\ Skip(q) /\ UNCHANGED <<local, circuit>>
          \/ /\ ~(c.open = "open" \/ (probes /\ c.probe))
             /\ circuit' = [circuit EXCEPT ![t].probe = @ \/ probes]
             /\ IF local[Here(q)][t].used < MaxConcurrency
                  THEN /\ local' = [local EXCEPT ![Here(q)][t].used = @ + 1]
                       /\ req' = [req EXCEPT ![q].pc = "lease", ![q].held = TRUE,
                                             ![q].probe = IF probes THEN c.times ELSE 0]
                  ELSE Skip(q) /\ UNCHANGED local
    /\ UNCHANGED <<setup, turn, leases, rates>>

SlotBack(q) == [local EXCEPT ![Here(q)][Target(q)].used = @ - 1]

\* The script try_acquire_bulkhead; without a lease the local slot goes back.
AcquireLease(q) ==
    /\ At(q, "lease")
    /\ LET t == Target(q) IN
       \/ /\ Cardinality(leases[t]) < MaxConcurrency
          /\ leases' = [leases EXCEPT ![t] = @ \cup {q}]
          /\ req' = [req EXCEPT ![q].pc = "call", ![q].leased = TRUE, ![q].sent = @ \cup {t}]
          /\ UNCHANGED local
       \/ /\ Cardinality(leases[t]) >= MaxConcurrency
          /\ local' = SlotBack(q)
          /\ req' = [req EXCEPT ![q] = Onward(q, [req[q] EXCEPT !.held = FALSE, !.probe = 0])]
          /\ UNCHANGED leases
    /\ UNCHANGED <<setup, turn, circuit, rates>>

\* Mutant of StoreFails: the local slot is not given back.
StoreFailsLeaky(q) ==
    /\ setup.faults /\ req[q].pc \in {"circuit", "lease"}
    /\ UNCHANGED local
    /\ req' = [req EXCEPT ![q].pc = "done", ![q].status = "503", ![q].todo = <<>>,
                          ![q].held = FALSE, ![q].probe = 0]
    /\ UNCHANGED <<setup, turn, circuit, leases, rates>>

\* The circuit or the lease script raises: 503, the slot released.
StoreFails(q) ==
    /\ setup.faults /\ req[q].pc \in {"circuit", "lease"}
    /\ local' = IF At(q, "lease") THEN SlotBack(q) ELSE local
    /\ req' = [req EXCEPT ![q].pc = "done", ![q].status = "503", ![q].todo = <<>>,
                          ![q].held = FALSE, ![q].probe = 0]
    /\ UNCHANGED <<setup, turn, circuit, leases, rates>>

------------------------------------------------------------------------------
(* The upstream call.  What remains to be done is kept in order: a response  *)
(* is released first and recorded then, an error and a stream the other way. *)

Then(q, outcome, order, status) ==
    req' = [req EXCEPT ![q].pc = "after", ![q].outcome = outcome, ![q].after = order, ![q].status = status]

Responds(q) ==
    /\ At(q, "call")
    /\ \/ Then(q, "failure", <<"release", "record">>, "5xx")
       \/ ~req[q].stream /\ Then(q, "success", <<"release", "record">>, "2xx")
       \/ req[q].stream /\ req' = [req EXCEPT ![q].pc = "streaming", ![q].status = "2xx"]
    /\ UNCHANGED <<setup, local, turn, circuit, leases, rates>>

\* httpx.HTTPError before a response: the status seen so far stands.
CallFails(q) ==
    /\ At(q, "call")
    /\ Then(q, "failure", <<"record", "release">>, req[q].status)
    /\ UNCHANGED <<setup, local, turn, circuit, leases, rates>>

\* The body generator ends, breaks, or is closed by a client that went away; a
\* response whose body was never iterated runs no finally block.
StreamEnds(q) ==
    /\ At(q, "streaming")
    /\ \/ Then(q, "success", <<"record", "release">>, "2xx")
       \/ Then(q, "failure", <<"record", "release">>, "2xx")
       \/ Then(q, None, <<"release">>, "2xx")
    /\ UNCHANGED <<setup, local, turn, circuit, leases, rates>>

StreamUnread(q) ==
    /\ At(q, "streaming")
    /\ req' = [req EXCEPT ![q].pc = "done", ![q].todo = <<>>]
    /\ UNCHANGED <<setup, local, turn, circuit, leases, rates>>

\* After the last of the remaining steps: a failed call that was no stream in
\* progress goes to the next target.
Finish(q, rec) ==
    IF Len(rec.after) > 1 THEN [rec EXCEPT !.after = Tail(rec.after)]
    ELSE LET end == [rec EXCEPT !.after = <<>>, !.outcome = None] IN
         IF rec.outcome = "failure" /\ rec.status # "2xx" THEN Onward(q, end)
         ELSE [end EXCEPT !.pc = "done", !.todo = <<>>]

\* Target.record_failure and the Lua script: at the threshold the circuit opens.
Failed(x) == [x EXCEPT !.fails = x.fails + 1, !.open = IF x.fails + 1 >= FailureThreshold THEN "open" ELSE x.open]
SharedFailed(c) ==
    IF c.fails + 1 >= FailureThreshold
      THEN [fails |-> c.fails + 1, open |-> "open", probe |-> FALSE, times |-> c.times + 1]
      ELSE [c EXCEPT !.fails = c.fails + 1]

Record(q) ==
    /\ At(q, "after") /\ Head(req[q].after) = "record"
    /\ LET t == Target(q)
           failed == req[q].outcome = "failure"
       IN /\ local' = [local EXCEPT ![Here(q)][t] =
                          IF failed THEN Failed(local[Here(q)][t])
                          ELSE [local[Here(q)][t] EXCEPT !.fails = 0, !.open = "closed"]]
          /\ \/ shared /\ circuit' = [circuit EXCEPT ![t] =
                             IF failed THEN SharedFailed(circuit[t]) ELSE [NoCircuit EXCEPT !.times = circuit[t].times]]
             \/ (~shared \/ setup.faults) /\ UNCHANGED circuit
    /\ req' = [req EXCEPT ![q] = Finish(q, [req[q] EXCEPT !.probe = 0])]
    /\ UNCHANGED <<setup, turn, leases, rates>>

Release(q) ==
    /\ At(q, "after") /\ Head(req[q].after) = "release"
    /\ local' = SlotBack(q)
    /\ \/ leases' = [leases EXCEPT ![Target(q)] = @ \ {q}]
       \/ shared /\ setup.faults /\ UNCHANGED leases
    /\ req' = [req EXCEPT ![q] = Finish(q, [req[q] EXCEPT !.held = FALSE, !.leased = FALSE])]
    /\ UNCHANGED <<setup, turn, circuit, rates>>

------------------------------------------------------------------------------
(* Time: cooldowns, the lease deadline and the expiry of the circuit key.    *)

CoolLocal(r, t) ==
    /\ local[r][t].open = "open"
    /\ local' = [local EXCEPT ![r][t].open = "cooled"]
    /\ UNCHANGED <<setup, req, turn, circuit, leases, rates>>

CoolShared(t) ==
    /\ circuit[t].open = "open"
    /\ circuit' = [circuit EXCEPT ![t].open = "cooled"]
    /\ UNCHANGED <<setup, req, local, turn, leases, rates>>

\* The key lives for at least twice the cooldown after its last use.
CircuitKeyExpires(t) ==
    /\ circuit[t].fails > 0 /\ circuit[t].open # "open"
    /\ circuit' = [circuit EXCEPT ![t] = [NoCircuit EXCEPT !.times = circuit[t].times]]
    /\ UNCHANGED <<setup, req, local, turn, leases, rates>>

LeaseExpires(t, q) ==
    /\ q \in leases[t]
    /\ leases' = [leases EXCEPT ![t] = @ \ {q}]
    /\ req' = [req EXCEPT ![q].leased = FALSE]
    /\ UNCHANGED <<setup, local, turn, circuit, rates>>

------------------------------------------------------------------------------
Step(q) ==
    \/ Denied(q) \/ RateLimit(q) \/ Select(q) \/ CheckTarget(q) \/ SharedCircuit(q) \/ AcquireLease(q)
    \/ Responds(q) \/ CallFails(q) \/ Record(q) \/ Release(q)

Next ==
    \/ \E q \in Requests : Step(q) \/ RateStoreFails(q) \/ StoreFails(q) \/ StreamEnds(q) \/ StreamUnread(q)
    \/ \E p \in Places, c \in Callers : Refill(p, c)
    \/ \E r \in Replicas : Health(r) \/ \E t \in Targets : CoolLocal(r, t)
    \/ \E t \in Targets : CoolShared(t) \/ CircuitKeyExpires(t) \/ \E q \in Requests : LeaseExpires(t, q)

Spec == Init /\ [][Next]_vars

------------------------------------------------------------------------------
(* Properties.                                                               *)

\* Every slot taken from a target's bulkhead is held by a request between its
\* acquisition and its release, whatever fails in between; only a stream whose
\* body is never iterated keeps one.
Abandoned(q) == At(q, "done") /\ req[q].held
SlotsAccounted ==
    \A r \in Replicas, t \in Targets :
        LET holders == {q \in DOMAIN setup.at : Here(q) = r /\ req[q].held /\ req[q].todo # <<>> /\ Target(q) = t}
            strays == {q \in DOMAIN setup.at : Here(q) = r /\ Abandoned(q) /\ t \in req[q].sent}
        IN /\ Cardinality(holders) <= local[r][t].used
           /\ local[r][t].used <= Cardinality(holders) + Cardinality(strays)

\* Over all replicas the calls in progress at a target stay within its bulkhead,
\* except for calls that outlived their lease.
FleetBulkhead ==
    shared => \A t \in Targets :
        Cardinality({q \in Requests : req[q].pc \in {"call", "streaming"} /\ Target(q) = t /\ req[q].leased})
            <= MaxConcurrency

\* Each opening of a shared circuit lets at most one probe through, over all
\* replicas, until the circuit is closed or opened again.
OneProbe ==
    \A p, q \in Requests :
        p # q /\ req[p].probe > 0 /\ req[p].todo # <<>> /\ req[q].todo # <<>> /\ Target(p) = Target(q)
            => req[p].probe # req[q].probe

\* A request that may not be repeated reaches at most one target, and no request
\* is sent on after a target has answered it.
SentOnce ==
    \A q \in Requests :
        /\ ~req[q].retry => Cardinality(req[q].sent) <= 1
        /\ req[q].status = "2xx" => At(q, "done") \/ req[q].pc \in {"streaming", "after"}

\* At a replica, or in the fleet where the buckets are shared, a caller is granted no
\* more requests than its bucket there ever held tokens, evictions included.
Counted(x) == x.pc # "idle" /\ x.status # "429" /\ (x.sent # {} \/ x.pc # "done")
Granted(p, c) == {q \in DOMAIN setup.at : PlaceOf(q) = p /\ CallerOf[q] = c /\ Counted(req[q])}
RateHonoured == \A p \in Places, c \in Callers : Cardinality(Granted(p, c)) <= credit[p][c]

\* The gateway's books: slots, leases, repeated requests and tokens are accounted
\* for on every path through forward(), whatever fails, expires or is abandoned.
GatewayAccounts == TypeOK /\ SlotsAccounted /\ FleetBulkhead /\ SentOnce /\ RateHonoured
=============================================================================
