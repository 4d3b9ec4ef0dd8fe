------------------------- MODULE OperationRegistry -------------------------
(***************************************************************************)
(* The durable idempotency registries for one idempotency key, used by     *)
(* several replicas the way AdkRuntime._execute_tools uses them: claim,    *)
(* run the tool, record.  The two backends are                             *)
(*   RedisOperationRegistry    (src/micro_agent/security/redis_operations) *)
(*   PostgresIdempotencyStore  (src/micro_agent/memory/postgres)           *)
(* and a behaviour uses one of them throughout.                            *)
(*                                                                         *)
(* A Redis command or an SQL statement is atomic, the sequences built from *)
(* them are not: each one is an action.  Redis removes an expired key; in  *)
(* PostgreSQL the row stays, invisible to SELECT, free for reclaiming and  *)
(* still there for UPDATE.                                                 *)
(***************************************************************************)
EXTENDS Integers, FiniteSets

CONSTANTS Ops,             \* operation ids, one per tool call with this key
          TtlCoversWork    \* ttl_seconds exceeds every claim-to-record time

ASSUME RegistryAssumption ==
    /\ TtlCoversWork \in BOOLEAN
    /\ "none" \notin Ops

VARIABLES backend,   \* "redis" or "postgres", never changes
          row,       \* what is stored under the key
          live,      \* something is stored and has not expired
          ttl,       \* what is stored carries an expiry
          pc         \* where each operation is

vars == <<backend, row, live, ttl, pc>>
stored == <<row, live, ttl>>

Free == [op |-> "none", status |-> "free"]
Reserved(w) == [op |-> w, status |-> "in_progress"]
Completed(w) == [op |-> w, status |-> "completed"]

Rows == {Free} \cup {Reserved(w) : w \in Ops} \cup {Completed(w) : w \in Ops}

OpPc == {"idle", "lookup", "retry", "lookupAgain", "reclaim", "executing",
         "recording", "publishing", "deduplicated", "done", "dropped"}

\* Operations that have claimed the key and not yet given up or published.
Active == {w \in Ops : pc[w] \in {"executing", "recording", "publishing"}}

\* What the key shows to a reader: an expired row counts as no row.
Visible == IF live THEN row ELSE Free

TypeOK ==
    /\ backend \in {"redis", "postgres"}
    /\ row \in Rows
    /\ live \in BOOLEAN
    /\ ttl \in BOOLEAN
    /\ live => row # Free
    /\ pc \in [Ops -> OpPc]

Init ==
    /\ backend \in {"redis", "postgres"}
    /\ row = Free
    /\ live = FALSE
    /\ ttl = FALSE
    /\ pc = [w \in Ops |-> "idle"]

Goto(w, place) == pc' = [pc EXCEPT ![w] = place]

Reserve(w) ==
    /\ row' = Reserved(w)
    /\ live' = TRUE
    /\ ttl' = TRUE
    /\ Goto(w, "executing")

Skip(w, place) ==
    /\ Goto(w, place)
    /\ UNCHANGED stored

-----------------------------------------------------------------------------
(* RedisOperationRegistry. *)

\* Mutant: SET without NX.
SetWithoutNx(w, otherwise) == Reserve(w)

\* Mutant: the reservation is written without EX.
SetWithoutExpiry(w, otherwise) ==
    \/ /\ row = Free
       /\ row' = Reserved(w)
       /\ live' = TRUE
       /\ ttl' = FALSE
       /\ Goto(w, "executing")
    \/ row # Free /\ Skip(w, otherwise)

\* SET key reservation NX EX ttl.
SetNx(w, otherwise) ==
    \/ row = Free /\ Reserve(w)
    \/ row # Free /\ Skip(w, otherwise)

\* claim(): reserve, or look at what is there; a key that expired in between
\* is tried once more, and after that the call is answered as a duplicate.
ClaimSet(w) ==
    /\ backend = "redis"
    /\ pc[w] = "idle"
    /\ SetNx(w, "lookup")

ClaimGet(w) ==
    /\ backend = "redis"
    /\ pc[w] = "lookup"
    /\ Skip(w, IF row = Free THEN "retry" ELSE "deduplicated")

ClaimSetAgain(w) ==
    /\ pc[w] = "retry"
    /\ SetNx(w, "lookupAgain")

ClaimGetAgain(w) ==
    /\ pc[w] = "lookupAgain"
    /\ Skip(w, "deduplicated")

\* record(): GET and the ownership test ...
RecordGet(w) ==
    /\ backend = "redis"
    /\ pc[w] = "recording"
    /\ Skip(w, IF row.op = w THEN "publishing" ELSE "done")

\* ... then, as another command, the unconditional SET.
RecordSet(w) ==
    /\ pc[w] = "publishing"
    /\ row' = Completed(w)
    /\ live' = TRUE
    /\ ttl' = TRUE
    /\ Goto(w, "done")

-----------------------------------------------------------------------------
(* PostgresIdempotencyStore. *)

\* INSERT ... ON CONFLICT DO NOTHING.
ClaimInsert(w) ==
    /\ backend = "postgres"
    /\ pc[w] = "idle"
    /\ \/ row = Free /\ Reserve(w)
       \/ row # Free /\ Skip(w, "reclaim")

\* Mutant: the reclaiming UPDATE does not test expires_at.
ReclaimUnconditionally(w) ==
    /\ pc[w] = "reclaim"
    /\ Reserve(w)

\* UPDATE ... WHERE expires_at <= now().
ClaimReclaim(w) ==
    /\ pc[w] = "reclaim"
    /\ \/ ~live /\ Reserve(w)
       \/ live /\ Skip(w, "lookup")

\* SELECT of the prior result: found, or expired in the meantime and answered
\* as in progress.
ClaimSelect(w) ==
    /\ backend = "postgres"
    /\ pc[w] = "lookup"
    /\ Skip(w, "deduplicated")

\* UPDATE ... WHERE operation_id = own: renews expires_at, live or not.
Record(w) ==
    /\ backend = "postgres"
    /\ pc[w] = "recording"
    /\ Goto(w, "done")
    /\ \/ row.op = w /\ row' = Completed(w) /\ live' = TRUE /\ ttl' = TRUE
       \/ row.op # w /\ UNCHANGED stored

-----------------------------------------------------------------------------
(* What both backends share. *)

\* The tool returned, raised or hit its own timeout: its result is recorded.
ToolEnds(w) ==
    /\ pc[w] = "executing"
    /\ Skip(w, "recording")

\* The process dies, the invocation's deadline passes or the backend cannot
\* be reached: the operation gives up where it is and what it wrote stays.
GiveUp(w) ==
    /\ pc[w] \notin {"idle", "deduplicated", "done", "dropped"}
    /\ Skip(w, "dropped")

\* The TTL runs out.
Expire ==
    /\ live
    /\ ttl
    /\ TtlCoversWork => row.op \notin Active
    /\ live' = FALSE
    /\ ttl' = FALSE
    /\ row' = IF backend = "redis" THEN Free ELSE row
    /\ UNCHANGED <<backend, pc>>

OpStep(w) ==
    /\ \/ ClaimSet(w) \/ ClaimGet(w) \/ ClaimSetAgain(w) \/ ClaimGetAgain(w)
       \/ RecordGet(w) \/ RecordSet(w)
       \/ ClaimInsert(w) \/ ClaimReclaim(w) \/ ClaimSelect(w) \/ Record(w)
       \/ ToolEnds(w) \/ GiveUp(w)
    /\ UNCHANGED backend

Next == Expire \/ \E w \in Ops : OpStep(w)

Spec == Init /\ [][Next]_vars

\* Fairness: the TTL runs out, and an operation that holds the key ends (its
\* tool has a timeout) or gives up.
FairSpec ==
    /\ Spec
    /\ WF_vars(Expire)
    /\ \A w \in Ops : WF_vars(w \in Active /\ OpStep(w))

-----------------------------------------------------------------------------
(* Properties. *)

\* Two replicas never run the tool under the same key at the same time.
ExclusiveExecution == \A v, w \in Active : v = w

\* The inductive invariant: while the TTL covers the work, whoever is at work
\* still holds its reservation: nothing another replica did, no expiry and no
\* late result has taken the key away.  Redis keeps no expired value, and only
\* a Redis operation is between the GET and the SET of record().
RegistryInv ==
    /\ TypeOK
    /\ backend = "redis" => (live <=> row # Free)
    /\ \A w \in Ops : pc[w] \in {"retry", "lookupAgain", "publishing"} => backend = "redis"
    /\ \A w \in Ops : pc[w] = "reclaim" => backend = "postgres"
    /\ TtlCoversWork => \A w \in Active : live /\ row = Reserved(w)

\* record(): "Only the operation that owns the reservation may publish a
\* result": in PostgreSQL a result never replaces what another operation has
\* stored since, whatever the TTL.
PostgresOwnerOnlyPublishes ==
    [][backend = "postgres" =>
         \A w \in Ops : row' = Completed(w) => row \in {Reserved(w), Completed(w)}]_vars

\* "an abandoned operation cannot block a key forever".
AbandonedKeyFreed ==
    \A w \in Ops :
        (Visible = Reserved(w) /\ pc[w] = "dropped") ~> (Visible # Reserved(w))

\* Both registries implement the contract while the TTL covers the work.
Contract == INSTANCE IdempotencyContract WITH slot <- Visible, working <- Active
ImplementsContract == Contract!CSpec
=============================================================================
