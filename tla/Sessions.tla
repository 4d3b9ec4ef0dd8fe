------------------------------ MODULE Sessions ------------------------------
(***************************************************************************)
(* Session state (micro_agent/session): the four providers, and the        *)
(* callers that read a session, work and write it back: an invocation of   *)
(* the built-in runtime, whose turn goes to the session, then to memory,   *)
(* and whose checkpoint is dropped last (runtimes/adk/runtime.py), the     *)
(* Google ADK session service, which appends an event, and a caller that   *)
(* writes without a version.                                               *)
(*                                                                         *)
(* One session id.  A row's content is the sequence of the turns in it, a  *)
(* turn being named by the worker it belongs to.  Time is the moment at    *)
(* which the row's expires_at passes.  Redis and PostgreSQL operations     *)
(* take one step per command sent to the server; the in-memory and SQLite  *)
(* ones run under the event loop or one lock and take a single step.       *)
(***************************************************************************)
EXTENDS Naturals, Sequences, FiniteSets

CONSTANTS
    Workers,        \* the callers
    Invocations,    \* those that are invocations of the runtime
    Events,         \* those that append an event (Google ADK)
    Casts,          \* the sets of callers that meet on the session
    Backends,       \* the providers considered
    Ttls,           \* whether a time to live is configured
    MaxWrites,      \* bound on the writes that change the document
    MaxResumes,     \* bound on how often a checkpoint is resumed
    Deletes         \* whether sessions are deleted by request

ASSUME SessionsAssumption ==
    /\ Invocations \subseteq Workers /\ Events \subseteq Workers \ Invocations
    /\ Casts \subseteq SUBSET Workers
    /\ Backends \subseteq {"memory", "sqlite", "redis", "postgres"}
    /\ Ttls \subseteq BOOLEAN /\ Deletes \in BOOLEAN
    /\ MaxWrites \in Nat /\ MaxResumes \in Nat

\* redis.py: for _attempt in range(3)
Attempts == 3

VARIABLES
    backend, ttl,   \* rigid: the provider and whether rows expire
    cast,           \* rigid: the callers of this behaviour
    row,            \* the stored session, NoRow when there is none
    index,          \* Redis: the key is a member of the sorted-set index
    writes,         \* writes to the key so far (what WATCH detects)
    wk,             \* the callers' local state
    lister,         \* list_active on Redis: "idle", or "stale" once it read a gone key
    ckpt,           \* ckpt[w]: the row of w's checkpoint
    stored          \* stored[w]: w's memory entry was written

vars == <<backend, ttl, cast, row, index, writes, wk, lister, ckpt, stored>>
fixed == <<backend, ttl, cast>>
tail == <<ckpt, stored>>

NoRow == [ver |-> 0, msgs |-> <<>>, born |-> 0, exp |-> FALSE, acked |-> {}]

\* SessionContext with version 1 and no messages; born names the incarnation.
Fresh == [ver |-> 1, msgs |-> <<>>, born |-> writes + 1, exp |-> FALSE, acked |-> {}]

Local == [pc : {"idle", "get", "zrem", "remove", "select", "create", "save", "saveUpdate",
                "work", "update", "exec", "memory", "cleanup",
                "done", "dropped", "conflict", "failed"},
          ver : Nat, msgs : Seq(Workers), from : {"none", "get", "create"},
          born : Nat, seen : Nat, tries : 0..Attempts, runs : Nat]

Ended == {"done", "dropped", "conflict", "failed"}

TypeOK ==
    /\ backend \in Backends /\ ttl \in Ttls /\ cast \in Casts
    /\ row.ver \in Nat /\ row.msgs \in Seq(Workers) /\ row.born \in Nat
    /\ row.exp \in BOOLEAN /\ row.acked \subseteq Workers
    /\ index \in BOOLEAN /\ writes \in 0..MaxWrites
    /\ wk \in [Workers -> Local]
    /\ lister \in {"idle", "stale"}
    /\ ckpt \in [Workers -> {"none", "empty", "saved"}]
    /\ stored \in [Workers -> BOOLEAN]

Init ==
    /\ backend \in Backends /\ ttl \in Ttls /\ cast \in Casts
    /\ row = NoRow /\ index = FALSE /\ writes = 0
    /\ wk = [w \in Workers |-> [pc |-> "idle", ver |-> 0, msgs |-> <<>>, from |-> "none",
                                born |-> 0, seen |-> 0, tries |-> 0, runs |-> 0]]
    /\ lister = "idle"
    /\ ckpt = [w \in Workers |-> "none"]
    /\ stored = [w \in Workers |-> FALSE]

Present == row.ver > 0
At(w, pc) == wk[w].pc = pc
Goto(w, pc) == wk' = [wk EXCEPT ![w].pc = pc]
InSeq(x, s) == \E i \in DOMAIN s : s[i] = x

\* One more command that modifies the key; index is Redis's sorted set.
Write(new) ==
    /\ writes < MaxWrites /\ writes' = writes + 1
    /\ row' = new
    /\ index' = (new.ver > 0)

------------------------------------------------------------------------------
(* get()                                                                     *)

\* Where a get() leads: an invocation without a session creates one, an event
\* of a session that is gone is dropped (append_event returns it unwritten).
Missed(w) == IF w \in Events THEN "dropped" ELSE "create"

\* The caller's copy (deepcopy, JSON decode or row) and what it does next.
Copied(w) ==
    wk' = [wk EXCEPT ![w].pc = IF w \in Events THEN "work" ELSE "save",
                     ![w].ver = row.ver, ![w].msgs = row.msgs,
                     ![w].from = "get", ![w].born = row.born]

\* An invocation or an event starts.
Begin(w) ==
    /\ At(w, "idle") /\ w \in Invocations \cup Events
    /\ wk' = [wk EXCEPT ![w].pc = "get", ![w].runs = 1]
    /\ UNCHANGED <<fixed, row, index, writes, lister, tail>>

\* A failed invocation is resumed from its checkpoint: a row without a payload is
\* no checkpoint, and the session is read again.
Resume(w) ==
    /\ At(w, "failed") /\ ckpt[w] = "saved" /\ wk[w].runs <= MaxResumes
    /\ wk' = [wk EXCEPT ![w].pc = "get", ![w].runs = wk[w].runs + 1, ![w].tries = 0]
    /\ UNCHANGED <<fixed, row, index, writes, lister, tail>>

\* An expired session is deleted by its reader and counts as missing.
LocalGet(w) ==
    /\ At(w, "get")
    /\ \/ Present /\ ~row.exp /\ Copied(w) /\ UNCHANGED <<row, index, writes>>
       \/ Present /\ row.exp /\ Write(NoRow) /\ Goto(w, Missed(w))
       \/ ~Present /\ Goto(w, Missed(w)) /\ UNCHANGED <<row, index, writes>>
    /\ UNCHANGED <<fixed, lister, tail>>

MemoryGet(w) == backend = "memory" /\ LocalGet(w)
SqliteGet(w) == backend = "sqlite" /\ LocalGet(w)

\* Redis: GET, then for a missing key ZREM and for a document that has expired
\* but is still there DEL and ZREM, as commands of their own.
RedisGet(w) ==
    /\ backend = "redis" /\ At(w, "get")
    /\ \/ Present /\ ~row.exp /\ Copied(w)
       \/ Present /\ row.exp /\ Goto(w, "remove")
       \/ ~Present /\ Goto(w, "zrem")
    /\ UNCHANGED <<fixed, row, index, writes, lister, tail>>

RedisZrem(w) ==
    /\ At(w, "zrem")
    /\ index' = FALSE
    /\ Goto(w, Missed(w))
    /\ UNCHANGED <<fixed, row, writes, lister, tail>>

RedisRemove(w) ==
    /\ At(w, "remove")
    /\ Write(NoRow)
    /\ Goto(w, Missed(w))
    /\ UNCHANGED <<fixed, lister, tail>>

\* PostgreSQL: DELETE of an expired row; the SELECT is a second statement.
PostgresPurge(w) ==
    /\ backend = "postgres" /\ At(w, "get")
    /\ \/ Present /\ row.exp /\ Write(NoRow) /\ Goto(w, Missed(w))
       \/ ~(Present /\ row.exp) /\ Goto(w, "select") /\ UNCHANGED <<row, index, writes>>
    /\ UNCHANGED <<fixed, lister, tail>>

PostgresSelect(w) ==
    /\ At(w, "select")
    /\ IF Present THEN Copied(w) ELSE Goto(w, Missed(w))
    /\ UNCHANGED <<fixed, row, index, writes, lister, tail>>

------------------------------------------------------------------------------
(* create()                                                                  *)

Created(w, version, born) ==
    wk' = [wk EXCEPT ![w].pc = "save", ![w].ver = version, ![w].msgs = <<>>,
                     ![w].from = "create", ![w].born = born]

\* The in-memory, SQLite and Redis providers store version 1 over whatever is
\* there.
Overwrite(w) ==
    /\ At(w, "create")
    /\ Write(Fresh) /\ Created(w, 1, writes + 1)
    /\ UNCHANGED <<fixed, lister, tail>>

MemoryCreate(w) == backend = "memory" /\ Overwrite(w)
SqliteCreate(w) == backend = "sqlite" /\ Overwrite(w)
RedisCreate(w) == backend = "redis" /\ Overwrite(w)

\* INSERT ... ON CONFLICT DO UPDATE SET expires_at RETURNING version: an
\* existing row keeps its content; the caller gets its version and no messages.
PostgresCreate(w) ==
    /\ backend = "postgres" /\ At(w, "create")
    /\ IF Present
         THEN Write([row EXCEPT !.exp = ~ttl /\ row.exp]) /\ Created(w, row.ver, row.born)
         ELSE Write(Fresh) /\ Created(w, 1, writes + 1)
    /\ UNCHANGED <<fixed, lister, tail>>

------------------------------------------------------------------------------
(* The invocation between reading and writing its session.                   *)

\* SessionCheckpointStore.save on the invocation's own key: create when there is
\* no checkpoint row yet, then update.
SaveCreate(w) ==
    /\ At(w, "save")
    /\ ckpt' = [ckpt EXCEPT ![w] = IF @ = "none" THEN "empty" ELSE @]
    /\ Goto(w, "saveUpdate")
    /\ UNCHANGED <<fixed, row, index, writes, lister, stored>>

SaveUpdate(w) ==
    /\ At(w, "saveUpdate")
    /\ ckpt' = [ckpt EXCEPT ![w] = "saved"]
    /\ Goto(w, "work")
    /\ UNCHANGED <<fixed, row, index, writes, lister, stored>>

\* The session the in-memory create() returned is the stored object itself.
Aliased(w) == backend = "memory" /\ wk[w].from = "create" /\ Present /\ row.born = wk[w].born
              /\ row.ver = wk[w].ver

\* session.messages.extend(...): the new turn after the messages read.  A caller
\* that writes without a version comes with a context of its own.
Extend(w) ==
    /\ At(w, "work") \/ (At(w, "idle") /\ w \notin Invocations \cup Events)
    /\ LET old == IF Aliased(w) THEN row.msgs ELSE wk[w].msgs IN
       /\ wk' = [wk EXCEPT ![w].pc = "update", ![w].msgs = Append(old, w)]
       /\ row' = IF Aliased(w) THEN [row EXCEPT !.msgs = Append(old, w)] ELSE row
    /\ UNCHANGED <<fixed, index, writes, lister, tail>>

------------------------------------------------------------------------------
(* update()                                                                  *)

\* "if expected and expected != actual": version 0 states nothing.
Matches(w, version) == wk[w].ver \in {0, version}

\* Whether the caller's copy holds every turn acknowledged in this incarnation:
\* it was read from the current row by get().
Current(w) == wk[w].from = "get" /\ wk[w].born = row.born

\* The row an accepted update leaves; append_event passes no time to live, which
\* leaves the expiry alone except where the provider's default applies.
Updated(w) ==
    [ver |-> row.ver + 1, msgs |-> wk[w].msgs, born |-> row.born,
     exp |-> w \in Events /\ backend # "postgres" /\ row.exp,
     acked |-> (IF Current(w) THEN row.acked ELSE {}) \cup {w}]

Inserted(w) == [ver |-> 1, msgs |-> wk[w].msgs, born |-> writes + 1, exp |-> FALSE, acked |-> {w}]

\* Only an invocation goes on to its memory entry and its checkpoint.
Stored(w) == IF w \in Invocations THEN "memory" ELSE "done"

Accept(w, new) == Write(new) /\ Goto(w, Stored(w))
Conflict(w) == Goto(w, "conflict") /\ UNCHANGED <<row, index, writes>>

\* In-memory: a missing session is inserted also for a copy of version 1.
MemoryUpdate(w) ==
    /\ backend = "memory" /\ At(w, "update")
    /\ \/ Present /\ Matches(w, row.ver) /\ Accept(w, Updated(w))
       \/ Present /\ ~Matches(w, row.ver) /\ Conflict(w)
       \/ ~Present /\ (wk[w].ver = 0 \/ (wk[w].ver = 1 /\ w \notin Events)) /\ Accept(w, Inserted(w))
       \/ ~Present /\ ~(wk[w].ver = 0 \/ (wk[w].ver = 1 /\ w \notin Events)) /\ Conflict(w)
    /\ UNCHANGED <<fixed, lister, tail>>

SqliteUpdate(w) ==
    /\ backend = "sqlite" /\ At(w, "update")
    /\ \/ Present /\ Matches(w, row.ver) /\ Accept(w, Updated(w))
       \/ ~Present /\ wk[w].ver = 0 /\ Accept(w, Inserted(w))
       \/ ~Matches(w, row.ver) /\ Conflict(w)
    /\ UNCHANGED <<fixed, lister, tail>>

\* Redis: WATCH and GET, and the version check of prepare().
RedisWatch(w) ==
    /\ backend = "redis" /\ At(w, "update")
    /\ IF Matches(w, row.ver) /\ wk[w].tries < Attempts
         THEN wk' = [wk EXCEPT ![w].pc = "exec", ![w].seen = writes, ![w].tries = wk[w].tries + 1]
         ELSE Goto(w, "conflict")
    /\ UNCHANGED <<fixed, row, index, writes, lister, tail>>

\* Mutant of RedisExec: the transaction runs without WATCH.
RedisExecUnwatched(w) ==
    /\ backend = "redis" /\ At(w, "exec")
    /\ Accept(w, IF Present THEN Updated(w) ELSE Inserted(w))
    /\ UNCHANGED <<fixed, lister, tail>>

\* MULTI ... EXEC: refused when the key changed since WATCH, and then tried again.
\* Writing a document whose expiry has passed deletes it.
RedisExec(w) ==
    /\ backend = "redis" /\ At(w, "exec")
    /\ IF wk[w].seen # writes
         THEN Goto(w, "update") /\ UNCHANGED <<row, index, writes>>
         ELSE IF ~Present THEN Accept(w, Inserted(w))
         ELSE IF Updated(w).exp THEN Accept(w, NoRow)
         ELSE Accept(w, Updated(w))
    /\ UNCHANGED <<fixed, lister, tail>>

\* PostgreSQL: SELECT version, the checks, and as a second statement the guarded
\* UPDATE, or the INSERT ... ON CONFLICT DO UPDATE of a write without a version.
PostgresCheck(w) ==
    /\ backend = "postgres" /\ At(w, "update")
    /\ IF Matches(w, row.ver)
         THEN wk' = [wk EXCEPT ![w].pc = "exec", ![w].seen = row.ver]
         ELSE Goto(w, "conflict")
    /\ UNCHANGED <<fixed, row, index, writes, lister, tail>>

\* Mutant of PostgresWrite: the UPDATE lacks "AND version = $7".
PostgresWriteUnguarded(w) ==
    /\ backend = "postgres" /\ At(w, "exec")
    /\ Accept(w, IF Present THEN Updated(w) ELSE Inserted(w))
    /\ UNCHANGED <<fixed, lister, tail>>

PostgresWrite(w) ==
    /\ backend = "postgres" /\ At(w, "exec")
    /\ \/ wk[w].seen = 0 /\ Accept(w, IF Present THEN Updated(w) ELSE Inserted(w))
       \/ wk[w].seen > 0 /\ row.ver = wk[w].seen /\ Accept(w, Updated(w))
       \/ wk[w].seen > 0 /\ row.ver # wk[w].seen /\ Conflict(w)
    /\ UNCHANGED <<fixed, lister, tail>>

------------------------------------------------------------------------------
(* The rest of the invocation: memory_provider.store, then the checkpoint.   *)

\* Mutant of StoreMemory: the checkpoint is dropped before the memory entry is safe.
StoreMemoryLast(w) ==
    /\ At(w, "memory")
    /\ ckpt' = [ckpt EXCEPT ![w] = "none"]
    /\ stored' = [stored EXCEPT ![w] = TRUE]
    /\ Goto(w, "cleanup")
    /\ UNCHANGED <<fixed, row, index, writes, lister>>

StoreMemory(w) ==
    /\ At(w, "memory")
    /\ stored' = [stored EXCEPT ![w] = TRUE]
    /\ Goto(w, "cleanup")
    /\ UNCHANGED <<fixed, row, index, writes, lister, ckpt>>

DropCheckpoint(w) ==
    /\ At(w, "cleanup")
    /\ ckpt' = [ckpt EXCEPT ![w] = "none"]
    /\ Goto(w, "done")
    /\ UNCHANGED <<fixed, row, index, writes, lister, stored>>

\* deadline.run raises at any of these calls, the call fails, or the process dies.
Fails(w) ==
    /\ w \in Invocations /\ wk[w].pc \notin Ended \cup {"idle"}
    /\ Goto(w, "failed")
    /\ UNCHANGED <<fixed, row, index, writes, lister, tail>>

------------------------------------------------------------------------------
(* Time, deletion and listing.                                               *)

\* expires_at passes.
Expire ==
    /\ ttl /\ Present /\ ~row.exp
    /\ row' = [row EXCEPT !.exp = TRUE]
    /\ UNCHANGED <<fixed, index, writes, wk, lister, tail>>

\* The server's own TTL removes the key; the index member remains.
RedisEvict ==
    /\ backend = "redis" /\ Present /\ row.exp
    /\ writes < MaxWrites /\ writes' = writes + 1 /\ row' = NoRow
    /\ UNCHANGED <<fixed, index, wk, lister, tail>>

Delete ==
    /\ Deletes /\ Present
    /\ Write(NoRow)
    /\ UNCHANGED <<fixed, wk, lister, tail>>

\* list_active of the providers that read and prune in one step.
Prune ==
    /\ Present /\ row.exp
    /\ Write(NoRow)
    /\ UNCHANGED <<fixed, wk, lister, tail>>

MemoryList == backend = "memory" /\ Prune
SqliteList == backend = "sqlite" /\ Prune
PostgresList == backend = "postgres" /\ Prune

\* Redis: ZRANGE and MGET find an indexed key without a live document; the keys
\* found are deleted by a later pipeline, whatever they hold by then.
RedisScan ==
    /\ backend = "redis" /\ lister = "idle" /\ index /\ (~Present \/ row.exp)
    /\ lister' = "stale"
    /\ UNCHANGED <<fixed, row, index, writes, wk, tail>>

RedisPrune ==
    /\ lister = "stale"
    /\ Write(NoRow)
    /\ lister' = "idle"
    /\ UNCHANGED <<fixed, wk, tail>>

------------------------------------------------------------------------------
Step(w) ==
    \/ Begin(w) \/ Resume(w) \/ MemoryGet(w) \/ SqliteGet(w) \/ RedisGet(w) \/ RedisZrem(w)
    \/ RedisRemove(w) \/ PostgresPurge(w) \/ PostgresSelect(w)
    \/ MemoryCreate(w) \/ SqliteCreate(w) \/ RedisCreate(w) \/ PostgresCreate(w)
    \/ SaveCreate(w) \/ SaveUpdate(w) \/ Extend(w)
    \/ MemoryUpdate(w) \/ SqliteUpdate(w) \/ RedisWatch(w) \/ RedisExec(w)
    \/ PostgresCheck(w) \/ PostgresWrite(w)
    \/ StoreMemory(w) \/ DropCheckpoint(w) \/ Fails(w)

Next ==
    \/ \E w \in cast : Step(w)
    \/ Expire \/ RedisEvict \/ Delete \/ MemoryList \/ SqliteList \/ PostgresList
    \/ RedisScan \/ RedisPrune

Spec == Init /\ [][Next]_vars

------------------------------------------------------------------------------
(* Properties.                                                               *)

\* A turn whose update was acknowledged stays in the session as long as every
\* later writer works on a copy it read from the same incarnation of it, with
\* whatever provider, and however the steps of the updates interleave.
AckedTurnsKept == \A w \in row.acked : InSeq(w, row.msgs)

\* An invocation that fails anywhere between starting its work and its end leaves
\* either its turn in the session (the update was acknowledged) or a checkpoint
\* to resume from, and reports success only with turn and memory entry written.
RecordedOrResumable ==
    \A w \in Invocations :
        /\ wk[w].pc \in {"work", "update", "exec", "conflict", "memory", "cleanup"} => ckpt[w] = "saved"
        /\ At(w, "done") => stored[w]

\* A turn appears in the session at most once for every time its invocation ran:
\* writing the tail of the conversation never copies the history read before it.
OncePerRun ==
    \A w \in Workers : Cardinality({i \in DOMAIN row.msgs : row.msgs[i] = w})
                       <= IF w \in Invocations \cup Events THEN wk[w].runs ELSE 1

\* docs/CONFIGURATION.md, of the PostgreSQL provider: its stored version checks make
\* a stale writer conflict "instead of losing its update".  A turn whose update was
\* accepted is in the session while nothing deletes or expires it.
NoUpdateLost ==
    \A w \in Invocations : wk[w].pc \in {"memory", "cleanup", "done"} => InSeq(w, row.msgs)

\* Every provider implements the versioned document: each update is one atomic
\* write that states the version the caller holds, however many commands it takes.
Holding(w) == wk[w].pc \in {"save", "saveUpdate", "work", "update", "exec"}
VS == INSTANCE VersionedStore
        WITH Clients <- Workers, document <- row.ver,
             held <- [w \in Workers |-> IF Holding(w) THEN {wk[w].ver} ELSE {}]
ImplementsVersionedStore == VS!VSpec

\* What a session keeps: the turns acknowledged under its versions, none lost and
\* none repeated, under the four providers and their writers (update, create).
SessionTurns == TypeOK /\ AckedTurnsKept /\ OncePerRun
=============================================================================
