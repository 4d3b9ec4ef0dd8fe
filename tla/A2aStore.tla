------------------------------ MODULE A2aStore ------------------------------
(***************************************************************************)
(* The durable A2A task stores (interoperability/a2a_store.py), used by    *)
(* several worker processes.  SQLite keeps one row per task whose deadline *)
(* is set when the row is inserted and never moved; Redis keeps a document *)
(* with a time to live that every save renews, and a sorted set of keys    *)
(* that list() reads.  A transaction or a Redis command is one step; a     *)
(* worker may stop between two of them.                                    *)
(*                                                                         *)
(* A snapshot is the number of the save that wrote it: the SDK saves one   *)
(* task from one place at a time.                                          *)
(***************************************************************************)
EXTENDS Naturals, FiniteSets

CONSTANTS
    StoreWorkers, TaskKeys, \* a key is a tenant and a task id
    StoreBackends, MaxSaves,
    PageSize

ASSUME StoreAssumption ==
    /\ StoreBackends \subseteq {"sqlite", "redis"} /\ MaxSaves \in Nat /\ PageSize \in Nat \ {0}
    /\ {"none", "end"} \cap TaskKeys = {}     \* the ends of a walk over the pages are no tasks

VARIABLES
    kind,       \* rigid: the backend
    doc,        \* doc[k]: the stored snapshot, 0 when there is none
    fresh,      \* keys whose deadline has not passed
    index,      \* Redis: the keys in the sorted set
    op,         \* what each worker is doing
    saves,      \* saves[k]: snapshots written so far
    seen,       \* seen[w][k]: the newest snapshot w has read
    newer,      \* pairs of keys, the first saved after the second: the order of the status timestamps
    walk        \* the pages a worker has asked for

svars == <<kind, doc, fresh, index, op, saves, seen, newer, walk>>
paging == <<newer, walk>>

Idle == [pc |-> "idle", key |-> "none", keys |-> {}, page |-> {}, must |-> {}]

NoWalk == [token |-> "none", got |-> {}, must |-> {}]

StoreTypeOK ==
    /\ kind \in StoreBackends
    /\ doc \in [TaskKeys -> 0..MaxSaves] /\ saves \in [TaskKeys -> 0..MaxSaves]
    /\ fresh \subseteq {k \in TaskKeys : doc[k] # 0} /\ index \subseteq TaskKeys
    /\ kind = "redis" => fresh = {k \in TaskKeys : doc[k] # 0}
    /\ op \in [StoreWorkers -> [pc : {"idle", "purge", "zadd", "zrem", "mget", "prune"},
                                key : TaskKeys \cup {"none"}, keys : SUBSET TaskKeys,
                                page : SUBSET TaskKeys, must : SUBSET TaskKeys]]
    /\ seen \in [StoreWorkers -> [TaskKeys -> 0..MaxSaves]]
    /\ newer \subseteq TaskKeys \X TaskKeys
    /\ walk \in [StoreWorkers -> [token : TaskKeys \cup {"none", "end"}, got : SUBSET TaskKeys, must : SUBSET TaskKeys]]

StoreInit ==
    /\ kind \in StoreBackends
    /\ doc = [k \in TaskKeys |-> 0] /\ saves = [k \in TaskKeys |-> 0]
    /\ fresh = {} /\ index = {}
    /\ op = [w \in StoreWorkers |-> Idle]
    /\ seen = [w \in StoreWorkers |-> [k \in TaskKeys |-> 0]]
    /\ newer = {}
    /\ walk = [w \in StoreWorkers |-> NoWalk]

Free(w, b) == kind = b /\ op[w].pc = "idle"
Stored == {k \in TaskKeys : doc[k] # 0}
Without(gone) == [k \in TaskKeys |-> IF k \in gone THEN 0 ELSE doc[k]]

\* Keys that left the store are no longer owed to a listing in progress.
Owed(ops, gone) == [w \in StoreWorkers |-> [ops[w] EXCEPT !.must = @ \ gone]]

\* A task that was saved, removed or expired is no longer owed to a walk over the pages.
Touch(gone) == walk' = [w \in StoreWorkers |-> [walk[w] EXCEPT !.must = @ \ gone]]
Latest(k) ==
    newer' = {p \in TaskKeys \X TaskKeys : p[2] # k /\ IF p[1] = k THEN saves[p[2]] > 0 ELSE p \in newer}

------------------------------------------------------------------------------
(* SQLite.                                                                   *)

\* Mutant of SqliteSave: an existing row is left as it is.
SqliteSaveIgnored(w, k) ==
    /\ Free(w, "sqlite") /\ saves[k] < MaxSaves
    /\ LET old == Stored \ fresh IN
       /\ doc' = [Without(old) EXCEPT ![k] = IF k \in old THEN 0 ELSE IF @ = 0 THEN saves[k] + 1 ELSE @]
       /\ fresh' = IF k \in old THEN fresh ELSE fresh \cup {k}
    /\ saves' = [saves EXCEPT ![k] = @ + 1]
    /\ Latest(k) /\ Touch({k})
    /\ UNCHANGED <<kind, index, op, seen>>

\* The upsert keeps the deadline of an existing row, and the purge in the same
\* transaction then removes a row whose deadline has passed, this one included.
SqliteSave(w, k) ==
    /\ Free(w, "sqlite") /\ saves[k] < MaxSaves
    /\ LET old == Stored \ fresh IN
       /\ doc' = [Without(old) EXCEPT ![k] = IF k \in old THEN 0 ELSE saves[k] + 1]
       /\ fresh' = IF k \in old THEN fresh ELSE fresh \cup {k}
    /\ saves' = [saves EXCEPT ![k] = @ + 1]
    /\ Latest(k) /\ Touch({k})
    /\ UNCHANGED <<kind, index, op, seen>>

\* get(): the SELECT; without a valid row a DELETE follows as a second transaction.
SqliteGet(w, k) ==
    /\ Free(w, "sqlite")
    /\ IF k \in fresh
         THEN seen' = [seen EXCEPT ![w][k] = doc[k]] /\ UNCHANGED op
         ELSE op' = [op EXCEPT ![w] = [Idle EXCEPT !.pc = "purge", !.key = k]] /\ UNCHANGED seen
    /\ UNCHANGED <<kind, doc, fresh, index, saves, paging>>

SqliteGetPurge(w) ==
    /\ op[w].pc = "purge"
    /\ doc' = Without({op[w].key}) /\ fresh' = fresh \ {op[w].key}
    /\ op' = [op EXCEPT ![w] = Idle]
    /\ Touch({op[w].key})
    /\ UNCHANGED <<kind, index, saves, seen, newer>>

\* purge_expired() removes what is past its deadline.
SqlitePurge(w) ==
    /\ Free(w, "sqlite") /\ Stored # fresh
    /\ doc' = Without(Stored \ fresh)
    /\ UNCHANGED <<kind, fresh, index, op, saves, seen, paging>>

\* The tasks from the one the token names on, those of them on one page, and the
\* first of the tasks S, in the order of list(): newest first.
From(token) == {k \in fresh : token \in {"none", k} \/ <<token, k>> \in newer}
Page(token) == {k \in From(token) : Cardinality({j \in From(token) : <<j, k>> \in newer}) < PageSize}
First(S) == CHOOSE k \in S : \A j \in S : <<j, k>> \notin newer

\* Mutant of SqlitePage: the next page begins one task too late.
SqlitePageLate(w) ==
    /\ Free(w, "sqlite") /\ walk[w].token # "end"
    /\ LET token == walk[w].token
           rest == From(token) \ Page(token)
           late == rest \ {First(rest)}
       IN walk' = [walk EXCEPT ![w] =
             IF token \notin fresh \cup {"none"} THEN NoWalk
             ELSE [token |-> IF rest = {} \/ late = {} THEN "end" ELSE First(late),
                   got |-> @.got \cup Page(token),
                   must |-> IF token = "none" THEN fresh ELSE @.must]]
    /\ doc' = Without(Stored \ fresh)
    /\ UNCHANGED <<kind, fresh, index, op, saves, seen, newer>>

\* One page of list(): it begins at the task the token names, which must still be
\* there, and the token of the next page names the first task of that page.
SqlitePage(w) ==
    /\ Free(w, "sqlite") /\ walk[w].token # "end"
    /\ LET token == walk[w].token
           rest == From(token) \ Page(token)
       IN walk' = [walk EXCEPT ![w] =
             IF token \notin fresh \cup {"none"} THEN NoWalk
             ELSE [token |-> IF rest = {} THEN "end" ELSE First(rest),
                   got |-> @.got \cup Page(token),
                   must |-> IF token = "none" THEN fresh ELSE @.must]]
    /\ doc' = Without(Stored \ fresh)
    /\ UNCHANGED <<kind, fresh, index, op, saves, seen, newer>>

NewWalk(w) ==
    /\ walk[w].token = "end"
    /\ walk' = [walk EXCEPT ![w] = NoWalk]
    /\ UNCHANGED <<kind, doc, fresh, index, op, saves, seen, newer>>

SqliteDelete(w, k) ==
    /\ Free(w, "sqlite") /\ doc[k] # 0
    /\ doc' = Without({k}) /\ fresh' = fresh \ {k}
    /\ Touch({k})
    /\ UNCHANGED <<kind, index, op, saves, seen, newer>>

------------------------------------------------------------------------------
(* Redis.                                                                    *)

Saving(k) == \E w \in StoreWorkers : op[w].pc = "zadd" /\ op[w].key = k

\* save(): SET with its time to live, then ZADD.
RedisSet(w, k) ==
    /\ Free(w, "redis") /\ saves[k] < MaxSaves /\ ~Saving(k)
    /\ doc' = [doc EXCEPT ![k] = saves[k] + 1] /\ fresh' = fresh \cup {k}
    /\ saves' = [saves EXCEPT ![k] = @ + 1]
    /\ op' = [op EXCEPT ![w] = [Idle EXCEPT !.pc = "zadd", !.key = k]]
    /\ UNCHANGED <<kind, index, seen, paging>>

RedisZadd(w) ==
    /\ op[w].pc = "zadd"
    /\ index' = index \cup {op[w].key}
    /\ op' = [op EXCEPT ![w] = Idle]
    /\ UNCHANGED <<kind, doc, fresh, saves, seen, paging>>

RedisGet(w, k) ==
    /\ Free(w, "redis") /\ doc[k] # 0
    /\ seen' = [seen EXCEPT ![w][k] = doc[k]]
    /\ UNCHANGED <<kind, doc, fresh, index, op, saves, paging>>

\* delete(): DEL, then ZREM.
RedisDel(w, k) ==
    /\ Free(w, "redis") /\ doc[k] # 0
    /\ doc' = Without({k}) /\ fresh' = fresh \ {k}
    /\ op' = Owed([op EXCEPT ![w] = [Idle EXCEPT !.pc = "zrem", !.key = k]], {k})
    /\ UNCHANGED <<kind, index, saves, seen, paging>>

RedisZrem(w) ==
    /\ op[w].pc = "zrem"
    /\ index' = index \ {op[w].key}
    /\ op' = Owed([op EXCEPT ![w] = Idle], {op[w].key})
    /\ UNCHANGED <<kind, doc, fresh, saves, seen, paging>>

\* list(): ZRANGE, MGET, then one ZREM for each key without a document.
RedisRange(w) ==
    /\ Free(w, "redis") /\ index # {}
    /\ op' = [op EXCEPT ![w] = [Idle EXCEPT !.pc = "mget", !.keys = index, !.must = index \cap Stored]]
    /\ UNCHANGED <<kind, doc, fresh, index, saves, seen, paging>>

RedisMget(w) ==
    /\ op[w].pc = "mget"
    /\ op' = [op EXCEPT ![w].pc = "prune", ![w].page = op[w].keys \cap Stored,
                        ![w].keys = op[w].keys \ Stored]
    /\ UNCHANGED <<kind, doc, fresh, index, saves, seen, paging>>

RedisPrune(w) ==
    /\ op[w].pc = "prune"
    /\ IF op[w].keys = {}
         THEN op' = [op EXCEPT ![w] = Idle] /\ UNCHANGED index
         ELSE \E k \in op[w].keys :
                /\ index' = index \ {k}
                /\ op' = Owed([op EXCEPT ![w].keys = @ \ {k}], {k})
    /\ UNCHANGED <<kind, doc, fresh, saves, seen, paging>>

------------------------------------------------------------------------------
\* A deadline passes: a SQLite row stays until it is purged, a Redis key goes.
Expire(k) ==
    /\ k \in fresh
    /\ fresh' = fresh \ {k}
    /\ doc' = IF kind = "redis" THEN Without({k}) ELSE doc
    /\ op' = Owed(op, {k})
    /\ Touch({k})
    /\ UNCHANGED <<kind, index, saves, seen, newer>>

\* The worker process ends between two commands.
WorkerStops(w) ==
    /\ op[w].pc # "idle"
    /\ op' = [op EXCEPT ![w] = Idle]
    /\ UNCHANGED <<kind, doc, fresh, index, saves, seen, paging>>

StoreNext ==
    \/ \E w \in StoreWorkers :
        \/ SqliteGetPurge(w) \/ SqlitePurge(w) \/ SqlitePage(w) \/ NewWalk(w) \/ RedisZadd(w) \/ RedisZrem(w) \/ RedisRange(w)
        \/ RedisMget(w) \/ RedisPrune(w) \/ WorkerStops(w)
        \/ \E k \in TaskKeys : \/ SqliteSave(w, k) \/ SqliteGet(w, k) \/ SqliteDelete(w, k)
                               \/ RedisSet(w, k) \/ RedisGet(w, k) \/ RedisDel(w, k)
    \/ \E k \in TaskKeys : Expire(k)

StoreSpec == StoreInit /\ [][StoreNext]_svars

------------------------------------------------------------------------------
(* Properties.                                                               *)

\* What a worker reads is the last snapshot saved, by whichever worker: a task that
\* expired, or lost its row, is missing and never comes back in an older state.
ReadsLatest == [][\A w \in StoreWorkers, k \in TaskKeys : seen'[w][k] # seen[w][k] => seen'[w][k] = saves[k]]_svars

\* A Redis listing contains every task that was indexed when it began and stored
\* all the way to the MGET, whatever is saved, deleted or pruned meanwhile.
ListComplete == \A w \in StoreWorkers : op[w].pc = "prune" => op[w].must \subseteq op[w].page

\* A walk over all pages of a listing has seen every task that was there from the
\* first page to the last and not saved meanwhile, whatever was saved or removed.
PagesComplete == \A w \in StoreWorkers : walk[w].token = "end" => walk[w].must \subseteq walk[w].got

\* Listings of both stores lose no task that was there all the time: list(), in one
\* answer or page by page, against save, delete, expiry and the end of a worker.
ListingsComplete == StoreTypeOK /\ ListComplete /\ PagesComplete
=============================================================================
