----------------------------- MODULE MemoryStore -----------------------------
(***************************************************************************)
(* Memory providers (micro_agent/memory): versioned entries under a        *)
(* policy that bounds their number and their age.  In-memory operations    *)
(* take one step; Redis and PostgreSQL ones one step per command sent to   *)
(* the server, so that eviction, purging and versioned writes of several   *)
(* processes interleave.  A key stands for tenant, scope and key together. *)
(***************************************************************************)
EXTENDS Naturals, FiniteSets

CONSTANTS
    Keys,           \* entry keys of one tenant and scope
    Storers,        \* callers of store()
    MemBackends,    \* subset of {"memory", "redis", "postgres"}
    MaxEntries,     \* policy.max_entries
    MaxStores       \* bound on the writes to the store

ASSUME MemoryAssumption ==
    /\ MemBackends \subseteq {"memory", "redis", "postgres"}
    /\ MaxEntries \in Nat \ {0} /\ MaxStores \in Nat
    /\ IsFiniteSet(Storers)

VARIABLES
    mbackend,       \* rigid: the provider
    entry,          \* entry[k]: version, time of the first and of the last store, expired
    score,          \* Redis: score[k] in the index, 0 when k is no member
    changed,        \* changed[k]: when the key was last written (what WATCH detects)
    clock,          \* writes so far
    st,             \* the storers' local state
    sweep,          \* Redis: what a reader found gone and will clean up next
    lost            \* history: keys a late ZREM took from the index while they were live,
                    \* until ZCARD next counts them as members or they are gone

mvars == <<mbackend, entry, score, changed, clock, st, sweep, lost>>

NoEntry == [ver |-> 0, at |-> 0, first |-> 0, old |-> FALSE]
NoSweep == [dels |-> {}, zrems |-> {}]
Live(k) == entry[k].ver > 0
Members == {k \in Keys : score[k] > 0}

MemTypeOK ==
    /\ mbackend \in MemBackends
    /\ entry \in [Keys -> [ver : Nat, at : Nat, first : Nat, old : BOOLEAN]]
    /\ score \in [Keys -> Nat] /\ changed \in [Keys -> Nat]
    /\ clock \in 0..MaxStores
    /\ st \in [Storers -> [pc : {"idle", "watch", "purge", "sweep", "card", "unlink", "exec", "trim",
                                 "stored", "conflict"},
                           key : Keys, ver : Nat, seen : Nat, tries : 0..3, stale : SUBSET Keys]]
    /\ sweep \in [dels : SUBSET Keys, zrems : SUBSET Keys]
    /\ lost \subseteq Keys

MemInit ==
    /\ mbackend \in MemBackends
    /\ entry = [k \in Keys |-> NoEntry]
    /\ score = [k \in Keys |-> 0] /\ changed = [k \in Keys |-> 0]
    /\ clock = 0 /\ sweep = NoSweep /\ lost = {}
    /\ \E k \in Keys : st = [s \in Storers |-> [pc |-> "idle", key |-> k, ver |-> 0, seen |-> 0,
                                                tries |-> 0, stale |-> {}]]

SAt(s, pc) == st[s].pc = pc
SGoto(s, pc) == st' = [st EXCEPT ![s].pc = pc]

\* One write to the store: the keys in K become f[k].
Put(K, f) ==
    /\ clock < MaxStores /\ clock' = clock + 1
    /\ entry' = [k \in Keys |-> IF k \in K THEN f[k] ELSE entry[k]]
    /\ changed' = [k \in Keys |-> IF k \in K THEN clock + 1 ELSE changed[k]]

Gone == [k \in Keys |-> NoEntry]
Drop(K) == Put(K, Gone)
NoWrite == UNCHANGED <<entry, changed, clock>>

\* The version a reader sees: an expired entry is purged by its get().
Visible(k) == IF entry[k].old THEN 0 ELSE entry[k].ver

\* The version check: an absent entry takes only version 0, and 0 states nothing.
Agrees(s, actual) == st[s].ver \in {0, actual}

\* The entry a store leaves: next version, new time.
Successor(k, actual) == [ver |-> actual + 1, at |-> clock + 1, old |-> FALSE,
                     first |-> IF actual > 0 THEN entry[k].first ELSE clock + 1]

------------------------------------------------------------------------------
\* A caller comes to store an entry it got before, or a new one (version 0).
MemBegin(s, k) ==
    /\ st[s].pc \in {"idle", "stored", "conflict"}
    /\ \E v \in {0, Visible(k)} :
         st' = [st EXCEPT ![s].pc = "watch", ![s].key = k, ![s].ver = v,
                            ![s].tries = 0]
    /\ NoWrite /\ UNCHANGED <<mbackend, lost, score, sweep>>

\* In-memory: purge what has expired, check, make room for a new key by removing
\* the entries that were inserted first, then write.
InMemoryStore(s) ==
    /\ mbackend = "memory" /\ SAt(s, "watch")
    /\ LET k == st[s].key
           old == {j \in Keys : entry[j].old}
           live == {j \in Keys : Live(j)} \ old
           excess == IF k \in live THEN 0 ELSE Cardinality(live) + 1 - MaxEntries
           evicted == {j \in live : Cardinality({i \in live : entry[i].first < entry[j].first}) < excess}
       IN \/ /\ Agrees(s, Visible(k))
             /\ Put(old \cup evicted \cup {k}, [Gone EXCEPT ![k] = Successor(k, Visible(k))])
             /\ SGoto(s, "stored")
          \/ /\ ~Agrees(s, Visible(k))
             /\ Drop(old) /\ SGoto(s, "conflict")
    /\ UNCHANGED <<mbackend, lost, score, sweep>>

------------------------------------------------------------------------------
(* Redis                                                                     *)

\* WATCH and GET; prepare() checks the version of an existing entry, a new key
\* first makes room.
RedisRead(s) ==
    /\ mbackend = "redis" /\ SAt(s, "watch")
    /\ LET k == st[s].key IN
       IF st[s].tries = 3 \/ (Live(k) /\ ~Agrees(s, entry[k].ver))
         THEN SGoto(s, "conflict")
         ELSE st' = [st EXCEPT ![s].pc = IF Live(k) THEN "exec" ELSE "purge",
                               ![s].seen = changed[k], ![s].tries = st[s].tries + 1]
    /\ NoWrite /\ UNCHANGED <<mbackend, lost, score, sweep>>

\* ZRANGE and MGET of the index: members whose document is missing or expired.
Stale == {k \in Members : ~Live(k) \/ entry[k].old}

RedisPurge(s) ==
    /\ SAt(s, "purge")
    /\ st' = [st EXCEPT ![s].pc = IF Stale = {} THEN "card" ELSE "sweep", ![s].stale = Stale]
    /\ NoWrite /\ UNCHANGED <<mbackend, lost, score, sweep>>

\* The pipeline of DEL and ZREM over those keys, whatever they hold by then.
RedisSweep(s) ==
    /\ SAt(s, "sweep")
    /\ Drop(st[s].stale)
    /\ score' = [k \in Keys |-> IF k \in st[s].stale THEN 0 ELSE score[k]]
    /\ st' = [st EXCEPT ![s].pc = "card", ![s].stale = {}]
    /\ UNCHANGED <<mbackend, lost, sweep>>

\* Mutant of RedisCard: room is made only when the index is already over the limit.
RedisCardLate(s) ==
    /\ SAt(s, "card")
    /\ IF Cardinality(Members) > MaxEntries
         THEN LET v == CHOOSE k \in Members : \A j \in Members : score[k] <= score[j] IN
              /\ score' = [score EXCEPT ![v] = 0]
              /\ st' = [st EXCEPT ![s].pc = "unlink", ![s].stale = {v}]
              /\ UNCHANGED lost
         ELSE /\ SGoto(s, IF st[s].ver = 0 THEN "exec" ELSE "conflict")
              /\ lost' = {k \in lost \ Members : Live(k)}
              /\ UNCHANGED score
    /\ NoWrite /\ UNCHANGED <<mbackend, sweep>>

\* ZCARD and, while the index is full, ZPOPMIN.
RedisCard(s) ==
    /\ SAt(s, "card")
    /\ IF Cardinality(Members) >= MaxEntries
         THEN LET v == CHOOSE k \in Members : \A j \in Members : score[k] <= score[j] IN
              /\ score' = [score EXCEPT ![v] = 0]
              /\ st' = [st EXCEPT ![s].pc = "unlink", ![s].stale = {v}]
              /\ UNCHANGED lost
         ELSE /\ SGoto(s, IF st[s].ver = 0 THEN "exec" ELSE "conflict")
              /\ lost' = {k \in lost \ Members : Live(k)}
              /\ UNCHANGED score
    /\ NoWrite /\ UNCHANGED <<mbackend, sweep>>

\* DEL of the popped member, then ZCARD again.
RedisUnlink(s) ==
    /\ SAt(s, "unlink")
    /\ Drop(st[s].stale)
    /\ st' = [st EXCEPT ![s].pc = "card", ![s].stale = {}]
    /\ UNCHANGED <<mbackend, lost, score, sweep>>

\* MULTI, SET, ZADD, EXEC: refused when the watched key changed, and tried again.
RedisStore(s) ==
    /\ mbackend = "redis" /\ SAt(s, "exec")
    /\ LET k == st[s].key IN
       IF changed[k] = st[s].seen
         THEN /\ Put({k}, [Gone EXCEPT ![k] = Successor(k, entry[k].ver)])
              /\ score' = [score EXCEPT ![k] = clock + 1]
              /\ SGoto(s, "stored")
         ELSE SGoto(s, "watch") /\ NoWrite /\ UNCHANGED score
    /\ UNCHANGED <<mbackend, lost, sweep>>

\* get() of a missing key sends ZREM, of an expired one DEL and ZREM; list_entries
\* collects the stale members.  Each is a read and a later write: the ZREM may hit a
\* key that was stored in between, whose entry then lives on outside the index.
RedisMiss(k) ==
    /\ mbackend = "redis" /\ sweep = NoSweep
    /\ \/ ~Live(k) /\ sweep' = [NoSweep EXCEPT !.zrems = {k}]
       \/ Live(k) /\ entry[k].old /\ sweep' = [NoSweep EXCEPT !.dels = {k}]
    /\ NoWrite /\ UNCHANGED <<mbackend, lost, score, st>>

RedisList ==
    /\ mbackend = "redis" /\ sweep = NoSweep /\ Stale # {}
    /\ sweep' = [NoSweep EXCEPT !.dels = Stale]
    /\ NoWrite /\ UNCHANGED <<mbackend, lost, score, st>>

RedisClean ==
    /\ sweep # NoSweep
    /\ IF sweep.dels = {} THEN NoWrite ELSE Drop(sweep.dels)
    /\ score' = [k \in Keys |-> IF k \in sweep.dels \cup sweep.zrems THEN 0 ELSE score[k]]
    /\ lost' = lost \cup {k \in sweep.zrems : Live(k)}
    /\ sweep' = NoSweep
    /\ UNCHANGED <<mbackend, st>>

------------------------------------------------------------------------------
(* PostgreSQL                                                                *)

\* SELECT version and the checks.
PgRead(s) ==
    /\ mbackend = "postgres" /\ SAt(s, "watch")
    /\ LET actual == entry[st[s].key].ver IN
       st' = [st EXCEPT ![s].pc = IF Agrees(s, actual) THEN "exec" ELSE "conflict", ![s].seen = actual]
    /\ NoWrite /\ UNCHANGED <<mbackend, lost, score, sweep>>

\* Mutant of PgStore: the UPDATE lacks "AND version = $6".
PgStoreUnguarded(s) ==
    /\ mbackend = "postgres" /\ SAt(s, "exec")
    /\ LET k == st[s].key IN Put({k}, [Gone EXCEPT ![k] = Successor(k, entry[k].ver)])
    /\ SGoto(s, "trim")
    /\ UNCHANGED <<mbackend, lost, score, sweep>>

\* INSERT ... ON CONFLICT DO UPDATE when there was no row, else UPDATE guarded by
\* the version read.
PgStore(s) ==
    /\ mbackend = "postgres" /\ SAt(s, "exec")
    /\ LET k == st[s].key IN
       \/ /\ st[s].seen \in {0, entry[k].ver}
          /\ Put({k}, [Gone EXCEPT ![k] = Successor(k, entry[k].ver)])
          /\ SGoto(s, "trim")
       \/ st[s].seen \notin {0, entry[k].ver} /\ SGoto(s, "conflict") /\ NoWrite
    /\ UNCHANGED <<mbackend, lost, score, sweep>>

\* DELETE of the rows beyond max_entries, newest first, as a statement of its own.
PgTrim(s) ==
    /\ SAt(s, "trim")
    /\ LET rows == {k \in Keys : Live(k)} IN
       Drop({k \in rows : Cardinality({j \in rows : entry[j].at > entry[k].at}) >= MaxEntries})
    /\ SGoto(s, "stored")
    /\ UNCHANGED <<mbackend, lost, score, sweep>>

------------------------------------------------------------------------------
\* delete(), and the purge of expired rows by a get or a list.
MemDelete(k) ==
    /\ Live(k) /\ Drop({k})
    /\ score' = [score EXCEPT ![k] = 0]
    /\ UNCHANGED <<mbackend, lost, st, sweep>>

PurgeOld ==
    /\ \E k \in Keys : entry[k].old
    /\ Drop({k \in Keys : entry[k].old})
    /\ UNCHANGED <<mbackend, lost, score, st, sweep>>

InMemoryPurge == mbackend = "memory" /\ PurgeOld
PgPurge == mbackend = "postgres" /\ PurgeOld

\* ttl_seconds pass since the entry was stored.
MemExpire(k) ==
    /\ Live(k) /\ ~entry[k].old
    /\ entry' = [entry EXCEPT ![k].old = TRUE]
    /\ UNCHANGED <<mbackend, lost, score, changed, clock, st, sweep>>

\* Redis removes the key; its index member stays.
MemEvict(k) ==
    /\ mbackend = "redis" /\ Live(k) /\ entry[k].old
    /\ Drop({k})
    /\ UNCHANGED <<mbackend, lost, score, st, sweep>>

MemNext ==
    \/ \E s \in Storers :
         \/ \E k \in Keys : MemBegin(s, k)
         \/ InMemoryStore(s) \/ RedisRead(s) \/ RedisPurge(s) \/ RedisSweep(s) \/ RedisCard(s)
         \/ RedisUnlink(s) \/ RedisStore(s) \/ PgRead(s) \/ PgStore(s) \/ PgTrim(s)
    \/ \E k \in Keys : RedisMiss(k) \/ MemDelete(k) \/ MemExpire(k) \/ MemEvict(k)
    \/ RedisList \/ RedisClean \/ InMemoryPurge \/ PgPurge

MemSpec == MemInit /\ [][MemNext]_mvars

------------------------------------------------------------------------------
(* Properties.                                                               *)

\* The policy's bound: what a store counts exceeds max_entries never in process, by
\* the rows still to be trimmed on PostgreSQL, and on Redis by no more than the
\* storers that passed ZCARD before the others wrote and the keys that came back to
\* the index after a late ZREM (store() makes room only for a key without a document);
\* the next eviction pops those too.
WithinPolicy ==
    LET rows == Cardinality({k \in Keys : Live(k)}) IN
    CASE mbackend = "memory" -> rows <= MaxEntries
      [] mbackend = "postgres" -> rows <= MaxEntries + Cardinality({s \in Storers : SAt(s, "trim")})
      [] mbackend = "redis" -> Cardinality(Members \ lost) < MaxEntries + Cardinality(Storers)

\* Each entry of every provider is a versioned document: a store is one atomic
\* write that states the version its caller holds.
Storing(s) == st[s].pc \in {"watch", "purge", "sweep", "card", "unlink", "exec"}
EntryStore(k) ==
    INSTANCE VersionedStore
        WITH Clients <- Storers,
             document <- IF mbackend = "memory" /\ entry[k].old THEN 0 ELSE entry[k].ver,
             held <- [s \in Storers |-> IF st[s].key = k /\ Storing(s) THEN {st[s].ver} ELSE {}]
EntriesVersioned ==
    [][\A k \in Keys : EntryStore(k)!VNext \/ UNCHANGED EntryStore(k)!vvars]_mvars

\* The memory policy holds and the attempts of a store are bounded, however the
\* commands of several storers interleave (store, _evict_if_full, _purge_stale).
MemoryBounded == MemTypeOK /\ WithinPolicy
=============================================================================
