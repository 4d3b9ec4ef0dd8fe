------------------------------ MODULE Registry ------------------------------
(***************************************************************************)
(* The lease-based agent registry (cloud/registry.py) and one discovery    *)
(* client (cloud/discovery.py) with its cache of snapshots.                *)
(*                                                                         *)
(* A registry operation runs under the lock or in one transaction.  Time   *)
(* is kept per entry: whether its lease is live and whether it was         *)
(* registered longer ago than the retention window.  A query is reduced to *)
(* its healthy_only flag, which with the other filters makes the key of    *)
(* the cache.                                                              *)
(***************************************************************************)
EXTENDS Naturals, FiniteSets

CONSTANTS
    Agents,         \* name and version of an agent
    Calls,          \* calls of discover()
    RegBackends, MaxRegistrations

ASSUME RegAssumption == RegBackends \subseteq {"memory", "sqlite"} /\ MaxRegistrations \in Nat

VARIABLES
    rkind,      \* rigid: the backend
    entries,    \* the registered agents and their entries
    epoch,      \* registrations so far; also the descriptor's identity
    call,       \* the calls of discover()
    cache       \* _cache: query -> the last snapshot

rvars == <<rkind, entries, epoch, call, cache>>

NoSnapshot == [held |-> FALSE, agents |-> {}, at |-> 0]

RegTypeOK ==
    /\ rkind \in RegBackends
    /\ DOMAIN entries \subseteq Agents
    /\ \A a \in DOMAIN entries :
        /\ entries[a].desc \in 1..epoch /\ {entries[a].old, entries[a].live} \subseteq BOOLEAN
    /\ epoch \in 0..MaxRegistrations
    /\ \A c \in Calls : /\ call[c].pc \in {"idle", "sent", "reply", "lost", "done", "error"}
                        /\ {call[c].healthy, call[c].cached} \subseteq BOOLEAN
                        /\ call[c].since \in 0..epoch /\ call[c].answer.at \in 0..epoch
    /\ \A h \in BOOLEAN : cache[h].held \in BOOLEAN /\ (~cache[h].held => cache[h] = NoSnapshot)

RegInit ==
    /\ rkind \in RegBackends
    /\ entries = [a \in {} |-> 0]
    /\ epoch = 0
    /\ call = [c \in Calls |-> [pc |-> "idle", healthy |-> FALSE, since |-> 0, answer |-> NoSnapshot, cached |-> FALSE]]
    /\ cache = [h \in BOOLEAN |-> NoSnapshot]

------------------------------------------------------------------------------
(* The registry.                                                             *)

Only(S) == [a \in S |-> entries[a]]

\* Mutant of Kept: a live lease does not protect an entry registered long ago.
KeptRecent == {a \in DOMAIN entries : ~entries[a].old}

\* The entries a purge leaves: registered within the window, or with a live lease.
Kept == {a \in DOMAIN entries : ~entries[a].old \/ entries[a].live}

\* The entry of a registration beside those of the agents in S.
Entered(a, S) ==
    [b \in S \cup {a} |-> IF b = a THEN [desc |-> epoch + 1, old |-> FALSE, live |-> TRUE] ELSE entries[b]]

Register(a) ==
    /\ rkind = "memory" /\ epoch < MaxRegistrations
    /\ epoch' = epoch + 1
    /\ entries' = Entered(a, DOMAIN entries)
    /\ UNCHANGED <<rkind, call, cache>>

\* The upsert and a purge, in one transaction.
RegisterRow(a) ==
    /\ rkind = "sqlite" /\ epoch < MaxRegistrations
    /\ epoch' = epoch + 1
    /\ entries' = Entered(a, Kept)
    /\ UNCHANGED <<rkind, call, cache>>

\* The lease is renewed, the time of registration is not.  An agent that is not
\* registered is answered 404.
Heartbeat(a) ==
    /\ rkind = "memory" /\ a \in DOMAIN entries
    /\ entries' = [entries EXCEPT ![a].live = TRUE]
    /\ UNCHANGED <<rkind, epoch, call, cache>>

HeartbeatRow(a) ==
    /\ rkind = "sqlite" /\ a \in DOMAIN entries
    /\ entries' = [entries EXCEPT ![a].live = TRUE]
    /\ UNCHANGED <<rkind, epoch, call, cache>>

Deregister(a) ==
    /\ a \in DOMAIN entries
    /\ entries' = Only(DOMAIN entries \ {a})
    /\ UNCHANGED <<rkind, epoch, call, cache>>

LeaseLapses(a) ==
    /\ a \in DOMAIN entries /\ entries[a].live
    /\ entries' = [entries EXCEPT ![a].live = FALSE]
    /\ UNCHANGED <<rkind, epoch, call, cache>>

\* A retention window passes since the registration.
WindowPasses(a) ==
    /\ a \in DOMAIN entries /\ ~entries[a].old
    /\ entries' = [entries EXCEPT ![a].old = TRUE]
    /\ UNCHANGED <<rkind, epoch, call, cache>>

\* The registry process restarts: only SQLite keeps its entries.
Restart ==
    /\ rkind = "memory" /\ entries # [a \in {} |-> 0]
    /\ entries' = [a \in {} |-> 0]
    /\ UNCHANGED <<rkind, epoch, call, cache>>

------------------------------------------------------------------------------
(* discover().                                                               *)

Discover(c) ==
    /\ call[c].pc = "idle"
    /\ \E h \in BOOLEAN : call' = [call EXCEPT ![c].pc = "sent", ![c].healthy = h, ![c].since = epoch]
    /\ UNCHANGED <<rkind, entries, epoch, cache>>

\* What a query finds: the purge comes first, and stale entries are left out when
\* the caller asks for healthy ones.
Found(c) ==
    [held |-> TRUE, at |-> epoch,
     agents |-> {<<a, entries[a].desc, entries[a].live>> : a \in {b \in Kept : ~call[c].healthy \/ entries[b].live}}]

Query(c) ==
    /\ rkind = "memory" /\ call[c].pc = "sent"
    /\ entries' = Only(Kept)
    /\ call' = [call EXCEPT ![c].pc = "reply", ![c].answer = Found(c)]
    /\ UNCHANGED <<rkind, epoch, cache>>

QueryRows(c) ==
    /\ rkind = "sqlite" /\ call[c].pc = "sent"
    /\ entries' = Only(Kept)
    /\ call' = [call EXCEPT ![c].pc = "reply", ![c].answer = Found(c)]
    /\ UNCHANGED <<rkind, epoch, cache>>

\* The response arrives and becomes the snapshot of this query.
Receive(c) ==
    /\ call[c].pc = "reply"
    /\ cache' = [cache EXCEPT ![call[c].healthy] = call[c].answer]
    /\ call' = [call EXCEPT ![c].pc = "done"]
    /\ UNCHANGED <<rkind, entries, epoch>>

\* The request or the response is lost, or the registry answers 5xx.
Lose(c) ==
    /\ call[c].pc \in {"sent", "reply"}
    /\ call' = [call EXCEPT ![c].pc = "lost", ![c].answer = NoSnapshot]
    /\ UNCHANGED <<rkind, entries, epoch, cache>>

\* Mutant of FallBack: the cached answer is not marked.
FallBackUnmarked(c) ==
    /\ call[c].pc = "lost"
    /\ LET s == cache[call[c].healthy] IN
       call' = [call EXCEPT ![c].pc = IF s.held THEN "done" ELSE "error", ![c].answer = s]
    /\ UNCHANGED <<rkind, entries, epoch, cache>>

\* The last snapshot of this query, marked, or RegistryUnreachableError.
FallBack(c) ==
    /\ call[c].pc = "lost"
    /\ LET s == cache[call[c].healthy] IN
       call' = [call EXCEPT ![c].pc = IF s.held THEN "done" ELSE "error",
                            ![c].answer = s, ![c].cached = s.held]
    /\ UNCHANGED <<rkind, entries, epoch, cache>>

\* A 4xx answer is raised to the caller and leaves the cache alone.
Reject(c) ==
    /\ call[c].pc = "sent"
    /\ call' = [call EXCEPT ![c].pc = "error"]
    /\ UNCHANGED <<rkind, entries, epoch, cache>>

RegNext ==
    \/ \E a \in Agents : Register(a) \/ RegisterRow(a) \/ Heartbeat(a) \/ HeartbeatRow(a) \/ Deregister(a)
    \/ \E a \in Agents : LeaseLapses(a) \/ WindowPasses(a)
    \/ Restart
    \/ \E c \in Calls : Discover(c) \/ Query(c) \/ QueryRows(c) \/ Receive(c) \/ Lose(c) \/ FallBack(c) \/ Reject(c)

RegSpec == RegInit /\ [][RegNext]_rvars

------------------------------------------------------------------------------
(* Properties.                                                               *)

Gone(a) == a \in DOMAIN entries /\ a \notin DOMAIN entries'

\* An agent whose lease is live is never purged, however long ago it registered:
\* it leaves the registry only when deregistered or with the memory of the process.
LiveKept == [][\A a \in Agents : Gone(a) /\ entries[a].live => Deregister(a) \/ Restart]_rvars

\* An answer that may be older than the call that got it is marked from_cache.
StaleIsMarked == \A c \in Calls : call[c].pc = "done" /\ ~call[c].cached => call[c].answer.at >= call[c].since

\* A healthy_only query never yields an agent known to be stale, from the registry
\* or from the cache, whatever was asked in between.
HealthyOnlyHolds ==
    \A c \in Calls : call[c].pc = "done" /\ call[c].healthy => \A x \in call[c].answer.agents : x[3]

\* What discover() answers is current, or says that it is not, and healthy as far
\* as was asked, with overlapping calls, outages and answers out of order.
DiscoveryHonest == RegTypeOK /\ StaleIsMarked /\ HealthyOnlyHolds
=============================================================================
