---------------------------- MODULE ConfigPlane ----------------------------
(***************************************************************************)
(* The configuration plane (cloud/config.py): numbered versions of one     *)
(* agent's definition, stored by several operators, and the client with    *)
(* its last-good cache (cloud/config_client.py).                           *)
(*                                                                         *)
(* Storing is one transaction that numbers the version and, with a         *)
(* retention period, drops old versions; a rollback reads the old payload  *)
(* in a transaction of its own.  Key 0 asks for the latest version.        *)
(***************************************************************************)
EXTENDS Naturals, FiniteSets, FiniteSetsExt

CONSTANTS
    Payloads,       \* payloads the core accepts
    Operators,      \* callers of rollback()
    Reads,          \* calls of ConfigClient.get()
    CfgBackends, MaxVersions

ASSUME CfgAssumption == CfgBackends \subseteq {"memory", "sqlite"} /\ MaxVersions \in Nat

VARIABLES
    ckind,      \* rigid: the backend
    retains,    \* rigid: a retention period is configured (SQLite)
    rows,       \* version -> payload and whether its retention has passed
    issued,     \* every version ever numbered, with its payload
    roll,       \* roll[o]: the payload a rollback has read
    read,       \* the client's calls
    kept        \* the client's cache: key -> version and payload

cvars == <<ckind, retains, rows, issued, roll, read, kept>>

Nothing == "nothing"
NoAnswer == <<0, Nothing>>
Keys == 0..MaxVersions

CfgTypeOK ==
    /\ ckind \in CfgBackends /\ retains \in BOOLEAN
    /\ DOMAIN rows \subseteq 1..MaxVersions
    /\ \A v \in DOMAIN rows : rows[v].payload \in Payloads /\ rows[v].old \in BOOLEAN
    /\ issued \subseteq (1..MaxVersions) \X Payloads
    /\ roll \in [Operators -> Payloads \cup {Nothing}]
    /\ \A r \in Reads : /\ read[r].pc \in {"idle", "sent", "reply", "lost", "done", "error"}
                        /\ read[r].key \in Keys /\ read[r].got \in issued \cup {NoAnswer}
    /\ \A k \in DOMAIN kept : k \in Keys /\ kept[k] \in issued

CfgInit ==
    /\ ckind \in CfgBackends
    /\ retains \in IF ckind = "sqlite" THEN BOOLEAN ELSE {FALSE}
    /\ rows = [v \in {} |-> 0]
    /\ issued = {}
    /\ roll = [o \in Operators |-> Nothing]
    /\ read = [r \in Reads |-> [pc |-> "idle", key |-> 0, got |-> NoAnswer]]
    /\ kept = [k \in {} |-> 0]

------------------------------------------------------------------------------
(* The stores.                                                               *)

Latest == Max({0} \cup DOMAIN rows)

\* Mutant of NextVersion: the versions are counted, as the in-memory store does.
NextVersionCounted == Cardinality(DOMAIN rows) + 1

\* MAX(version) + 1 of the rows retention has left.
NextVersion == Latest + 1

\* What the retention period leaves of the versions already stored.
Retained == {v \in DOMAIN rows : ~(retains /\ rows[v].old)}

Stored(v, p, others) ==
    /\ v <= MaxVersions
    /\ rows' = [x \in others \cup {v} |-> IF x = v THEN [payload |-> p, old |-> FALSE] ELSE rows[x]]
    /\ issued' = issued \cup {<<v, p>>}

\* The in-memory history is a list that only grows.
StoreAppended(p) == ckind = "memory" /\ Stored(Cardinality(DOMAIN rows) + 1, p, DOMAIN rows)

\* One transaction: the number, the row, and the purge of all but this version.
StoreRow(p) == ckind = "sqlite" /\ Stored(NextVersion, p, Retained)

StoreVersion(p) == StoreAppended(p) \/ StoreRow(p)

Put(p) == StoreVersion(p) /\ UNCHANGED <<ckind, retains, roll, read, kept>>

RollbackRead(o, v) ==
    /\ roll[o] = Nothing /\ v \in DOMAIN rows
    /\ roll' = [roll EXCEPT ![o] = rows[v].payload]
    /\ UNCHANGED <<ckind, retains, rows, issued, read, kept>>

RollbackStore(o) ==
    /\ roll[o] # Nothing
    /\ StoreVersion(roll[o])
    /\ roll' = [roll EXCEPT ![o] = Nothing]
    /\ UNCHANGED <<ckind, retains, read, kept>>

\* The retention period of a version passes.  created_at is read before the
\* transaction, so versions need not age in the order of their numbers.
Age(v) ==
    /\ retains /\ v \in DOMAIN rows /\ ~rows[v].old
    /\ rows' = [rows EXCEPT ![v].old = TRUE]
    /\ UNCHANGED <<ckind, retains, issued, roll, read, kept>>

------------------------------------------------------------------------------
(* ConfigClient.get().                                                       *)

GoRead(r, x) == read' = [read EXCEPT ![r] = x] /\ UNCHANGED <<ckind, retains, rows, issued, roll>>

Ask(r, k) ==
    /\ read[r].pc = "idle"
    /\ GoRead(r, [read[r] EXCEPT !.pc = "sent", !.key = k])
    /\ UNCHANGED kept

\* The plane answers with the version asked for or the latest, else 404.
Serve(r) ==
    /\ read[r].pc = "sent"
    /\ LET v == IF read[r].key = 0 THEN Latest ELSE read[r].key IN
       GoRead(r, IF v \in DOMAIN rows
                   THEN [read[r] EXCEPT !.pc = "reply", !.got = <<v, rows[v].payload>>]
                   ELSE [read[r] EXCEPT !.pc = "error"])
    /\ UNCHANGED kept

Arrive(r) ==
    /\ read[r].pc = "reply"
    /\ GoRead(r, [read[r] EXCEPT !.pc = "done"])
    /\ kept' = [k \in DOMAIN kept \cup {read[r].key} |-> IF k = read[r].key THEN read[r].got ELSE kept[k]]

Drop(r) ==
    /\ read[r].pc \in {"sent", "reply"}
    /\ GoRead(r, [read[r] EXCEPT !.pc = "lost", !.got = NoAnswer])
    /\ UNCHANGED kept

\* The last good answer to the same request, or ConfigPlaneUnreachableError.
UseLastGood(r) ==
    /\ read[r].pc = "lost"
    /\ GoRead(r, IF read[r].key \in DOMAIN kept
                   THEN [read[r] EXCEPT !.pc = "done", !.got = kept[read[r].key]]
                   ELSE [read[r] EXCEPT !.pc = "error"])
    /\ UNCHANGED kept

CfgNext ==
    \/ \E p \in Payloads : Put(p)
    \/ \E o \in Operators : RollbackStore(o) \/ \E v \in DOMAIN rows : RollbackRead(o, v)
    \/ \E v \in DOMAIN rows : Age(v)
    \/ \E r \in Reads : Serve(r) \/ Arrive(r) \/ Drop(r) \/ UseLastGood(r) \/ \E k \in Keys : Ask(r, k)

CfgSpec == CfgInit /\ [][CfgNext]_cvars

------------------------------------------------------------------------------
(* Properties.                                                               *)

\* A version number always stands for the same payload: concurrent writers,
\* rollbacks and retention never number a second payload with it.
VersionImmutable == \A x, y \in issued : x[1] = y[1] => x = y

\* The newest version ever numbered is the one the plane serves as the latest, and
\* retention never removes it.
LatestStands == issued # {} => Latest = Max({x[1] : x \in issued})

\* A client that asked for a version gets that version with its one payload, from
\* the plane or from its cache.
PinnedServed == \A r \in Reads : read[r].pc = "done" /\ read[r].key # 0 => read[r].got[1] = read[r].key

\* Versions stand: a number means one payload, the latest is the newest, and a client
\* that pinned a version is served that version (store, rollback, get, last-good).
VersionsStand == CfgTypeOK /\ VersionImmutable /\ LatestStands /\ PinnedServed
=============================================================================
