--------------------------- MODULE VersionedStore ---------------------------
(***************************************************************************)
(* What the session and memory providers promise their callers: one        *)
(* versioned document.  A caller that is going to write holds the version  *)
(* of the copy it read, or 0 when it states none; its write is one atomic  *)
(* step that is accepted only when that version is the current one, makes  *)
(* the next version, and uses up what the caller held.  Creation, removal  *)
(* and expiry are the only other changes.  docs/API.md states the contract.*)
(***************************************************************************)
EXTENDS Naturals

CONSTANT Clients

VARIABLES
    document,   \* 0 when there is none, else its version
    held        \* held[c]: {v} when c will state v in its next write, else {}

vvars == <<document, held>>

VInit == document = 0 /\ held = [c \in Clients |-> {}]

\* A caller reads the current version, decides to write without one, or gives up.
Take(c) ==
    /\ \E v \in {{document}, {0}, {}} : held' = [held EXCEPT ![c] = v]
    /\ UNCHANGED document

\* create(): a first version, over whatever there was; or, where an existing
\* document is kept, its current version.
Create(c) ==
    /\ document' \in {1, document}
    /\ document' # 0
    /\ held' = [held EXCEPT ![c] = {document'}]

\* An accepted write on an existing document; one whose expiry has passed is
\* removed by it.
Commit(c) ==
    /\ document # 0
    /\ held[c] \cap {0, document} # {}
    /\ document' \in {document + 1, 0}
    /\ held' = [held EXCEPT ![c] = {}]

\* A write that finds no document: with no stated version, or with that of a
\* document which was never updated.
Insert(c) ==
    /\ document = 0
    /\ held[c] \cap {0, 1} # {}
    /\ document' = 1
    /\ held' = [held EXCEPT ![c] = {}]

Remove == document' = 0 /\ UNCHANGED held

VNext == Remove \/ \E c \in Clients : Take(c) \/ Create(c) \/ Commit(c) \/ Insert(c)

VSpec == VInit /\ [][VNext]_vvars
=============================================================================
