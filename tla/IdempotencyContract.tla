------------------------ MODULE IdempotencyContract ------------------------
(***************************************************************************)
(* What OperationRegistryProtocol promises about one idempotency key: a    *)
(* key is claimed by one operation at a time, only that operation publishes*)
(* a result under it, and the claim or the result disappears only by       *)
(* expiring, never under the operation that is at work.                    *)
(*                                                                         *)
(* The in-process OperationRegistry (src/micro_agent/security/             *)
(* side_effects.py) is this contract step for step, without Expire: its    *)
(* claim and record are synchronous and it keeps its entries for ever.     *)
(***************************************************************************)
EXTENDS Integers, FiniteSets

CONSTANT Ops            \* operation ids: one per attempt to run the tool

VARIABLES slot,         \* what the key holds
          working       \* operations that hold their claim and may run the tool

cvars == <<slot, working>>

Free == [op |-> "none", status |-> "free"]
Reserved(w) == [op |-> w, status |-> "in_progress"]
Completed(w) == [op |-> w, status |-> "completed"]

CInit == slot = Free /\ working = {}

Claim(w) ==
    /\ slot = Free
    /\ slot' = Reserved(w)
    /\ working' = working \cup {w}

Publish(w) ==
    /\ w \in working
    /\ slot = Reserved(w)
    /\ slot' = Completed(w)
    /\ working' = working \ {w}

\* The worker dies, times out or fails to publish: the claim stays behind.
Drop(w) ==
    /\ w \in working
    /\ working' = working \ {w}
    /\ UNCHANGED slot

ExpireSlot ==
    /\ slot # Free
    /\ slot.op \notin working
    /\ slot' = Free
    /\ UNCHANGED working

CNext ==
    \/ ExpireSlot
    \/ \E w \in Ops : Claim(w) \/ Publish(w) \/ Drop(w)

CSpec == CInit /\ [][CNext]_cvars
=============================================================================
