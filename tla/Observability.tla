--------------------------- MODULE Observability ---------------------------
(***************************************************************************)
(* The observability stores (cloud/observability.py): agents push batches  *)
(* of span, usage and audit events.  A batch is validated in full, which   *)
(* stamps its events with the time, and then stored: in memory under the   *)
(* lock, in SQLite in one transaction that also drops rows past their      *)
(* retention and the oldest rows of a table that is over its bound.  An    *)
(* agent whose request fails may push the batch again.                     *)
(***************************************************************************)
EXTENDS Naturals, FiniteSets, FiniteSetsExt

CONSTANTS
    Batches, Contents,  \* Contents[b]: table -> how many events of the batch go there
    BadBatches,         \* batches with an invalid event
    ObsBackends, MaxRecords, MaxStamps

Tables == {"span", "usage", "audit"}

ASSUME ObsAssumption ==
    /\ Contents \in [Batches -> [Tables -> Nat]] /\ BadBatches \subseteq Batches
    /\ ObsBackends \subseteq {"memory", "sqlite"} /\ {MaxRecords, MaxStamps} \subseteq Nat \ {0}

VARIABLES
    okind,      \* rigid: the backend
    clock,      \* stamps given so far
    push,       \* the ingest() calls: the stamp of the batch, the cutoff computed with it
    table,      \* table[t]: the rows, as batch, stamp and place in the batch
    lost,       \* rows removed by retention or by the bound
    cutoff      \* rows stamped before it are past their retention

ovars == <<okind, clock, push, table, lost, cutoff>>

Quiet == [pc |-> "idle", stamp |-> 0, cutoff |-> 0]
Rows(b, t, s) == {<<b, s, i>> : i \in 1..Contents[b][t]}

ObsTypeOK ==
    /\ okind \in ObsBackends /\ clock \in 0..MaxStamps /\ cutoff \in 0..MaxStamps + 1
    /\ \A b \in Batches : push[b].pc \in {"idle", "valid"} /\ {push[b].stamp, push[b].cutoff} \subseteq 0..MaxStamps + 1
    /\ \A t \in Tables : \A x \in table[t] \cup lost[t] : x[1] \in Batches \ BadBatches /\ x[2] \in 1..clock

ObsInit ==
    /\ okind \in ObsBackends
    /\ clock = 0 /\ cutoff = 0
    /\ push = [b \in Batches |-> Quiet]
    /\ table = [t \in Tables |-> {}] /\ lost = [t \in Tables |-> {}]

\* ingest(): validation and normalisation of the whole batch.  A rejected batch is
\* refused with 422.
Validate(b) ==
    /\ push[b].pc = "idle" /\ clock < MaxStamps
    /\ clock' = clock + 1
    /\ push' = [push EXCEPT ![b] = IF b \in BadBatches THEN Quiet ELSE [pc |-> "valid", stamp |-> clock + 1, cutoff |-> cutoff]]
    /\ UNCHANGED <<okind, table, lost, cutoff>>

Before(x, y) == x[2] < y[2] \/ (x[2] = y[2] /\ x[3] < y[3])
Excess(rows) == IF Cardinality(rows) > MaxRecords THEN Cardinality(rows) - MaxRecords ELSE 0

\* The oldest rows of a table over its bound, by received_at and id.
Evicted(rows) == {x \in rows : Cardinality({y \in rows : Before(y, x)}) < Excess(rows)}

Stamped(b, t) == Rows(b, t, push[b].stamp)

Extend(b) ==
    /\ okind = "memory" /\ push[b].pc = "valid"
    /\ table' = [t \in Tables |-> table[t] \cup Stamped(b, t)]
    /\ push' = [push EXCEPT ![b] = Quiet]
    /\ UNCHANGED <<okind, clock, lost, cutoff>>

\* Mutant of InsertRows: the tables are committed one by one.
InsertRowsTorn(b) ==
    /\ okind = "sqlite" /\ push[b].pc = "valid"
    /\ \E done \in SUBSET Tables : table' = [t \in Tables |-> table[t] \cup IF t \in done THEN Stamped(b, t) ELSE {}]
    /\ push' = [push EXCEPT ![b] = Quiet]
    /\ UNCHANGED <<okind, clock, lost, cutoff>>

\* One transaction inserts the rows of the batch and purges every table.
InsertRows(b) ==
    /\ okind = "sqlite" /\ push[b].pc = "valid"
    /\ LET all(t) == table[t] \cup Stamped(b, t)
           young(t) == {x \in all(t) : x[2] >= push[b].cutoff}
           kept(t) == young(t) \ Evicted(young(t))
       IN /\ table' = [t \in Tables |-> kept(t)]
          /\ lost' = [t \in Tables |-> lost[t] \cup (all(t) \ kept(t))]
    /\ push' = [push EXCEPT ![b] = Quiet]
    /\ UNCHANGED <<okind, clock, cutoff>>

\* The process ends between validation and commit: nothing of the batch is stored.
IngestDies(b) ==
    /\ push[b].pc = "valid"
    /\ push' = [push EXCEPT ![b] = Quiet]
    /\ UNCHANGED <<okind, clock, table, lost, cutoff>>

TimePasses ==
    /\ cutoff <= clock
    /\ cutoff' = cutoff + 1
    /\ UNCHANGED <<okind, clock, push, table, lost>>

ObsNext == TimePasses \/ \E b \in Batches : Validate(b) \/ Extend(b) \/ InsertRows(b) \/ IngestDies(b)

ObsSpec == ObsInit /\ [][ObsNext]_ovars

------------------------------------------------------------------------------
(* Properties.                                                               *)

\* A batch is stored in all its tables or in none, whatever is rejected, fails or
\* is pushed again; rows are missing only because retention or the bound took them.
BatchAtomic ==
    \A s \in 1..clock : \A b \in Batches :
        LET in(t) == Rows(b, t, s) \subseteq table[t] \cup lost[t]
            none(t) == Rows(b, t, s) \cap (table[t] \cup lost[t]) = {}
        IN (\A t \in Tables : in(t)) \/ (\A t \in Tables : none(t))

\* The SQLite tables stay within their bound and give up old rows first: a row was
\* lost only if it was past its retention or the rows kept are all newer.
NewestKept ==
    okind = "sqlite" => \A t \in Tables :
        /\ Cardinality(table[t]) <= MaxRecords
        /\ \A x \in lost[t], y \in table[t] : x[2] < cutoff \/ Before(x, y)

\* A batch is kept whole and the newest rows stay, although batches are stamped in
\* one order and committed in another (ingest).
BatchesKept == ObsTypeOK /\ BatchAtomic /\ NewestKept
=============================================================================
