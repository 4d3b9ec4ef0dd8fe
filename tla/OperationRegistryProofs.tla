---------------------- MODULE OperationRegistryProofs ----------------------
(***************************************************************************)
(* Proofs about OperationRegistry for any number of replicas and both      *)
(* backends: while the TTL covers the work, claim and record implement     *)
(* IdempotencyContract although they are sequences of separate commands;   *)
(* with PostgreSQL a result lands on its owner's row whatever the TTL.     *)
(***************************************************************************)
EXTENDS OperationRegistry, TLAPS

\* The values a key can hold are told apart by the operation they name.
LEMMA RowsDiffer ==
    ASSUME NEW v \in Ops, NEW w \in Ops
    PROVE  /\ Reserved(v) = Reserved(w) => v = w
           /\ Completed(v) = Completed(w) => v = w
           /\ Reserved(v) # Free /\ Completed(v) # Free
           /\ Reserved(v) # Completed(w)
           /\ Reserved(v).op = v /\ Completed(v).op = v
  BY DEF Reserved, Completed, Free

\* Where an operation may be, by backend; Redis keeps no expired value.
Shape ==
    /\ TypeOK
    /\ backend = "redis" => (live <=> row # Free)
    /\ \A w \in Ops : pc[w] \in {"retry", "lookupAgain", "publishing"} => backend = "redis"
    /\ \A w \in Ops : pc[w] = "reclaim" => backend = "postgres"

\* The claims and the writes of both backends keep the shape: the new row is
\* live, and the operation goes to a place that its backend allows.
LEMMA WriteMoves ==
    ASSUME Shape, NEW w \in Ops, NEW r \in {Reserved(w), Completed(w)},
           NEW place \in {"executing", "done"},
           row' = r, live' = TRUE, ttl' = TRUE, Goto(w, place), backend' = backend
    PROVE  Shape' /\ live' /\ Active' = IF place = "executing" THEN Active \cup {w}
                                                              ELSE Active \ {w}
<1>1. live' /\ live' \in BOOLEAN /\ ttl' \in BOOLEAN
  BY Zenon
<1>2. pc' = [pc EXCEPT ![w] = place] /\ row' \in Rows /\ row' # Free
  BY RowsDiffer DEF Goto, Rows
<1>3. TypeOK'
  BY <1>1, <1>2 DEF Shape, TypeOK, OpPc
<1>4. /\ \A v \in Ops : pc'[v] \in {"retry", "lookupAgain", "publishing"} => backend' = "redis"
      /\ \A v \in Ops : pc'[v] = "reclaim" => backend' = "postgres"
  BY <1>2 DEF Shape, TypeOK
<1>5. Active' = IF place = "executing" THEN Active \cup {w} ELSE Active \ {w}
  BY <1>2 DEF Shape, TypeOK, Active
<1>. QED
  BY <1>1, <1>2, <1>3, <1>4, <1>5 DEF Shape

\* A command that only reads moves the operation and leaves the key alone.
LEMMA SkipMoves ==
    ASSUME Shape, NEW w \in Ops, NEW place \in OpPc \ {"idle", "executing"},
           place \in {"retry", "lookupAgain", "publishing"} => backend = "redis",
           place = "reclaim" => backend = "postgres",
           Skip(w, place), backend' = backend
    PROVE  /\ Shape' /\ row' = row /\ live' = live
           /\ Active' = IF place \in {"recording", "publishing"} THEN Active \cup {w}
                                                                 ELSE Active \ {w}
<1>1. pc' = [pc EXCEPT ![w] = place] /\ row' = row /\ live' = live /\ ttl' = ttl
  BY DEF Skip, Goto, stored
<1>2. TypeOK'
  BY <1>1 DEF Shape, TypeOK
<1>3. /\ \A v \in Ops : pc'[v] \in {"retry", "lookupAgain", "publishing"} => backend' = "redis"
      /\ \A v \in Ops : pc'[v] = "reclaim" => backend' = "postgres"
  BY <1>1 DEF Shape, TypeOK
<1>4. Active' = IF place \in {"recording", "publishing"} THEN Active \cup {w} ELSE Active \ {w}
  BY <1>1 DEF Shape, TypeOK, Active
<1>. QED
  BY <1>1, <1>2, <1>3, <1>4 DEF Shape

\* What one operation's command does to the key and to the operations at
\* work: a claim of an absent or expired row, the publication of a result
\* (with PostgreSQL only over its own row), the end of its work, or nothing.
Claims(w) == ~live /\ row' = Reserved(w) /\ live' /\ Active' = Active \cup {w}
Publishes(w) ==
    /\ w \in Active /\ Active' = Active \ {w}
    /\ row' = Completed(w) /\ live'
    /\ backend = "postgres" => row.op = w
Leaves(w) == w \in Active /\ Active' = Active \ {w} /\ row' = row /\ live' = live
Stays == Active' = Active /\ row' = row /\ live' = live

\* SET NX reserves only a key that holds nothing.
LEMMA SetNxMoves ==
    ASSUME Shape, backend = "redis", backend' = backend, NEW w \in Ops, w \notin Active,
           NEW otherwise \in {"lookup", "lookupAgain"}, SetNx(w, otherwise)
    PROVE  Shape' /\ (Claims(w) \/ Stays)
<1>1. CASE row = Free
  <2>1. row' = Reserved(w) /\ live' = TRUE /\ ttl' = TRUE /\ Goto(w, "executing") /\ ~live
    BY <1>1 DEF SetNx, Reserve, Shape
  <2>. QED
    BY <2>1, WriteMoves DEF Claims
<1>2. CASE row # Free
  <2>1. Skip(w, otherwise)
    BY <1>2 DEF SetNx
  <2>. QED
    BY <2>1, SkipMoves DEF Stays, OpPc
<1>. QED
  BY <1>1, <1>2

\* The steps of one operation.
LEMMA OpSteps ==
    ASSUME Shape, NEW w \in Ops, OpStep(w)
    PROVE  /\ Shape' /\ backend' = backend
           /\ Claims(w) \/ Publishes(w) \/ Leaves(w) \/ Stays
<1>0. backend' = backend
  BY DEF OpStep
<1>1. CASE ClaimSet(w)
  BY <1>0, <1>1, SetNxMoves DEF ClaimSet, Active
<1>2. CASE ClaimSetAgain(w)
  <2>1. backend = "redis" /\ w \notin Active /\ SetNx(w, "lookupAgain")
    BY <1>2 DEF ClaimSetAgain, Active, Shape
  <2>. QED
    BY <1>0, <2>1, SetNxMoves
<1>3. CASE ClaimGet(w) \/ ClaimGetAgain(w) \/ ClaimSelect(w)
  <2>1. PICK place \in {"retry", "deduplicated"} :
          Skip(w, place) /\ w \notin Active /\ (place = "retry" => backend = "redis")
    BY <1>3 DEF ClaimGet, ClaimGetAgain, ClaimSelect, Active
  <2>. QED
    BY <1>0, <2>1, SkipMoves DEF Stays, OpPc
<1>4. CASE ToolEnds(w)
  <2>1. Skip(w, "recording") /\ w \in Active
    BY <1>4 DEF ToolEnds, Active
  <2>. QED
    BY <1>0, <2>1, SkipMoves DEF Stays, OpPc
<1>5. CASE RecordGet(w)
  <2>1. PICK place \in {"publishing", "done"} : Skip(w, place) /\ w \in Active /\ backend = "redis"
    BY <1>5 DEF RecordGet, Active
  <2>. QED
    BY <1>0, <2>1, SkipMoves DEF Stays, Leaves, OpPc
<1>6. CASE RecordSet(w)
  <2>1. w \in Active /\ backend = "redis"
    BY <1>6 DEF RecordSet, Active, Shape
  <2>2. row' = Completed(w) /\ live' = TRUE /\ ttl' = TRUE /\ Goto(w, "done")
    BY <1>6 DEF RecordSet
  <2>. QED
    BY <1>0, <2>1, <2>2, WriteMoves DEF Publishes
<1>7. CASE ClaimInsert(w)
  <2>0. w \notin Active /\ backend = "postgres"
    BY <1>7 DEF ClaimInsert, Active
  <2>1. CASE row = Free
    <3>1. row' = Reserved(w) /\ live' = TRUE /\ ttl' = TRUE /\ Goto(w, "executing") /\ ~live
      BY <1>7, <2>1 DEF ClaimInsert, Reserve, Shape, TypeOK
    <3>. QED
      BY <1>0, <3>1, WriteMoves DEF Claims
  <2>2. CASE row # Free
    BY <1>0, <1>7, <2>0, <2>2, SkipMoves DEF ClaimInsert, Stays, OpPc
  <2>. QED
    BY <2>1, <2>2
<1>8. CASE ClaimReclaim(w)
  <2>0. w \notin Active
    BY <1>8 DEF ClaimReclaim, Active
  <2>1. CASE ~live
    <3>1. row' = Reserved(w) /\ live' = TRUE /\ ttl' = TRUE /\ Goto(w, "executing")
      BY <1>8, <2>1 DEF ClaimReclaim, Reserve
    <3>. QED
      BY <1>0, <2>1, <3>1, WriteMoves DEF Claims
  <2>2. CASE live
    <3>1. Skip(w, "lookup")
      BY <1>8, <2>2, Zenon DEF ClaimReclaim
    <3>. QED
      BY <1>0, <2>0, <3>1, SkipMoves DEF Stays, OpPc
  <2>. QED
    BY <2>1, <2>2
<1>9. CASE Record(w)
  <2>0. w \in Active /\ Goto(w, "done")
    BY <1>9 DEF Record, Active
  <2>1. CASE row.op = w
    <3>1. row' = Completed(w) /\ live' = TRUE /\ ttl' = TRUE
      BY <1>9, <2>1 DEF Record
    <3>. QED
      BY <1>0, <2>0, <2>1, <3>1, WriteMoves DEF Publishes
  <2>2. CASE row.op # w
    <3>1. Skip(w, "done")
      BY <1>9, <2>0, <2>2 DEF Record, Skip
    <3>. QED
      BY <1>0, <2>0, <3>1, SkipMoves DEF Leaves, OpPc
  <2>. QED
    BY <2>1, <2>2
<1>10. CASE GiveUp(w)
  <2>1. Skip(w, "dropped")
    BY <1>10 DEF GiveUp
  <2>2. Shape' /\ row' = row /\ live' = live /\ Active' = Active \ {w}
    BY <1>0, <2>1, SkipMoves DEF OpPc
  <2>. QED
    BY <1>0, <2>2 DEF Leaves, Stays
<1>. QED
  BY <1>1, <1>2, <1>3, <1>4, <1>5, <1>6, <1>7, <1>8, <1>9, <1>10 DEF OpStep

\* Expiry hides the row and touches nobody at work when the TTL is long enough.
LEMMA ExpireMoves ==
    ASSUME Shape, Expire
    PROVE  /\ Shape' /\ backend' = backend
           /\ live /\ ~live' /\ row' \in {row, Free} /\ Active' = Active
           /\ TtlCoversWork => row.op \notin Active
<1>1. live' \in BOOLEAN /\ ~live' /\ ttl' \in BOOLEAN
  BY Zenon DEF Expire
<1>2. row' = (IF backend = "redis" THEN Free ELSE row) /\ UNCHANGED <<backend, pc>> /\ live
  BY DEF Expire
<1>3. TypeOK' /\ Active' = Active
  BY <1>1, <1>2 DEF Shape, TypeOK, Active, Rows
<1>. QED
  BY <1>1, <1>2, <1>3 DEF Expire, Shape

\* Whatever the TTL, the shape holds.
LEMMA ShapeInvariant == Spec => []Shape
<1>1. Init => Shape
  <2>. SUFFICES ASSUME Init PROVE Shape
    OBVIOUS
  <2>1. live \in BOOLEAN /\ ~live /\ ttl \in BOOLEAN
    BY Zenon DEF Init
  <2>. QED
    BY <2>1 DEF Init, Shape, TypeOK, Rows, OpPc
<1>2. Shape /\ [Next]_vars => Shape'
  <2>. SUFFICES ASSUME Shape, [Next]_vars PROVE Shape'
    OBVIOUS
  <2>1. CASE UNCHANGED vars
    BY <2>1 DEF vars, Shape, TypeOK
  <2>. QED
    BY <2>1, ExpireMoves, OpSteps DEF Next
<1>. QED
  BY <1>1, <1>2, PTL DEF Spec

\* The reservation of whoever is at work survives every step of the others.
THEOREM RegistryInvariant == Spec => []RegistryInv
<1>. DEFINE Held == TtlCoversWork => \A w \in Active : live /\ row = Reserved(w)
<1>1. Init => Held
  BY DEF Init, Active
<1>2. Shape /\ Held /\ [Next]_vars => Held'
  <2>. SUFFICES ASSUME Shape, Held, [Next]_vars PROVE Held'
    OBVIOUS
  <2>0. Active \subseteq Ops
    BY DEF Active
  <2>1. CASE UNCHANGED vars
    BY <2>1 DEF vars, Active
  <2>2. CASE Expire
    <3>1. TtlCoversWork => Active = {}
      BY <2>0, <2>2, ExpireMoves, RowsDiffer
    <3>. QED
      BY <2>2, <3>1, ExpireMoves
  <2>3. ASSUME NEW w \in Ops, OpStep(w) PROVE Held'
    <3>1. CASE Claims(w)
      BY <2>0, <3>1 DEF Claims
    <3>2. CASE Publishes(w)
      BY <2>0, <3>2, RowsDiffer DEF Publishes
    <3>3. CASE Leaves(w) \/ Stays
      BY <3>3 DEF Leaves, Stays
    <3>. QED
      BY <2>3, <3>1, <3>2, <3>3, OpSteps
  <2>. QED
    BY <2>1, <2>2, <2>3 DEF Next
<1>3. Shape /\ Held => RegistryInv
  BY DEF Shape, RegistryInv
<1>. QED
  BY <1>1, <1>2, <1>3, ShapeInvariant, PTL DEF Spec

\* With a TTL that covers the work, two replicas never run the tool under the
\* same key at the same time.
THEOREM ExclusiveCorrect == TtlCoversWork => (Spec => []ExclusiveExecution)
<1>. SUFFICES ASSUME TtlCoversWork PROVE Spec => []ExclusiveExecution
  OBVIOUS
<1>1. RegistryInv => ExclusiveExecution
  BY RowsDiffer DEF RegistryInv, ExclusiveExecution, Active
<1>. QED
  BY <1>1, RegistryInvariant, PTL

\* However short the TTL: with PostgreSQL a result lands only on the
\* publisher's own row, never on one that was reclaimed in the meantime.
THEOREM PostgresOwnerCorrect == Spec => PostgresOwnerOnlyPublishes
<1>1. Shape /\ [Next]_vars =>
        [backend = "postgres" =>
           \A w \in Ops : row' = Completed(w) => row \in {Reserved(w), Completed(w)}]_vars
  <2>. SUFFICES ASSUME Shape, [Next]_vars, backend = "postgres", NEW w \in Ops,
                       row' = Completed(w)
                PROVE  row \in {Reserved(w), Completed(w)}
    OBVIOUS
  <2>1. CASE UNCHANGED vars \/ Expire
    BY <2>1, ExpireMoves, RowsDiffer DEF vars
  <2>2. ASSUME NEW v \in Ops, OpStep(v) PROVE row \in {Reserved(w), Completed(w)}
    <3>1. CASE Publishes(v)
      <4>1. v = w /\ row.op = w
        BY <3>1, RowsDiffer DEF Publishes
      <4>. QED
        BY <4>1, RowsDiffer, RegistryAssumption
        DEF Shape, TypeOK, Rows, Free, RegistryAssumption
    <3>2. CASE Claims(v)
      BY <3>2, RowsDiffer DEF Claims
    <3>3. CASE Leaves(v) \/ Stays
      BY <3>3 DEF Leaves, Stays
    <3>. QED
      BY <2>2, <3>1, <3>2, <3>3, OpSteps
  <2>. QED
    BY <2>1, <2>2 DEF Next
<1>. QED
  BY <1>1, ShapeInvariant, PTL DEF Spec, PostgresOwnerOnlyPublishes

\* With a TTL that covers the work, both registries implement the idempotency
\* contract, an expired row counting as no row.
THEOREM RegistryRefinement == TtlCoversWork => (Spec => ImplementsContract)
<1>. SUFFICES ASSUME TtlCoversWork PROVE Spec => ImplementsContract
  OBVIOUS
<1>0. /\ Contract!Free = Free
      /\ \A w : Contract!Reserved(w) = Reserved(w) /\ Contract!Completed(w) = Completed(w)
  BY DEF Contract!Free, Contract!Reserved, Contract!Completed, Free, Reserved, Completed
<1>1. Init => Contract!CInit
  BY <1>0 DEF Init, Contract!CInit, Active, Visible
<1>2. RegistryInv /\ [Next]_vars => [Contract!CNext]_(Contract!cvars)
  <2>. SUFFICES ASSUME RegistryInv, [Next]_vars
                PROVE  Contract!CNext \/ UNCHANGED Contract!cvars
    BY DEF Contract!cvars
  <2>0. Shape
    BY DEF RegistryInv, Shape
  <2>1. CASE UNCHANGED vars
    BY <2>1 DEF vars, Contract!cvars, Active, Visible
  <2>2. CASE Expire
    <3>1. Visible = row /\ row # Free /\ Visible' = Free /\ Active' = Active
          /\ row.op \notin Active
      BY <2>0, <2>2, ExpireMoves DEF Shape, TypeOK, Visible
    <3>. QED
      BY <1>0, <3>1 DEF Contract!CNext, Contract!ExpireSlot
  <2>3. ASSUME NEW w \in Ops, OpStep(w)
        PROVE  Contract!Claim(w) \/ Contract!Publish(w) \/ Contract!Drop(w)
               \/ UNCHANGED Contract!cvars
    <3>1. w \in Active => live /\ row = Reserved(w)
      BY DEF RegistryInv
    <3>2. CASE Claims(w)
      BY <1>0, <3>2 DEF Claims, Contract!Claim, Visible
    <3>3. CASE Publishes(w)
      BY <1>0, <3>1, <3>3 DEF Publishes, Contract!Publish, Visible
    <3>4. CASE Leaves(w)
      BY <3>4 DEF Leaves, Contract!Drop, Visible
    <3>5. CASE Stays
      BY <3>5 DEF Stays, Contract!cvars, Visible
    <3>. QED
      BY <2>0, <2>3, <3>2, <3>3, <3>4, <3>5, OpSteps
  <2>. QED
    BY <2>1, <2>2, <2>3 DEF Next, Contract!CNext
<1>. QED
  BY <1>1, <1>2, RegistryInvariant, PTL DEF Spec, ImplementsContract, Contract!CSpec
=============================================================================
