------------------------------ MODULE A2aProofs ------------------------------
(***************************************************************************)
(* Theorems about the durable A2A task stores and the A2A bridge.          *)
(***************************************************************************)
EXTENDS A2aStore, A2aServer, SelectionProofs, SequenceTheorems

\* A stored snapshot is the last one saved: what is removed is gone for good.
SnapshotInv ==
    /\ saves \in [TaskKeys -> Nat] /\ doc \in [TaskKeys -> Nat]
    /\ seen \in [StoreWorkers -> [TaskKeys -> Nat]]
    /\ \A k \in TaskKeys : doc[k] \in {0, saves[k]}
    /\ fresh \subseteq Stored

\* Removing keys leaves the other snapshots as they are.
LEMMA RemovalFits ==
    ASSUME SnapshotInv, NEW gone, NEW keep \in SUBSET fresh, fresh' = keep, keep \cap gone = {},
           doc' = Without(gone), saves' = saves, seen' = seen
    PROVE  SnapshotInv'
<1>1. doc' \in [TaskKeys -> Nat] /\ \A k \in TaskKeys : doc'[k] = IF k \in gone THEN 0 ELSE doc[k]
  BY DEF SnapshotInv, Without
<1>. QED
  BY <1>1 DEF SnapshotInv, Stored

\* Every step of a store keeps its snapshots the last ones saved.
LEMMA SnapshotStep ==
    ASSUME SnapshotInv, [StoreNext]_svars
    PROVE  SnapshotInv'
<1>0. saves \in [TaskKeys -> Nat] /\ doc \in [TaskKeys -> Nat] /\ fresh \subseteq Stored /\ Stored \subseteq TaskKeys
      /\ seen \in [StoreWorkers -> [TaskKeys -> Nat]]
  BY DEF SnapshotInv, Stored
<1>1. ASSUME UNCHANGED <<doc, fresh, saves, seen>> PROVE SnapshotInv'
  BY <1>1 DEF SnapshotInv, Stored
<1>2. ASSUME NEW w \in StoreWorkers, NEW k \in TaskKeys, SqliteSave(w, k) PROVE SnapshotInv'
  <2>. DEFINE old == Stored \ fresh
  <2>1. /\ doc' = [Without(old) EXCEPT ![k] = IF k \in old THEN 0 ELSE saves[k] + 1]
        /\ fresh' = IF k \in old THEN fresh ELSE fresh \cup {k}
        /\ saves' = [saves EXCEPT ![k] = saves[k] + 1] /\ seen' = seen
    BY <1>2 DEF SqliteSave
  <2>. HIDE DEF old
  <2>2. \A j \in TaskKeys : doc'[j] = IF j \in old THEN 0 ELSE IF j = k THEN saves[k] + 1 ELSE doc[j]
    BY <2>1 DEF Without
  <2>3. doc' \in [TaskKeys -> Nat]
    BY <1>0, <2>1 DEF Without
  <2>4. saves' \in [TaskKeys -> Nat] /\ \A j \in TaskKeys : saves'[j] = IF j = k THEN saves[k] + 1 ELSE saves[j]
    BY <1>0, <2>1
  <2>5. \A j \in TaskKeys : doc'[j] \in {0, saves'[j]}
    BY <2>2, <2>4 DEF SnapshotInv
  <2>6. ASSUME NEW j \in fresh' PROVE j \in TaskKeys /\ doc'[j] # 0
    <3>1. j \notin old /\ j \in TaskKeys /\ (j = k \/ j \in fresh)
      BY <1>0, <2>1, <2>6 DEF old
    <3>2. saves[k] + 1 # 0
      BY <1>0
    <3>. QED
      BY <1>0, <2>2, <3>1, <3>2 DEF Stored
  <2>. QED
    BY <1>0, <2>1, <2>3, <2>4, <2>5, <2>6 DEF SnapshotInv, Stored
<1>3. ASSUME NEW w \in StoreWorkers, NEW k \in TaskKeys, SqliteGet(w, k) \/ RedisGet(w, k) PROVE SnapshotInv'
  <2>1. /\ UNCHANGED <<doc, fresh, saves>>
        /\ seen' = seen \/ seen' = [seen EXCEPT ![w][k] = doc[k]]
    BY <1>3 DEF SqliteGet, RedisGet
  <2>2. seen' \in [StoreWorkers -> [TaskKeys -> Nat]]
    BY <1>0, <2>1
  <2>. QED
    BY <2>1, <2>2 DEF SnapshotInv, Stored
<1>4. ASSUME NEW w \in StoreWorkers, SqliteGetPurge(w) PROVE SnapshotInv'
  BY <1>4, RemovalFits DEF SqliteGetPurge
<1>5. ASSUME NEW w \in StoreWorkers, SqlitePurge(w) \/ SqlitePage(w) PROVE SnapshotInv'
  <2>1. doc' = Without(Stored \ fresh) /\ UNCHANGED <<fresh, saves, seen>>
    BY <1>5 DEF SqlitePurge, SqlitePage
  <2>. QED
    BY <2>1, RemovalFits
<1>6. ASSUME NEW w \in StoreWorkers, NEW k \in TaskKeys, SqliteDelete(w, k) \/ RedisDel(w, k) PROVE SnapshotInv'
  <2>1. doc' = Without({k}) /\ fresh' = fresh \ {k} /\ UNCHANGED <<saves, seen>>
    BY <1>6 DEF SqliteDelete, RedisDel
  <2>. QED
    BY <2>1, RemovalFits
<1>7. ASSUME NEW w \in StoreWorkers, NEW k \in TaskKeys, RedisSet(w, k) PROVE SnapshotInv'
  <2>1. /\ doc' = [doc EXCEPT ![k] = saves[k] + 1] /\ fresh' = fresh \cup {k}
        /\ saves' = [saves EXCEPT ![k] = saves[k] + 1] /\ seen' = seen
    BY <1>7 DEF RedisSet
  <2>2. saves[k] + 1 # 0 /\ saves[k] + 1 \in Nat
    BY <1>0
  <2>. QED
    BY <1>0, <2>1, <2>2 DEF SnapshotInv, Stored
<1>8. ASSUME NEW k \in TaskKeys, Expire(k) PROVE SnapshotInv'
  <2>1. fresh' = fresh \ {k} /\ UNCHANGED <<saves, seen>> /\ (doc' = Without({k}) \/ doc' = doc)
    BY <1>8 DEF Expire
  <2>2. CASE doc' = Without({k})
    BY <2>1, <2>2, RemovalFits
  <2>3. CASE doc' = doc
    BY <2>1, <2>3 DEF SnapshotInv, Stored
  <2>. QED
    BY <2>1, <2>2, <2>3
<1>9. ASSUME NEW w \in StoreWorkers,
             NewWalk(w) \/ RedisZadd(w) \/ RedisZrem(w) \/ RedisRange(w) \/ RedisMget(w) \/ RedisPrune(w) \/ WorkerStops(w)
      PROVE  UNCHANGED <<doc, fresh, saves, seen>>
  BY <1>9 DEF NewWalk, RedisZadd, RedisZrem, RedisRange, RedisMget, RedisPrune, WorkerStops
<1>10. CASE UNCHANGED svars
  BY <1>1, <1>10 DEF svars
<1>. QED
  BY <1>1, <1>2, <1>3, <1>4, <1>5, <1>6, <1>7, <1>8, <1>9, <1>10 DEF StoreNext

\* What a worker reads is the last snapshot saved, for any number of workers and
\* tasks and for both stores: an expired or purged task never comes back in an
\* older state (ReadsLatest; save, get, delete, list, purge_expired).
THEOREM ReadsAreLatest == StoreSpec => ReadsLatest
<1>. DEFINE Reads == \A w \in StoreWorkers, k \in TaskKeys : seen'[w][k] # seen[w][k] => seen'[w][k] = saves[k]
<1>1. StoreInit => SnapshotInv
  BY DEF StoreInit, SnapshotInv, Stored
<1>2. SnapshotInv /\ [StoreNext]_svars => SnapshotInv'
  BY SnapshotStep
<1>3. SnapshotInv /\ [StoreNext]_svars => [Reads]_svars
  <2>. SUFFICES ASSUME SnapshotInv, StoreNext, NEW v \in StoreWorkers, NEW j \in TaskKeys, seen'[v][j] # seen[v][j]
                PROVE  seen'[v][j] = saves[j]
    OBVIOUS
  <2>0. seen \in [StoreWorkers -> [TaskKeys -> Nat]]
    BY DEF SnapshotInv
  <2>1. PICK w \in StoreWorkers, k \in TaskKeys : /\ seen' = [seen EXCEPT ![w][k] = doc[k]]
                                                  /\ doc[k] # 0
    <3>1. seen' # seen
      OBVIOUS
    <3>2. PICK w \in StoreWorkers, k \in TaskKeys : SqliteGet(w, k) \/ RedisGet(w, k)
      <4>1. ASSUME NEW w \in StoreWorkers,
                   \/ SqliteGetPurge(w) \/ SqlitePurge(w) \/ SqlitePage(w) \/ NewWalk(w) \/ RedisZadd(w) \/ RedisZrem(w)
                   \/ RedisRange(w) \/ RedisMget(w) \/ RedisPrune(w) \/ WorkerStops(w)
            PROVE  seen' = seen
        BY <4>1 DEF SqliteGetPurge, SqlitePurge, SqlitePage, NewWalk, RedisZadd, RedisZrem, RedisRange,
                    RedisMget, RedisPrune, WorkerStops
      <4>2. ASSUME NEW w \in StoreWorkers, NEW k \in TaskKeys,
                   SqliteSave(w, k) \/ SqliteDelete(w, k) \/ RedisSet(w, k) \/ RedisDel(w, k)
            PROVE  seen' = seen
        BY <4>2 DEF SqliteSave, SqliteDelete, RedisSet, RedisDel
      <4>3. ASSUME NEW k \in TaskKeys, Expire(k) PROVE seen' = seen
        BY <4>3 DEF Expire
      <4>. QED
        BY <3>1, <4>1, <4>2, <4>3 DEF StoreNext
    <3>3. doc[k] # 0 /\ seen' = [seen EXCEPT ![w][k] = doc[k]]
      BY <3>1, <3>2 DEF SqliteGet, RedisGet, SnapshotInv, Stored
    <3>. QED
      BY <3>3
  <2>2. v = w /\ j = k /\ seen'[v][j] = doc[k]
    BY <2>0, <2>1
  <2>. QED
    BY <2>1, <2>2 DEF SnapshotInv
<1>. QED
  BY <1>1, <1>2, <1>3, PTL DEF StoreSpec, ReadsLatest

-----------------------------------------------------------------------------
(* The operations of the workers. *)

Operation == [pc : {"idle", "purge", "zadd", "zrem", "mget", "prune"}, key : TaskKeys \cup {"none"},
              keys : SUBSET TaskKeys, page : SUBSET TaskKeys, must : SUBSET TaskKeys]

\* What a listing owes is among the keys it read and still stored, and then on its page.
OpSound(x) ==
    /\ x.pc = "purge" => kind = "sqlite"
    /\ x.pc \in {"zadd", "zrem", "mget", "prune"} => kind = "redis"
    /\ x.pc = "zadd" => x.key \in TaskKeys
    /\ x.pc = "mget" => x.must \subseteq x.keys /\ x.must \subseteq Stored
    /\ x.pc = "prune" => x.must \subseteq x.page

Operations ==
    /\ op \in [StoreWorkers -> Operation] /\ index \subseteq TaskKeys /\ kind \in StoreBackends
    /\ \A w \in StoreWorkers : OpSound(op[w])

Less(x, gone) == [x EXCEPT !.must = x.must \ gone]

\* An operation stays sound when it no longer owes what has left the store.
LEMMA OpKept ==
    ASSUME NEW x \in Operation, OpSound(x), NEW gone, Stored \ gone \subseteq Stored', kind' = kind
    PROVE  Less(x, gone) \in Operation /\ OpSound(Less(x, gone))'
<1>1. Less(x, gone) \in Operation
  BY DEF Less, Operation
<1>2. /\ Less(x, gone).pc = x.pc /\ Less(x, gone).key = x.key /\ Less(x, gone).keys = x.keys /\ Less(x, gone).page = x.page
      /\ Less(x, gone).must = x.must \ gone
  BY DEF Less, Operation
<1>. QED
  BY <1>1, <1>2 DEF OpSound

\* One worker goes on with x and none owes the keys that are gone.
LEMMA OpsMove ==
    ASSUME Operations, NEW w \in StoreWorkers, NEW x \in Operation, NEW gone,
           op' = Owed([op EXCEPT ![w] = x], gone), Stored \ gone \subseteq Stored', kind' = kind,
           index' \subseteq TaskKeys, OpSound(Less(x, gone))'
    PROVE  Operations'
<1>0. op \in [StoreWorkers -> Operation]
  BY DEF Operations
<1>. DEFINE ops == [op EXCEPT ![w] = x]
<1>6. ops[w] = x /\ \A v \in StoreWorkers \ {w} : ops[v] = op[v]
  BY <1>0
<1>. HIDE DEF ops
<1>7. op' = [v \in StoreWorkers |-> Less(ops[v], gone)]
  BY DEF Owed, Less, ops
<1>1. \A v \in StoreWorkers : op'[v] = IF v = w THEN Less(x, gone) ELSE Less(op[v], gone)
  BY <1>6, <1>7
<1>2. Less(x, gone) \in Operation
  BY DEF Less, Operation
<1>3. ASSUME NEW v \in StoreWorkers \ {w} PROVE op'[v] \in Operation /\ OpSound(op[v])'
  <2>1. PICK y \in Operation : y = op[v] /\ OpSound(y)
    BY <1>0 DEF Operations
  <2>2. Less(y, gone) \in Operation /\ OpSound(Less(y, gone))'
    BY <2>1, OpKept
  <2>3. op'[v] = Less(y, gone)
    BY <1>1, <2>1
  <2>. QED
    BY <2>2, <2>3 DEF OpSound
<1>4. op'[w] \in Operation /\ OpSound(op[w])'
  BY <1>1, <1>2 DEF OpSound
<1>5. op' \in [StoreWorkers -> Operation]
  <2>1. \A v \in StoreWorkers : op'[v] \in Operation
    BY <1>3, <1>4
  <2>. QED
    BY <1>7, <2>1
<1>8. \A v \in StoreWorkers : OpSound(op[v])'
  BY <1>3, <1>4
<1>. QED
  BY <1>5, <1>8 DEF Operations

\* One worker goes on with x, and nothing that a listing owes leaves the store.
LEMMA OpMoves ==
    ASSUME Operations, NEW w \in StoreWorkers, NEW x \in Operation,
           op' = [op EXCEPT ![w] = x], kind = "sqlite" \/ Stored \subseteq Stored', kind' = kind,
           index' \subseteq TaskKeys, OpSound(x)'
    PROVE  Operations'
<1>0. op \in [StoreWorkers -> Operation]
  BY DEF Operations
<1>1. op' \in [StoreWorkers -> Operation]
  BY <1>0
<1>2. \A v \in StoreWorkers : OpSound(op[v])'
  <2>. SUFFICES ASSUME NEW v \in StoreWorkers PROVE OpSound(op[v])'
    OBVIOUS
  <2>1. CASE v = w
    BY <1>0, <2>1 DEF OpSound
  <2>2. CASE v # w
    <3>1. op'[v] = op[v] /\ OpSound(op[v])
      BY <1>0, <2>2 DEF Operations
    <3>. QED
      BY <3>1 DEF OpSound
  <2>. QED
    BY <2>1, <2>2
<1>. QED
  BY <1>1, <1>2 DEF Operations

\* SQLite has no operation that a removal could disturb.
LEMMA OpsQuiet ==
    ASSUME Operations, kind = "sqlite", kind' = kind, op' = op, index' = index
    PROVE  Operations'
<1>1. \A v \in StoreWorkers : OpSound(op[v])'
  BY DEF Operations, OpSound
<1>. QED
  BY <1>1 DEF Operations

\* A worker with nothing to do.
LEMMA IdleFits == Idle \in Operation /\ OpSound(Idle) /\ OpSound(Idle)'
  BY DEF Idle, Operation, OpSound

\* Keys leave the store and no listing owes them.
LEMMA OpsOwe ==
    ASSUME Operations, NEW gone, op' = Owed(op, gone), Stored \ gone \subseteq Stored', kind' = kind,
           index' = index
    PROVE  Operations'
<1>0. op \in [StoreWorkers -> Operation]
  BY DEF Operations
<1>1. op' = [v \in StoreWorkers |-> Less(op[v], gone)]
  BY DEF Owed, Less
<1>2. ASSUME NEW v \in StoreWorkers PROVE op'[v] \in Operation /\ OpSound(op[v])'
  <2>1. PICK y \in Operation : y = op[v] /\ OpSound(y)
    BY <1>0 DEF Operations
  <2>2. Less(y, gone) \in Operation /\ OpSound(Less(y, gone))'
    BY <2>1, OpKept
  <2>3. op'[v] = Less(y, gone)
    BY <1>1, <2>1
  <2>. QED
    BY <2>2, <2>3 DEF OpSound
<1>3. op' \in [StoreWorkers -> Operation]
  BY <1>1, <1>2
<1>4. \A v \in StoreWorkers : OpSound(op[v])'
  BY <1>2
<1>. QED
  BY <1>3, <1>4 DEF Operations

\* Every step of a store keeps its operations sound.
LEMMA OperationsStep ==
    ASSUME SnapshotInv, Operations, [StoreNext]_svars
    PROVE  Operations'
<1>0. /\ op \in [StoreWorkers -> Operation] /\ index \subseteq TaskKeys
      /\ doc \in [TaskKeys -> Nat] /\ saves \in [TaskKeys -> Nat]
  BY DEF Operations, SnapshotInv
<1>1. ASSUME NEW gone, doc' = Without(gone) PROVE Stored \ gone \subseteq Stored'
  BY <1>1 DEF Stored, Without
<1>2. ASSUME UNCHANGED <<kind, doc, index, op>> PROVE Operations'
  <2>1. Stored' = Stored
    BY <1>2 DEF Stored
  <2>2. \A v \in StoreWorkers : OpSound(op[v])'
    BY <1>2, <2>1 DEF Operations, OpSound
  <2>. QED
    BY <1>2, <2>2 DEF Operations
<1>3. ASSUME NEW w \in StoreWorkers, SqlitePurge(w) \/ SqlitePage(w) PROVE Operations'
  BY <1>3, OpsQuiet DEF SqlitePurge, SqlitePage, Free
<1>4. ASSUME NEW w \in StoreWorkers, NEW k \in TaskKeys, SqliteSave(w, k) \/ SqliteDelete(w, k) PROVE Operations'
  BY <1>4, OpsQuiet DEF SqliteSave, SqliteDelete, Free
<1>5. ASSUME NEW w \in StoreWorkers, NEW k \in TaskKeys, SqliteGet(w, k) PROVE Operations'
  <2>1. kind = "sqlite" /\ UNCHANGED <<kind, doc, index>>
    BY <1>5 DEF SqliteGet, Free
  <2>. DEFINE x == [Idle EXCEPT !.pc = "purge", !.key = k]
  <2>2. x \in Operation /\ x.pc = "purge"
    BY DEF Idle, Operation
  <2>3. op' = op \/ op' = [op EXCEPT ![w] = x]
    BY <1>5 DEF SqliteGet
  <2>. HIDE DEF x
  <2>4. OpSound(x)'
    BY <2>1, <2>2 DEF OpSound
  <2>5. CASE op' = op
    BY <1>2, <2>1, <2>5
  <2>6. CASE op' = [op EXCEPT ![w] = x]
    BY <1>0, <2>1, <2>2, <2>4, <2>6, OpMoves
  <2>. QED
    BY <2>3, <2>5, <2>6
<1>6. ASSUME NEW w \in StoreWorkers, SqliteGetPurge(w) PROVE Operations'
  <2>1. kind = "sqlite"
    BY <1>6 DEF SqliteGetPurge, Operations, OpSound
  <2>2. op' = [op EXCEPT ![w] = Idle] /\ UNCHANGED <<kind, index>>
    BY <1>6 DEF SqliteGetPurge
  <2>. QED
    BY <1>0, <2>1, <2>2, IdleFits, OpMoves
<1>7. ASSUME NEW w \in StoreWorkers, RedisZadd(w) \/ WorkerStops(w) PROVE Operations'
  <2>1. op' = [op EXCEPT ![w] = Idle] /\ UNCHANGED <<kind, doc>>
    BY <1>7 DEF RedisZadd, WorkerStops
  <2>2. index' \subseteq TaskKeys
    <3>1. CASE RedisZadd(w)
      <4>1. op[w].key \in TaskKeys
        BY <3>1 DEF RedisZadd, Operations, OpSound
      <4>. QED
        BY <1>0, <3>1, <4>1 DEF RedisZadd
    <3>. QED
      BY <1>0, <1>7, <3>1 DEF WorkerStops
  <2>3. Stored' = Stored
    BY <2>1 DEF Stored
  <2>. QED
    BY <1>0, <2>1, <2>2, <2>3, IdleFits, OpMoves
<1>8. ASSUME NEW w \in StoreWorkers, NEW k \in TaskKeys, RedisSet(w, k) PROVE Operations'
  <2>1. kind = "redis" /\ UNCHANGED <<kind, index>> /\ doc' = [doc EXCEPT ![k] = saves[k] + 1]
    BY <1>8 DEF RedisSet, Free
  <2>. DEFINE x == [Idle EXCEPT !.pc = "zadd", !.key = k]
  <2>2. x \in Operation /\ x.pc = "zadd" /\ x.key \in TaskKeys
    BY DEF Idle, Operation
  <2>3. op' = [op EXCEPT ![w] = x]
    BY <1>8 DEF RedisSet
  <2>. HIDE DEF x
  <2>4. OpSound(x)'
    BY <2>1, <2>2 DEF OpSound
  <2>5. saves[k] + 1 # 0
    BY <1>0
  <2>6. Stored \subseteq Stored'
    BY <1>0, <2>1, <2>5 DEF Stored
  <2>. QED
    BY <1>0, <2>1, <2>2, <2>3, <2>4, <2>6, OpMoves
<1>9. ASSUME NEW w \in StoreWorkers, NEW k \in TaskKeys, RedisDel(w, k) PROVE Operations'
  <2>1. kind = "redis" /\ UNCHANGED <<kind, index>> /\ doc' = Without({k})
    BY <1>9 DEF RedisDel, Free
  <2>. DEFINE x == [Idle EXCEPT !.pc = "zrem", !.key = k]
  <2>2. x \in Operation /\ x.pc = "zrem"
    BY DEF Idle, Operation
  <2>3. op' = Owed([op EXCEPT ![w] = x], {k})
    BY <1>9 DEF RedisDel
  <2>. HIDE DEF x
  <2>4. Less(x, {k}).pc = "zrem"
    BY <2>2 DEF Less, Operation
  <2>5. OpSound(Less(x, {k}))'
    BY <2>1, <2>4 DEF OpSound
  <2>6. Stored \ {k} \subseteq Stored'
    BY <1>1, <2>1
  <2>. QED
    BY <1>0, <2>1, <2>2, <2>3, <2>5, <2>6, OpsMove
<1>10. ASSUME NEW w \in StoreWorkers, RedisZrem(w) PROVE Operations'
  <2>1. PICK k : k = op[w].key
    OBVIOUS
  <2>2. op' = Owed([op EXCEPT ![w] = Idle], {k}) /\ index' \subseteq index /\ UNCHANGED <<kind, doc>>
    BY <1>10, <2>1 DEF RedisZrem
  <2>3. Less(Idle, {k}) = Idle
    BY DEF Less, Idle
  <2>4. Stored' = Stored
    BY <2>2 DEF Stored
  <2>5. OpSound(Less(Idle, {k}))'
    BY <2>3, IdleFits
  <2>. QED
    BY <1>0, <2>2, <2>4, <2>5, IdleFits, OpsMove
<1>11. ASSUME NEW w \in StoreWorkers, RedisRange(w) PROVE Operations'
  <2>1. kind = "redis" /\ UNCHANGED <<kind, doc, index>>
    BY <1>11 DEF RedisRange, Free
  <2>. DEFINE z == [Idle EXCEPT !.pc = "mget", !.keys = index, !.must = index \cap Stored]
  <2>6. z \in Operation /\ z.pc = "mget" /\ z.keys = index /\ z.must = index \cap Stored
    BY <1>0 DEF Idle, Operation
  <2>7. op' = [op EXCEPT ![w] = z]
    BY <1>11 DEF RedisRange
  <2>. HIDE DEF z
  <2>2. PICK x \in Operation : x = z
    BY <2>6
  <2>3. /\ op' = [op EXCEPT ![w] = x]
        /\ x.pc = "mget" /\ x.keys = index /\ x.must = index \cap Stored
    BY <2>2, <2>6, <2>7
  <2>4. Stored' = Stored
    BY <2>1 DEF Stored
  <2>5. OpSound(x)'
    BY <2>1, <2>3, <2>4 DEF OpSound
  <2>. QED
    BY <1>0, <2>1, <2>3, <2>4, <2>5, OpMoves
<1>12. ASSUME NEW w \in StoreWorkers, RedisMget(w) PROVE Operations'
  <2>1. PICK y \in Operation : y = op[w] /\ OpSound(y) /\ y.pc = "mget"
    BY <1>0, <1>12 DEF Operations, RedisMget
  <2>. DEFINE z == [y EXCEPT !.pc = "prune", !.page = y.keys \cap Stored, !.keys = y.keys \ Stored]
  <2>6. z \in Operation /\ z.pc = "prune" /\ z.page = y.keys \cap Stored /\ z.must = y.must
    BY DEF Operation
  <2>7. op' = [op EXCEPT ![w] = z] /\ UNCHANGED <<kind, doc, index>>
    BY <1>0, <1>12, <2>1 DEF RedisMget, Operation
  <2>. HIDE DEF z
  <2>2. PICK x \in Operation : x = z
    BY <2>6
  <2>3. /\ op' = [op EXCEPT ![w] = x] /\ UNCHANGED <<kind, doc, index>>
        /\ x.pc = "prune" /\ x.page = y.keys \cap Stored /\ x.must = y.must
    BY <2>2, <2>6, <2>7
  <2>4. Stored' = Stored
    BY <2>3 DEF Stored
  <2>5. OpSound(x)'
    BY <2>1, <2>3, <2>4 DEF OpSound
  <2>. QED
    BY <1>0, <2>3, <2>4, <2>5, OpMoves
<1>13. ASSUME NEW w \in StoreWorkers, RedisPrune(w) PROVE Operations'
  <2>0. UNCHANGED <<kind, doc>> /\ Stored' = Stored
    BY <1>13 DEF RedisPrune, Stored
  <2>1. CASE op[w].keys = {}
    <3>1. op' = [op EXCEPT ![w] = Idle] /\ index' = index
      BY <1>13, <2>1 DEF RedisPrune
    <3>. QED
      BY <1>0, <2>0, <3>1, IdleFits, OpMoves
  <2>2. CASE op[w].keys # {}
    <3>1. PICK k : index' = index \ {k} /\ op' = Owed([op EXCEPT ![w].keys = @ \ {k}], {k})
      BY <1>13, <2>2 DEF RedisPrune
    <3>2. PICK y \in Operation : y = op[w] /\ OpSound(y) /\ y.pc = "prune"
      BY <1>0, <1>13 DEF Operations, RedisPrune
    <3>. DEFINE x == [y EXCEPT !.keys = y.keys \ {k}]
    <3>3. x \in Operation /\ x.pc = "prune" /\ x.page = y.page /\ x.must = y.must
      BY <3>2 DEF Operation
    <3>4. op' = Owed([op EXCEPT ![w] = x], {k})
      BY <1>0, <3>1, <3>2
    <3>. HIDE DEF x
    <3>5. Less(x, {k}).pc = "prune" /\ Less(x, {k}).page = y.page /\ Less(x, {k}).must = y.must \ {k}
      BY <3>3 DEF Less, Operation
    <3>6. OpSound(Less(x, {k}))'
      BY <2>0, <3>2, <3>5 DEF OpSound
    <3>7. index' \subseteq TaskKeys
      BY <1>0, <3>1
    <3>. QED
      BY <2>0, <3>3, <3>4, <3>6, <3>7, OpsMove
  <2>. QED
    BY <2>1, <2>2
<1>14. ASSUME NEW k \in TaskKeys, Expire(k) PROVE Operations'
  <2>1. doc' = Without({k}) \/ doc' = doc
    BY <1>14 DEF Expire
  <2>2. Stored \ {k} \subseteq Stored'
    BY <1>1, <2>1 DEF Stored
  <2>. QED
    BY <1>14, <2>2, OpsOwe DEF Expire
<1>15. ASSUME NEW w \in StoreWorkers, NewWalk(w) PROVE Operations'
  BY <1>2, <1>15 DEF NewWalk
<1>16. ASSUME NEW w \in StoreWorkers, NEW k \in TaskKeys, RedisGet(w, k) PROVE Operations'
  BY <1>2, <1>16 DEF RedisGet
<1>17. CASE UNCHANGED svars
  BY <1>2, <1>17 DEF svars
<1>. QED
  BY <1>3, <1>4, <1>5, <1>6, <1>7, <1>8, <1>9, <1>10, <1>11, <1>12, <1>13, <1>14, <1>15, <1>16, <1>17 DEF StoreNext

-----------------------------------------------------------------------------
(* The numbers and the deadlines. *)

\* Snapshots are counted up to the bound; only SQLite keeps a task past its deadline.
Bounds ==
    /\ saves \in [TaskKeys -> 0..MaxSaves] /\ seen \in [StoreWorkers -> [TaskKeys -> 0..MaxSaves]]
    /\ kind = "redis" => fresh = Stored
    /\ IsFiniteSet(fresh)

\* A stored snapshot is within the bound.
LEMMA DocBounded ==
    ASSUME StoreAssumption, SnapshotInv, Bounds
    PROVE  \A k \in TaskKeys : doc[k] \in 0..MaxSaves
<1>. SUFFICES ASSUME NEW k \in TaskKeys PROVE doc[k] \in 0..MaxSaves
  OBVIOUS
<1>1. saves[k] \in 0..MaxSaves /\ doc[k] \in {0, saves[k]}
  BY DEF Bounds, SnapshotInv
<1>. QED
  BY <1>1 DEF StoreAssumption

\* A save adds one snapshot.
LEMMA SaveCounts ==
    ASSUME StoreAssumption, Bounds, NEW k \in TaskKeys, saves[k] < MaxSaves, saves' = [saves EXCEPT ![k] = saves[k] + 1]
    PROVE  saves' \in [TaskKeys -> 0..MaxSaves]
<1>1. MaxSaves \in Nat /\ saves \in [TaskKeys -> 0..MaxSaves]
  BY DEF StoreAssumption, Bounds
<1>2. saves[k] + 1 \in 0..MaxSaves
  BY <1>1
<1>. QED
  BY <1>1, <1>2

\* Every step keeps the numbers within their bounds.
LEMMA BoundsStep ==
    ASSUME StoreAssumption, SnapshotInv, Operations, Bounds, [StoreNext]_svars
    PROVE  Bounds'
<1>0. /\ saves \in [TaskKeys -> 0..MaxSaves] /\ seen \in [StoreWorkers -> [TaskKeys -> 0..MaxSaves]]
      /\ IsFiniteSet(fresh) /\ doc \in [TaskKeys -> Nat] /\ saves \in [TaskKeys -> Nat]
  BY DEF Bounds, SnapshotInv
<1>1. ASSUME NEW k PROVE IsFiniteSet(fresh \cup {k}) /\ IsFiniteSet(fresh \ {k})
  BY <1>0, FS_AddElement, FS_RemoveElement
<1>2. ASSUME UNCHANGED <<kind, doc, fresh, saves, seen>> PROVE Bounds'
  BY <1>2 DEF Bounds, Stored
<1>3. ASSUME NEW w \in StoreWorkers, NEW k \in TaskKeys, SqliteSave(w, k) PROVE Bounds'
  <2>1. kind' = "sqlite" /\ seen' = seen /\ (fresh' = fresh \/ fresh' = fresh \cup {k})
    BY <1>3 DEF SqliteSave, Free
  <2>2. saves' \in [TaskKeys -> 0..MaxSaves]
    BY <1>3, SaveCounts DEF SqliteSave
  <2>3. IsFiniteSet(fresh')
    BY <1>0, <1>1, <2>1
  <2>. QED
    BY <1>0, <2>1, <2>2, <2>3 DEF Bounds
<1>4. ASSUME NEW w \in StoreWorkers, NEW k \in TaskKeys, SqliteGet(w, k) \/ RedisGet(w, k) PROVE Bounds'
  <2>1. /\ UNCHANGED <<kind, doc, fresh, saves>>
        /\ seen' = seen \/ seen' = [seen EXCEPT ![w][k] = doc[k]]
    BY <1>4 DEF SqliteGet, RedisGet
  <2>2. doc[k] \in 0..MaxSaves
    BY DocBounded
  <2>3. seen' \in [StoreWorkers -> [TaskKeys -> 0..MaxSaves]]
    BY <1>0, <2>1, <2>2
  <2>. QED
    BY <2>1, <2>3 DEF Bounds, Stored
<1>5. ASSUME NEW w \in StoreWorkers, SqliteGetPurge(w) PROVE Bounds'
  <2>1. kind = "sqlite"
    BY <1>5 DEF SqliteGetPurge, Operations, OpSound
  <2>2. IsFiniteSet(fresh')
    BY <1>1, <1>5 DEF SqliteGetPurge
  <2>. QED
    BY <1>0, <1>5, <2>1, <2>2 DEF SqliteGetPurge, Bounds
<1>6. ASSUME NEW w \in StoreWorkers, SqlitePurge(w) \/ SqlitePage(w) PROVE Bounds'
  BY <1>6 DEF SqlitePurge, SqlitePage, Free, Bounds
<1>7. ASSUME NEW w \in StoreWorkers, NEW k \in TaskKeys, SqliteDelete(w, k) PROVE Bounds'
  BY <1>0, <1>1, <1>7 DEF SqliteDelete, Free, Bounds
<1>8. ASSUME NEW w \in StoreWorkers, NEW k \in TaskKeys, RedisSet(w, k) PROVE Bounds'
  <2>1. /\ kind = "redis" /\ UNCHANGED <<kind, seen>> /\ fresh' = fresh \cup {k}
        /\ doc' = [doc EXCEPT ![k] = saves[k] + 1]
    BY <1>8 DEF RedisSet, Free
  <2>2. saves' \in [TaskKeys -> 0..MaxSaves]
    BY <1>8, SaveCounts DEF RedisSet
  <2>3. saves[k] + 1 # 0
    BY <1>0
  <2>4. Stored' = Stored \cup {k}
    BY <1>0, <2>1, <2>3 DEF Stored
  <2>5. IsFiniteSet(fresh')
    BY <1>1, <2>1
  <2>. QED
    BY <1>0, <2>1, <2>2, <2>4, <2>5 DEF Bounds
<1>9. ASSUME NEW k \in TaskKeys, doc' = IF kind = "redis" THEN Without({k}) ELSE doc,
             fresh' = fresh \ {k}, UNCHANGED <<kind, saves, seen>>
      PROVE  Bounds'
  <2>1. kind = "redis" => Stored' = Stored \ {k}
    BY <1>0, <1>9 DEF Stored, Without
  <2>2. IsFiniteSet(fresh')
    BY <1>1, <1>9
  <2>. QED
    BY <1>0, <1>9, <2>1, <2>2 DEF Bounds
<1>10. ASSUME NEW w \in StoreWorkers, NEW k \in TaskKeys, RedisDel(w, k) PROVE Bounds'
  BY <1>9, <1>10 DEF RedisDel, Free
<1>11. ASSUME NEW k \in TaskKeys, Expire(k) PROVE Bounds'
  BY <1>9, <1>11 DEF Expire
<1>12. ASSUME NEW w \in StoreWorkers,
             NewWalk(w) \/ RedisZadd(w) \/ RedisZrem(w) \/ RedisRange(w) \/ RedisMget(w) \/ RedisPrune(w) \/ WorkerStops(w)
      PROVE  UNCHANGED <<kind, doc, fresh, saves, seen>>
  BY <1>12 DEF NewWalk, RedisZadd, RedisZrem, RedisRange, RedisMget, RedisPrune, WorkerStops
<1>13. CASE UNCHANGED svars
  BY <1>2, <1>13 DEF svars
<1>. QED
  BY <1>2, <1>3, <1>4, <1>5, <1>6, <1>7, <1>8, <1>10, <1>11, <1>12, <1>13 DEF StoreNext

-----------------------------------------------------------------------------
(* The order of the saves. *)

Known == {k \in TaskKeys : saves[k] > 0}

\* The times of the last saves order the tasks that were ever saved.
Ordered ==
    /\ newer \subseteq Known \X Known
    /\ \A a \in Known : <<a, a>> \notin newer
    /\ \A a, b, c \in Known : <<a, b>> \in newer /\ <<b, c>> \in newer => <<a, c>> \in newer
    /\ kind = "sqlite" => \A a, b \in Known : a = b \/ <<a, b>> \in newer \/ <<b, a>> \in newer

\* A task within its deadline was saved.
LEMMA FreshKnown ==
    ASSUME SnapshotInv
    PROVE  fresh \subseteq Known /\ Known \subseteq TaskKeys
<1>. SUFFICES ASSUME NEW k \in fresh PROVE k \in TaskKeys /\ saves[k] > 0
  BY DEF Known
<1>1. k \in TaskKeys /\ doc[k] # 0
  BY DEF SnapshotInv, Stored
<1>2. doc[k] = saves[k] /\ saves[k] \in Nat
  BY <1>1 DEF SnapshotInv
<1>. QED
  BY <1>1, <1>2

\* The save of k makes k the newest task and leaves the order of the others.
LEMMA LatestStep ==
    ASSUME Ordered, NEW k \in TaskKeys, Latest(k), saves \in [TaskKeys -> Nat],
           saves' = [saves EXCEPT ![k] = saves[k] + 1], kind' = kind
    PROVE  /\ Ordered'
           /\ \A a \in Known \ {k} : <<k, a>> \in newer'
           /\ \A a, b \in TaskKeys \ {k} : <<a, b>> \in newer' <=> <<a, b>> \in newer
<1>1. \A a, b \in TaskKeys : <<a, b>> \in newer' <=> b # k /\ IF a = k THEN saves[b] > 0 ELSE <<a, b>> \in newer
  BY DEF Latest
<1>2. newer' \subseteq TaskKeys \X TaskKeys
  BY DEF Latest
<1>3. Known' = Known \cup {k}
  <2>1. \A a \in TaskKeys : saves'[a] > 0 <=> a = k \/ saves[a] > 0
    OBVIOUS
  <2>. QED
    BY <2>1 DEF Known
<1>4. \A a \in TaskKeys : saves[a] > 0 <=> a \in Known
  BY DEF Known
<1>5. Known \subseteq TaskKeys
  BY DEF Known
<1>6. newer \subseteq Known \X Known
  BY DEF Ordered
<1>7. \A a, b \in TaskKeys : <<a, b>> \in newer' <=> b # k /\ IF a = k THEN b \in Known ELSE <<a, b>> \in newer
  BY <1>1, <1>4
<1>8. newer' \subseteq Known' \X Known'
  <2>. SUFFICES ASSUME NEW a \in TaskKeys, NEW b \in TaskKeys, <<a, b>> \in newer' PROVE a \in Known' /\ b \in Known'
    BY <1>2
  <2>. QED
    BY <1>3, <1>6, <1>7
<1>9. \A a \in Known' : <<a, a>> \notin newer'
  BY <1>3, <1>5, <1>7 DEF Ordered
<1>10. \A a, b, c \in Known' : <<a, b>> \in newer' /\ <<b, c>> \in newer' => <<a, c>> \in newer'
  <2>. SUFFICES ASSUME NEW a \in Known', NEW b \in Known', NEW c \in Known', <<a, b>> \in newer', <<b, c>> \in newer'
                PROVE  <<a, c>> \in newer'
    OBVIOUS
  <2>1. a \in TaskKeys /\ b \in TaskKeys /\ c \in TaskKeys /\ b # k /\ c # k /\ <<b, c>> \in newer
    BY <1>3, <1>5, <1>7
  <2>2. b \in Known /\ c \in Known
    BY <1>6, <2>1
  <2>3. CASE a = k
    BY <1>7, <2>1, <2>2, <2>3
  <2>4. CASE a # k
    <3>1. <<a, b>> \in newer /\ a \in Known
      BY <1>6, <1>7, <2>1, <2>4
    <3>2. <<a, c>> \in newer
      BY <2>1, <2>2, <3>1 DEF Ordered
    <3>. QED
      BY <1>7, <2>1, <2>4, <3>2
  <2>. QED
    BY <2>3, <2>4
<1>11. kind = "sqlite" => \A a, b \in Known' : a = b \/ <<a, b>> \in newer' \/ <<b, a>> \in newer'
  BY <1>3, <1>5, <1>7 DEF Ordered
<1>. QED
  BY <1>5, <1>7, <1>8, <1>9, <1>10, <1>11 DEF Ordered

\* Every step keeps the order of the saves.
LEMMA OrderedStep ==
    ASSUME SnapshotInv, Ordered, [StoreNext]_svars
    PROVE  Ordered'
<1>1. ASSUME UNCHANGED <<kind, saves, newer>> PROVE Ordered'
  <2>1. Known' = Known
    BY <1>1 DEF Known
  <2>. QED
    BY <1>1, <2>1 DEF Ordered
<1>2. ASSUME NEW w \in StoreWorkers, NEW k \in TaskKeys, SqliteSave(w, k) PROVE Ordered'
  <2>1. Latest(k) /\ saves' = [saves EXCEPT ![k] = saves[k] + 1] /\ kind' = kind
    BY <1>2 DEF SqliteSave
  <2>2. saves \in [TaskKeys -> Nat]
    BY DEF SnapshotInv
  <2>. QED
    BY <2>1, <2>2, LatestStep
<1>3. ASSUME NEW w \in StoreWorkers, NEW k \in TaskKeys, RedisSet(w, k) PROVE Ordered'
  <2>1. kind' = "redis" /\ saves' = [saves EXCEPT ![k] = saves[k] + 1] /\ newer' = newer
    BY <1>3 DEF RedisSet, Free, paging
  <2>2. saves \in [TaskKeys -> Nat]
    BY DEF SnapshotInv
  <2>3. Known \subseteq Known'
    BY <2>1, <2>2 DEF Known
  <2>4. \A a, b \in Known' : <<a, b>> \in newer => a \in Known /\ b \in Known
    BY DEF Ordered
  <2>. QED
    BY <2>1, <2>3, <2>4 DEF Ordered
<1>4. ASSUME NEW w \in StoreWorkers,
             SqliteGetPurge(w) \/ SqlitePurge(w) \/ SqlitePage(w) \/ NewWalk(w) \/ RedisZadd(w) \/ RedisZrem(w)
             \/ RedisRange(w) \/ RedisMget(w) \/ RedisPrune(w) \/ WorkerStops(w)
      PROVE  UNCHANGED <<kind, saves, newer>>
  BY <1>4 DEF SqliteGetPurge, SqlitePurge, SqlitePage, NewWalk, RedisZadd, RedisZrem, RedisRange, RedisMget, RedisPrune,
              WorkerStops, paging
<1>5. ASSUME NEW w \in StoreWorkers, NEW k \in TaskKeys,
             SqliteGet(w, k) \/ SqliteDelete(w, k) \/ RedisGet(w, k) \/ RedisDel(w, k)
      PROVE  UNCHANGED <<kind, saves, newer>>
  BY <1>5 DEF SqliteGet, SqliteDelete, RedisGet, RedisDel, paging
<1>6. ASSUME NEW k \in TaskKeys, Expire(k) PROVE UNCHANGED <<kind, saves, newer>>
  BY <1>6 DEF Expire
<1>7. CASE UNCHANGED svars
  BY <1>1, <1>7 DEF svars
<1>. QED
  BY <1>1, <1>2, <1>3, <1>4, <1>5, <1>6, <1>7 DEF StoreNext

\* Before(k, S): the tasks of S that come before k.
Before(k, S) == {j \in S : <<j, k>> \in newer}

\* A listing has a first task, unless it is empty.
LEMMA FirstIsThere ==
    ASSUME SnapshotInv, Bounds, Ordered, NEW S \in SUBSET fresh, S # {}
    PROVE  First(S) \in S /\ \A j \in S : <<j, First(S)>> \notin newer
<1>. DEFINE R == OpToRel(<, Nat)
            Rank(k) == Cardinality(Before(k, S))
            T == {Rank(k) : k \in S}
<1>0. IsFiniteSet(S) /\ S \subseteq Known
  BY FS_Subset, FreshKnown DEF Bounds
<1>1. IsWellFoundedOn(R, Nat)
  BY NatLessThanWellFounded
<1>2. \A a, b \in Nat : <<a, b>> \in R <=> a < b
  BY DEF OpToRel
<1>3. ASSUME NEW k \in S PROVE IsFiniteSet(Before(k, S)) /\ Rank(k) \in Nat
  <2>1. IsFiniteSet(Before(k, S))
    <3>1. Before(k, S) \subseteq S
      BY DEF Before
    <3>. QED
      BY <1>0, <3>1, FS_Subset
  <2>. QED
    BY <2>1, FS_CardinalityType
<1>4. ASSUME NEW j \in S, NEW k \in S, <<j, k>> \in newer PROVE Rank(j) < Rank(k)
  <2>1. Before(j, S) \subseteq Before(k, S)
    <3>. SUFFICES ASSUME NEW i \in S, <<i, j>> \in newer PROVE <<i, k>> \in newer
      BY DEF Before
    <3>. QED
      BY <1>0, <1>4 DEF Ordered
  <2>2. j \in Before(k, S) /\ j \notin Before(j, S)
    BY <1>0, <1>4 DEF Before, Ordered
  <2>3. IsFiniteSet(Before(k, S)) /\ Before(j, S) # Before(k, S)
    BY <1>3, <2>2
  <2>4. Cardinality(Before(j, S)) <= Cardinality(Before(k, S))
        /\ (Cardinality(Before(k, S)) = Cardinality(Before(j, S)) => Before(k, S) = Before(j, S))
    BY <2>1, <2>3, FS_Subset
  <2>. QED
    BY <1>3, <2>3, <2>4
<1>5. T \subseteq Nat /\ T # {}
  BY <1>3
<1>. HIDE DEF R, T, Rank
<1>6. PICK a \in T : \A b \in T : ~(<<b, a>> \in R)
  BY <1>1, <1>5, WFMin
<1>7. PICK k \in S : a = Rank(k)
  BY DEF T
<1>8. ASSUME NEW j \in S PROVE <<j, k>> \notin newer
  <2>1. Rank(j) \in T /\ Rank(j) \in Nat /\ Rank(k) \in Nat
    BY <1>3 DEF T
  <2>2. ~(Rank(j) < Rank(k))
    BY <1>2, <1>6, <1>7, <2>1
  <2>. QED
    BY <1>4, <2>2
<1>. QED
  BY <1>7, <1>8 DEF First

-----------------------------------------------------------------------------
(* The walks over the pages of a listing. *)

Walk == [token : TaskKeys \cup {"none", "end"}, got : SUBSET TaskKeys, must : SUBSET TaskKeys]

\* What a walk owes and has not got comes at the task of its token or after it; the
\* token may name a task that is gone, and then the next page is refused.
WalkSound(x) ==
    /\ x.token # "none" => kind = "sqlite"
    /\ x.token \in TaskKeys =>
          /\ x.must \subseteq fresh
          /\ x.token \in fresh => \A k \in x.must \ x.got : k = x.token \/ <<x.token, k>> \in newer
    /\ x.token = "end" => x.must \subseteq x.got

Walks == walk \in [StoreWorkers -> Walk] /\ \A w \in StoreWorkers : WalkSound(walk[w])

Drop(x, gone) == [x EXCEPT !.must = x.must \ gone]

\* Tasks are saved or leave the store, and no walk owes them.
LEMMA WalksTouched ==
    ASSUME Walks, NEW gone, Touch(gone), kind' = kind, fresh \ gone \subseteq fresh',
           \A a \in fresh', b \in fresh \ gone :
               IF a \in fresh THEN <<a, b>> \in newer => <<a, b>> \in newer' ELSE a = b \/ <<a, b>> \in newer'
    PROVE  Walks'
<1>0. walk \in [StoreWorkers -> Walk]
  BY DEF Walks
<1>1. walk' = [v \in StoreWorkers |-> Drop(walk[v], gone)]
  BY DEF Touch, Drop
<1>2. ASSUME NEW v \in StoreWorkers PROVE walk'[v] \in Walk /\ WalkSound(walk[v])'
  <2>1. PICK y \in Walk : y = walk[v] /\ WalkSound(y)
    BY <1>0 DEF Walks
  <2>2. PICK z : z = Drop(y, gone)
    OBVIOUS
  <2>3. z \in Walk /\ z.token = y.token /\ z.got = y.got /\ z.must = y.must \ gone
    BY <2>2 DEF Drop, Walk
  <2>4. walk'[v] = z
    BY <1>1, <2>1, <2>2
  <2>5. ASSUME y.token \in TaskKeys
        PROVE  /\ z.must \subseteq fresh'
               /\ y.token \in fresh' => \A k \in z.must \ z.got : k = y.token \/ <<y.token, k>> \in newer'
    <3>1. /\ y.must \subseteq fresh
          /\ y.token \in fresh => \A k \in y.must \ y.got : k = y.token \/ <<y.token, k>> \in newer
      BY <2>1, <2>5 DEF WalkSound
    <3>. QED
      BY <2>3, <3>1
  <2>6. WalkSound(z)'
    BY <2>1, <2>3, <2>5 DEF WalkSound
  <2>. QED
    BY <2>3, <2>4, <2>6 DEF WalkSound
<1>3. walk' \in [StoreWorkers -> Walk]
  BY <1>1, <1>2
<1>4. \A v \in StoreWorkers : WalkSound(walk[v])'
  BY <1>2
<1>. QED
  BY <1>3, <1>4 DEF Walks

\* One worker goes on with the walk x.
LEMMA WalkMoves ==
    ASSUME Walks, NEW w \in StoreWorkers, NEW x \in Walk, walk' = [walk EXCEPT ![w] = x],
           UNCHANGED <<kind, fresh, newer>>, WalkSound(x)
    PROVE  Walks'
<1>0. walk \in [StoreWorkers -> Walk]
  BY DEF Walks
<1>1. walk' \in [StoreWorkers -> Walk] /\ \A v \in StoreWorkers : walk'[v] = IF v = w THEN x ELSE walk[v]
  BY <1>0
<1>2. ASSUME NEW v \in StoreWorkers PROVE WalkSound(walk[v])'
  <2>1. PICK y : y = walk'[v]
    OBVIOUS
  <2>2. WalkSound(y)
    BY <1>1, <2>1 DEF Walks
  <2>3. WalkSound(y)'
    BY <2>2 DEF WalkSound
  <2>. QED
    BY <2>1, <2>3 DEF WalkSound
<1>. QED
  BY <1>1, <1>2 DEF Walks

\* A walk that has not begun is sound.
LEMMA NoWalkFits == StoreAssumption => NoWalk \in Walk /\ WalkSound(NoWalk)
  BY DEF StoreAssumption, NoWalk, Walk, WalkSound

\* One page of list() takes a walk on: what it still owes is on the pages to come.
LEMMA PageFits ==
    ASSUME StoreAssumption, SnapshotInv, Bounds, Ordered, kind = "sqlite", NEW y \in Walk, WalkSound(y), y.token # "end",
           y.token \in fresh \cup {"none"},
           NEW rest, rest = From(y.token) \ Page(y.token),
           NEW x, x = [token |-> IF rest = {} THEN "end" ELSE First(rest), got |-> y.got \cup Page(y.token),
                       must |-> IF y.token = "none" THEN fresh ELSE y.must]
    PROVE  x \in Walk /\ WalkSound(x)
<1>0. fresh \subseteq Known /\ Known \subseteq TaskKeys /\ "none" \notin TaskKeys /\ "end" \notin TaskKeys
  BY FreshKnown DEF StoreAssumption
<1>1. /\ x.token = (IF rest = {} THEN "end" ELSE First(rest)) /\ x.got = y.got \cup Page(y.token)
      /\ x.must = IF y.token = "none" THEN fresh ELSE y.must
  OBVIOUS
<1>2. From(y.token) \subseteq fresh /\ Page(y.token) \subseteq fresh
  BY DEF From, Page
<1>3. rest # {} => First(rest) \in rest /\ \A j \in rest : <<j, First(rest)>> \notin newer
  <2>1. rest \in SUBSET fresh
    BY <1>2
  <2>. QED
    BY <2>1, FirstIsThere
<1>4. x.must \subseteq fresh
  BY <1>0, <1>1 DEF WalkSound
<1>5. x \in Walk
  BY <1>0, <1>2, <1>3, <1>4 DEF Walk
<1>6. ASSUME NEW k \in x.must \ x.got PROVE k \in rest
  <2>1. k \in fresh /\ k \notin y.got /\ k \notin Page(y.token)
    BY <1>1, <1>4
  <2>2. k \in From(y.token)
    <3>1. CASE y.token = "none"
      BY <2>1, <3>1 DEF From
    <3>2. CASE y.token # "none"
      <4>1. y.token \in TaskKeys /\ y.token \in fresh /\ k \in y.must
        BY <1>0, <1>1, <3>2
      <4>2. k = y.token \/ <<y.token, k>> \in newer
        BY <2>1, <4>1 DEF WalkSound
      <4>. QED
        BY <2>1, <4>2 DEF From
    <3>. QED
      BY <3>1, <3>2
  <2>. QED
    BY <2>1, <2>2
<1>7. CASE rest = {}
  <2>1. x.token = "end"
    BY <1>1, <1>7
  <2>2. x.must \subseteq x.got
    BY <1>6, <1>7
  <2>. QED
    BY <1>0, <1>5, <2>1, <2>2 DEF WalkSound
<1>8. CASE rest # {}
  <2>1. x.token = First(rest) /\ x.token \in rest
    BY <1>1, <1>3, <1>8
  <2>2. x.token \in Known /\ x.token # "end" /\ rest \subseteq Known
    BY <1>0, <1>2, <2>1
  <2>3. ASSUME NEW k \in x.must \ x.got PROVE k = x.token \/ <<x.token, k>> \in newer
    <3>1. k \in rest /\ <<k, x.token>> \notin newer
      BY <1>3, <1>6, <1>8, <2>1
    <3>. QED
      BY <2>2, <3>1 DEF Ordered
  <2>. QED
    BY <1>4, <1>5, <2>2, <2>3 DEF WalkSound
<1>. QED
  BY <1>7, <1>8

\* Every step of a store keeps the walks sound.
LEMMA WalksStep ==
    ASSUME StoreAssumption, SnapshotInv, Operations, Bounds, Ordered, Walks, [StoreNext]_svars
    PROVE  Walks'
<1>0. walk \in [StoreWorkers -> Walk] /\ fresh \subseteq Known /\ Known \subseteq TaskKeys
  BY FreshKnown DEF Walks
<1>1. ASSUME UNCHANGED <<kind, fresh, newer, walk>> PROVE Walks'
  BY <1>1 DEF Walks, WalkSound
<1>2. ASSUME kind = "redis", UNCHANGED <<kind, walk>> PROVE Walks'
  <2>1. \A v \in StoreWorkers : walk[v].token = "none"
    BY <1>2 DEF Walks, WalkSound
  <2>2. "none" \notin TaskKeys
    BY DEF StoreAssumption
  <2>. QED
    BY <1>2, <2>1, <2>2 DEF Walks, WalkSound
<1>3. ASSUME NEW k, fresh' = fresh \ {k}, Touch({k}), UNCHANGED <<kind, newer>> PROVE Walks'
  BY <1>3, WalksTouched
<1>4. ASSUME NEW w \in StoreWorkers, NEW k \in TaskKeys, SqliteSave(w, k) PROVE Walks'
  <2>1. /\ Latest(k) /\ saves' = [saves EXCEPT ![k] = saves[k] + 1] /\ Touch({k}) /\ kind' = kind
        /\ fresh' = fresh \/ fresh' = fresh \cup {k}
    BY <1>4 DEF SqliteSave
  <2>2. saves \in [TaskKeys -> Nat]
    BY DEF SnapshotInv
  <2>3. /\ \A a \in Known \ {k} : <<k, a>> \in newer'
        /\ \A a, b \in TaskKeys \ {k} : <<a, b>> \in newer' <=> <<a, b>> \in newer
    BY <2>1, <2>2, LatestStep
  <2>4. \A a \in fresh', b \in fresh \ {k} :
            IF a \in fresh THEN <<a, b>> \in newer => <<a, b>> \in newer' ELSE a = b \/ <<a, b>> \in newer'
    BY <1>0, <2>1, <2>3
  <2>. QED
    BY <2>1, <2>4, WalksTouched
<1>5. ASSUME NEW w \in StoreWorkers, SqlitePage(w) PROVE Walks'
  <2>1. PICK y \in Walk : y = walk[w] /\ WalkSound(y)
    BY <1>0 DEF Walks
  <2>2. kind = "sqlite" /\ y.token # "end" /\ UNCHANGED <<kind, fresh, newer>>
    BY <1>5, <2>1 DEF SqlitePage, Free
  <2>3. PICK rest : rest = From(y.token) \ Page(y.token)
    OBVIOUS
  <2>4. PICK x : x = [token |-> IF rest = {} THEN "end" ELSE First(rest), got |-> y.got \cup Page(y.token),
                      must |-> IF y.token = "none" THEN fresh ELSE y.must]
    OBVIOUS
  <2>5. walk' = [walk EXCEPT ![w] = IF y.token \notin fresh \cup {"none"} THEN NoWalk ELSE x]
    BY <1>0, <1>5, <2>1, <2>3, <2>4 DEF SqlitePage
  <2>6. CASE y.token \notin fresh \cup {"none"}
    BY <2>2, <2>5, <2>6, NoWalkFits, WalkMoves
  <2>7. CASE y.token \in fresh \cup {"none"}
    <3>1. x \in Walk /\ WalkSound(x)
      BY <2>1, <2>2, <2>3, <2>4, <2>7, PageFits
    <3>. QED
      BY <2>2, <2>5, <2>7, <3>1, WalkMoves
  <2>. QED
    BY <2>6, <2>7
<1>6. ASSUME NEW w \in StoreWorkers, NewWalk(w) PROVE Walks'
  BY <1>6, NoWalkFits, WalkMoves DEF NewWalk
<1>7. ASSUME NEW w \in StoreWorkers, SqliteGetPurge(w) PROVE Walks'
  BY <1>3, <1>7 DEF SqliteGetPurge
<1>8. ASSUME NEW w \in StoreWorkers, NEW k \in TaskKeys, SqliteDelete(w, k) PROVE Walks'
  BY <1>3, <1>8 DEF SqliteDelete
<1>9. ASSUME NEW k \in TaskKeys, Expire(k) PROVE Walks'
  BY <1>3, <1>9 DEF Expire
<1>10. ASSUME NEW w \in StoreWorkers, NEW k \in TaskKeys, RedisSet(w, k) \/ RedisDel(w, k) PROVE Walks'
  BY <1>2, <1>10 DEF RedisSet, RedisDel, Free, paging
<1>11. ASSUME NEW w \in StoreWorkers,
              SqlitePurge(w) \/ RedisZadd(w) \/ RedisZrem(w) \/ RedisRange(w) \/ RedisMget(w) \/ RedisPrune(w)
              \/ WorkerStops(w)
       PROVE  UNCHANGED <<kind, fresh, newer, walk>>
  BY <1>11 DEF SqlitePurge, RedisZadd, RedisZrem, RedisRange, RedisMget, RedisPrune, WorkerStops, paging
<1>12. ASSUME NEW w \in StoreWorkers, NEW k \in TaskKeys, SqliteGet(w, k) \/ RedisGet(w, k)
       PROVE  UNCHANGED <<kind, fresh, newer, walk>>
  BY <1>12 DEF SqliteGet, RedisGet, paging
<1>13. CASE UNCHANGED svars
  BY <1>1, <1>13 DEF svars
<1>. QED
  BY <1>1, <1>4, <1>5, <1>6, <1>7, <1>8, <1>9, <1>10, <1>11, <1>12, <1>13 DEF StoreNext

\* The inductive invariant of the listings.
ListingsInv == SnapshotInv /\ Operations /\ Bounds /\ Ordered /\ Walks

\* The inductive invariant gives the property.
LEMMA ListingsImplied ==
    ASSUME StoreAssumption, ListingsInv
    PROVE  ListingsComplete
<1>1. StoreTypeOK
  <2>1. doc \in [TaskKeys -> 0..MaxSaves]
    BY DocBounded DEF ListingsInv, SnapshotInv
  <2>2. fresh \subseteq Stored /\ (kind = "redis" => fresh = Stored)
    BY DEF ListingsInv, SnapshotInv, Bounds
  <2>3. newer \subseteq TaskKeys \X TaskKeys
    BY DEF ListingsInv, Ordered, Known
  <2>4. kind \in StoreBackends /\ index \subseteq TaskKeys /\ op \in [StoreWorkers -> Operation]
    BY DEF ListingsInv, Operations
  <2>5. walk \in [StoreWorkers -> Walk]
    BY DEF ListingsInv, Walks
  <2>6. saves \in [TaskKeys -> 0..MaxSaves] /\ seen \in [StoreWorkers -> [TaskKeys -> 0..MaxSaves]]
    BY DEF ListingsInv, Bounds
  <2>. QED
    BY <2>1, <2>2, <2>3, <2>4, <2>5, <2>6 DEF StoreTypeOK, Stored, Operation, Walk
<1>2. ListComplete
  BY DEF ListingsInv, Operations, OpSound, ListComplete
<1>3. PagesComplete
  BY DEF ListingsInv, Walks, WalkSound, PagesComplete
<1>. QED
  BY <1>1, <1>2, <1>3 DEF ListingsComplete

\* A listing, in one answer or page by page, misses no task that was there all the
\* time, for any number of workers and tasks and any page size: list() against save,
\* delete, expiry, purge and the end of a worker between two commands (ListingsComplete).
THEOREM ListingsAreComplete ==
    ASSUME StoreAssumption
    PROVE  StoreSpec => []ListingsComplete
<1>1. StoreInit => ListingsInv
  <2>. SUFFICES ASSUME StoreInit PROVE ListingsInv
    OBVIOUS
  <2>1. SnapshotInv
    BY DEF StoreInit, SnapshotInv, Stored
  <2>2. Operations
    <3>1. \A w \in StoreWorkers : op[w] = Idle
      BY DEF StoreInit
    <3>. QED
      BY <3>1, IdleFits DEF StoreInit, Operations
  <2>3. Bounds
    <3>1. IsFiniteSet(fresh)
      BY FS_EmptySet DEF StoreInit
    <3>2. 0 \in 0..MaxSaves
      BY DEF StoreAssumption
    <3>3. fresh = Stored
      BY DEF StoreInit, Stored
    <3>. QED
      BY <3>1, <3>2, <3>3 DEF StoreInit, Bounds
  <2>4. Ordered
    <3>1. newer = {} /\ Known = {}
      BY DEF StoreInit, Known
    <3>. QED
      BY <3>1 DEF Ordered
  <2>5. Walks
    <3>1. \A w \in StoreWorkers : walk[w] = NoWalk
      BY DEF StoreInit
    <3>. QED
      BY <3>1, NoWalkFits DEF StoreInit, Walks
  <2>. QED
    BY <2>1, <2>2, <2>3, <2>4, <2>5 DEF ListingsInv
<1>2. ListingsInv /\ [StoreNext]_svars => ListingsInv'
  BY SnapshotStep, OperationsStep, BoundsStep, OrderedStep, WalksStep DEF ListingsInv
<1>3. ListingsInv => ListingsComplete
  BY ListingsImplied
<1>. QED
  BY <1>1, <1>2, <1>3, PTL DEF StoreSpec

-------------------------------------------------------------------------------
(* Texts put together from their pieces.                                      *)

\* f collects the pieces of s from the first on.
Collects(f, s) == f[0] = <<>> /\ \A i \in 1..Len(s) : f[i] = f[i - 1] \o s[i]

\* The recursion of FlattenSeq is well defined.
LEMMA FlattenSteps ==
    ASSUME NEW A, NEW s \in Seq(Seq(A))
    PROVE  \E f \in [0..Len(s) -> Seq(A)] : FlattenSeq(s) = f[Len(s)] /\ Collects(f, s)
<1>. DEFINE n == Len(s)
            h == [p \in Seq(A) \X (1..n) |-> p[1] \o s[p[2]]]
            Step(g) == [i \in 1..n |-> IF i = 1 THEN s[i] ELSE g[i - 1] \o s[i]]
            F == CHOOSE g : g = Step(g)
<1>0. n \in Nat /\ \A i \in 1..n : s[i] \in Seq(A)
  OBVIOUS
<1>1. h \in [Seq(A) \X (1..n) -> Seq(A)]
  BY <1>0
<1>2. PICK f \in [0..n -> Seq(A)] : Recurses(f, n, <<>>, h)
  <2>1. <<>> \in Seq(A)
    OBVIOUS
  <2>. HIDE DEF h, n
  <2>. QED
    BY <1>0, <1>1, <2>1, Recursion
<1>3. Collects(f, s)
  <2>1. ASSUME NEW i \in 1..n PROVE f[i] = f[i - 1] \o s[i]
    <3>1. f[i] = h[<<f[i - 1], i>>]
      <4>. HIDE DEF h
      <4>. QED
        BY <1>2 DEF Recurses
    <3>2. f[i - 1] \in Seq(A)
      <4>1. i - 1 \in 0..n
        BY <1>0
      <4>. HIDE DEF h, n
      <4>. QED
        BY <1>2, <4>1
    <3>. QED
      BY <3>1, <3>2
  <2>. QED
    BY <1>2, <2>1 DEF Collects, Recurses
<1>4. CASE n = 0
  <2>1. FlattenSeq(s) = s /\ s = <<>>
    BY <1>4 DEF FlattenSeq
  <2>. QED
    BY <1>3, <1>4, <2>1 DEF Collects
<1>5. CASE n # 0
  <2>0. 1 \in 1..n
    BY <1>0, <1>5
  <2>. DEFINE r == [i \in 1..n |-> f[i]]
  <2>1. r = Step(r)
    <3>1. ASSUME NEW i \in 1..n PROVE f[i] = IF i = 1 THEN s[i] ELSE r[i - 1] \o s[i]
      <4>1. f[i] = f[i - 1] \o s[i]
        BY <1>3 DEF Collects
      <4>2. CASE i = 1
        BY <1>0, <1>3, <4>1, <4>2, ConcatEmptySeq DEF Collects
      <4>3. CASE i # 1
        <5>1. i - 1 \in 1..n
          BY <1>0, <4>3
        <5>. QED
          BY <4>1, <4>3, <5>1
      <4>. QED
        BY <4>2, <4>3
    <3>. QED
      BY <3>1
  <2>2. F = Step(F)
    <3>. HIDE DEF Step, r
    <3>. QED
      BY <2>1
  <2>3. \A i \in 1..n : F[i] = IF i = 1 THEN s[i] ELSE F[i - 1] \o s[i]
    <3>. HIDE DEF F
    <3>. QED
      BY <2>2
  <2>. DEFINE Same == {i \in 0..n : i = 0 \/ F[i] = f[i]}
  <2>4. 0 \in Same
    BY <1>0
  <2>5. \A k \in 0..n : k \in Same /\ k < n => k + 1 \in Same
    <3>. HIDE DEF F
    <3>. SUFFICES ASSUME NEW k \in 0..n, k \in Same, k < n PROVE k + 1 \in Same
      BY Zenon
    <3>1. k + 1 \in 1..n /\ k + 1 \in 0..n /\ (k + 1) - 1 = k
      BY <1>0
    <3>2. f[k + 1] = f[k] \o s[k + 1]
      BY <1>3, <3>1 DEF Collects
    <3>3. CASE k = 0
      <4>1. F[1] = s[1] /\ f[1] = s[1]
        <5>1. <<>> \o s[1] = s[1]
          BY <1>0, <2>0, ConcatEmptySeq
        <5>2. f[1] = <<>> \o s[1]
          <6>1. f[0] = <<>> /\ k + 1 = 1
            BY <1>3, <3>3 DEF Collects
          <6>. QED
            BY <3>2, <3>3, <6>1, Zenon
        <5>3. F[1] = s[1]
          BY <2>0, <2>3
        <5>. QED
          BY <5>1, <5>2, <5>3
      <4>. QED
        BY <3>1, <3>3, <4>1
    <3>4. CASE k # 0
      <4>1. k + 1 # 1 /\ F[k] = f[k]
        BY <3>4, <1>0
      <4>2. F[k + 1] = F[k] \o s[k + 1]
        BY <2>3, <3>1, <4>1
      <4>. QED
        BY <3>1, <3>2, <4>1, <4>2
    <3>. QED
      BY <3>3, <3>4
  <2>6. F[n] = f[n]
    <3>1. n \in 0..n
      BY <1>0
    <3>2. n \in Same
      <4>. HIDE DEF Same, n
      <4>. QED
        BY <1>0, <2>4, <2>5, <3>1, Induction
    <3>. QED
      BY <1>5, <3>2
  <2>7. FlattenSeq(s) = F[n]
    BY <1>5 DEF FlattenSeq
  <2>. HIDE DEF F
  <2>. QED
    BY <1>3, <2>6, <2>7
<1>. QED
  BY <1>4, <1>5

\* One more piece comes after the others.
LEMMA FlattenAppend ==
    ASSUME NEW A, NEW s \in Seq(Seq(A)), NEW x \in Seq(A)
    PROVE  FlattenSeq(s) \in Seq(A) /\ FlattenSeq(Append(s, x)) = FlattenSeq(s) \o x
<1>. DEFINE t == Append(s, x)  n == Len(s)
<1>1. t \in Seq(Seq(A)) /\ Len(t) = n + 1 /\ n \in Nat /\ t[n + 1] = x /\ \A i \in 1..n : t[i] = s[i]
  OBVIOUS
<1>2. PICK f \in [0..n -> Seq(A)] : FlattenSeq(s) = f[n] /\ Collects(f, s)
  BY FlattenSteps
<1>. HIDE DEF t
<1>3. PICK g \in [0..Len(t) -> Seq(A)] : FlattenSeq(t) = g[Len(t)] /\ Collects(g, t)
  BY <1>1, FlattenSteps
<1>. DEFINE Same == {i \in 0..n : g[i] = f[i]}
<1>4. 0 \in Same
  BY <1>1, <1>2, <1>3 DEF Collects
<1>5. \A k \in 0..n : k \in Same /\ k < n => k + 1 \in Same
  <2>. SUFFICES ASSUME NEW k \in 0..n, k \in Same, k < n PROVE k + 1 \in Same
    BY Zenon
  <2>1. k + 1 \in 1..n /\ k + 1 \in 1..Len(t) /\ (k + 1) - 1 = k /\ t[k + 1] = s[k + 1]
    BY <1>1
  <2>2. f[k + 1] = f[k] \o s[k + 1] /\ g[k + 1] = g[k] \o t[k + 1]
    BY <1>2, <1>3, <2>1 DEF Collects
  <2>3. g[k] = f[k] /\ k + 1 \in 0..n
    BY <2>1
  <2>4. g[k + 1] = f[k + 1]
    BY <2>1, <2>2, <2>3, Zenon
  <2>. QED
    BY <2>3, <2>4, Zenon
<1>6. g[n] = f[n] /\ n \in 0..n
  <2>1. n \in 0..n
    BY <1>1
  <2>2. n \in Same
    <3>. HIDE DEF Same, n
    <3>. QED
      BY <1>1, <1>4, <1>5, <2>1, Induction
  <2>. QED
    BY <2>2
<1>7. g[n + 1] = g[n] \o t[n + 1]
  <2>1. n + 1 \in 1..Len(t) /\ (n + 1) - 1 = n
    BY <1>1
  <2>. QED
    BY <1>3, <2>1 DEF Collects
<1>. QED
  BY <1>1, <1>2, <1>3, <1>6, <1>7 DEF t

\* The pieces an artifact is published in.
Chunks == [text : Texts, append : BOOLEAN, last : BOOLEAN]

\* What a client has of an artifact depends on its chunks alone.
LEMMA AssembledSame ==
    ASSUME NEW x, NEW y, x.chunks = y.chunks
    PROVE  Assembled(x) = Assembled(y)
  BY Zenon DEF Assembled

\* Nothing comes of no chunk.
LEMMA AssembledNone ==
    ASSUME NEW x, x.chunks = <<>>
    PROVE  Assembled(x) = <<>>
<1>1. [i \in DOMAIN x.chunks |-> x.chunks[i].text] = <<>>
  OBVIOUS
<1>. QED
  BY <1>1 DEF Assembled, FlattenSeq

\* A chunk adds its text to what a client has.
LEMMA AssembledMore ==
    ASSUME NEW x, NEW y, NEW c \in Chunks, x.chunks \in Seq(Chunks), y.chunks = Append(x.chunks, c)
    PROVE  Assembled(x) \in Texts /\ Assembled(y) = Assembled(x) \o c.text
<1>. DEFINE old == [i \in DOMAIN x.chunks |-> x.chunks[i].text]
            new == [i \in DOMAIN y.chunks |-> y.chunks[i].text]
<1>1. old \in Seq(Texts) /\ c.text \in Texts
  <2>0. \A i \in 1..Len(x.chunks) : x.chunks[i] \in Chunks
    OBVIOUS
  <2>1. \A i \in 1..Len(x.chunks) : x.chunks[i].text \in Texts
    BY <2>0 DEF Chunks
  <2>2. old = [i \in 1..Len(x.chunks) |-> x.chunks[i].text] /\ Len(x.chunks) \in Nat
    OBVIOUS
  <2>3. old \in [1..Len(x.chunks) -> Texts]
    <3>1. [i \in 1..Len(x.chunks) |-> x.chunks[i].text] \in [1..Len(x.chunks) -> Texts]
      BY <2>1, Zenon
    <3>. QED
      BY <2>2, <3>1, Zenon
  <2>4. old \in Seq(Texts)
    <3>. HIDE DEF old
    <3>. QED
      BY <2>2, <2>3, SeqDef
  <2>. QED
    BY <2>4 DEF Chunks
<1>2. new = Append(old, c.text)
  BY DEF Chunks
<1>3. Assembled(x) = FlattenSeq(old) /\ Assembled(y) = FlattenSeq(new)
  BY DEF Assembled
<1>. HIDE DEF old, new
<1>. QED
  BY <1>1, <1>2, <1>3, FlattenAppend DEF Texts

-------------------------------------------------------------------------------
(* The bridge: what an execution publishes, and what cancel() finds.          *)

ExecPlaces == {"idle", "done"} \cup Body \cup Outside
ExecRecords ==
    [pc : ExecPlaces, asked : BOOLEAN, hit : BOOLEAN, cut : BOOLEAN, deltas : Texts, emitted : Texts,
     pending : Texts, final : Texts, chunks : Seq(Chunks), since : Nat]
Entries == [by : Executions \cup {None}, state : Published]

\* The types, and that the number of calls is the number of executions begun.
BridgeShape ==
    /\ streaming \in BOOLEAN
    /\ exec \in [Executions -> ExecRecords]
    /\ inFlight \in [Tasks -> Executions \cup {None}]
    /\ log \in [Tasks -> Seq(Entries)]
    /\ cancels \in 0..MaxCancels
    /\ starts \in Nat /\ starts = Cardinality({e \in Executions : exec[e].pc # "idle"})
    /\ \A e \in Executions : exec[e].since <= starts

\* An execution's text on its way to the client: while the stream runs the deltas
\* are what was published and what is held back, and something is held back from the
\* first delta on; a cancelled execution is on its way out.
OnTheWay(x) ==
    /\ x.pc \in {"idle", "seed", "work"} => x.chunks = <<>> /\ x.emitted = <<>> /\ x.pending = <<>> /\ x.deltas = <<>>
    /\ x.pc = "run" =>
        /\ x.deltas = x.emitted \o x.pending /\ Assembled(x) = x.emitted
        /\ x.pending = <<>> => x.chunks = <<>>
        /\ streaming \/ x.chunks = <<>>
        /\ \A i \in 1..Len(x.chunks) : x.chunks[i].last = FALSE
    /\ x.pc = "artifact" => x.chunks = <<>> /\ ~streaming
    /\ \A i \in 1..Len(x.chunks) : x.chunks[i].append = (i > 1)
    /\ x.final # <<>> => x.pc \in {"artifact", "complete", "done"}
    /\ x.hit => x.pc \in {"canceling", "done"}
    /\ x.cut => x.pc = "done"
    /\ x.asked => x.pc # "idle"

\* The published text is the answer, or what was streamed.
Whole(x) ==
    /\ Assembled(x) = x.final \/ (Assembled(x) = x.deltas /\ ~IsPrefix(x.deltas, x.final))
    /\ \A i \in 1..Len(x.chunks) : x.chunks[i].append = (i > 1)
                                   /\ x.chunks[i].last = (streaming /\ i = Len(x.chunks))
Texted(x) == OnTheWay(x) /\ (x.pc \in {"complete", "done"} /\ ~x.hit /\ x.final # <<>> => Whole(x))

BridgeInv == BridgeShape /\ (\A e \in Executions : Texted(exec[e])) /\ CancelFindsNewest /\ EndsWithOutcome

\* What a callback has been sent: nothing more once it has answered or was tried often enough.
Sending(got) == Len(got) < MaxAttempts /\ \A i \in 1..Len(got) : got[i] \notin {"ok", "refused"}
Settled(got) ==
    /\ got # <<>> /\ Len(got) <= MaxAttempts
    /\ got[Len(got)] \in {"ok", "refused"} \/ Len(got) = MaxAttempts
    /\ \A i \in 1..Len(got) : got[i] \in {"ok", "refused"} => i = Len(got)

SenderRecords ==
    [pc : {"idle", "next", "post", "done", "raised"}, todo : Seq(Callbacks), read : SUBSET Callbacks,
     got : [Callbacks -> Seq(Results)]]

\* A sender's callbacks: those still to come were sent nothing, the one at hand has not
\* answered, the others are settled.
Notifies(x) ==
    /\ NoRepeats(x.todo) /\ Members(x.todo) \subseteq x.read
    /\ \A c \in Callbacks : c \notin x.read => x.got[c] = <<>>
    /\ \A c \in x.read \ Members(x.todo) : Settled(x.got[c])
    /\ x.pc # "post" => \A c \in Members(x.todo) : x.got[c] = <<>>
    /\ x.pc = "post" => /\ x.todo # <<>> /\ Sending(x.got[Head(x.todo)])
                        /\ \A c \in Members(Tail(x.todo)) : x.got[c] = <<>>
    /\ x.pc = "idle" => x.read = {}
    /\ x.pc = "done" => x.todo = <<>>

PushInv ==
    /\ registered \in Seq(Callbacks) /\ NoRepeats(registered)
    /\ push \in [Senders -> SenderRecords]
    /\ \A s \in Senders : Notifies(push[s])

\* The values of a sequence are its members.
LEMMA RangeMembers ==
    ASSUME NEW A, NEW s \in Seq(A)
    PROVE  Range(s) = Members(s) /\ Members(s) \subseteq A
<1>1. Range(s) = {s[i] : i \in DOMAIN s} /\ DOMAIN s = 1..Len(s)
  BY DEF Range
<1>. QED
  BY <1>1 DEF Members

\* A first and a last attempt: what one more answer makes of a callback.
LEMMA AttemptEnds ==
    ASSUME NEW old \in Seq(Results), Sending(old), NEW r \in Results, NEW got, got = Append(old, r)
    PROVE  /\ got \in Seq(Results)
           /\ r \in {"ok", "refused"} \/ Len(got) = MaxAttempts => Settled(got)
           /\ ~(r \in {"ok", "refused"} \/ Len(got) = MaxAttempts) => Sending(got)
<1>1. /\ got \in Seq(Results) /\ Len(got) = Len(old) + 1 /\ Len(old) \in Nat /\ got[Len(got)] = r /\ got # <<>>
      /\ \A i \in 1..Len(old) : got[i] = old[i]
  BY AppendProperties
<1>2. Len(got) <= MaxAttempts
  BY <1>1, A2aAssumption DEF Sending, A2aAssumption
<1>3. \A i \in 1..Len(got) : i # Len(got) => got[i] \notin {"ok", "refused"}
  <2>. SUFFICES ASSUME NEW i \in 1..Len(got), i # Len(got) PROVE got[i] \notin {"ok", "refused"}
    OBVIOUS
  <2>1. i \in 1..Len(old)
    BY <1>1
  <2>. QED
    BY <1>1, <2>1 DEF Sending
<1>4. ASSUME r \in {"ok", "refused"} \/ Len(got) = MaxAttempts PROVE Settled(got)
  BY <1>1, <1>2, <1>3, <1>4 DEF Settled
<1>5. ASSUME ~(r \in {"ok", "refused"} \/ Len(got) = MaxAttempts) PROVE Sending(got)
  <2>1. Len(got) < MaxAttempts
    BY <1>1, <1>2, <1>5, A2aAssumption DEF A2aAssumption
  <2>2. \A i \in 1..Len(got) : got[i] \notin {"ok", "refused"}
    BY <1>1, <1>3, <1>5
  <2>. QED
    BY <2>1, <2>2 DEF Sending
<1>. QED
  BY <1>1, <1>4, <1>5

\* Each step of a sender leaves its callbacks sent nothing, at hand, or settled.
LEMMA SenderMoves ==
    ASSUME PushInv, NEW s \in Senders, PushStep(s)
    PROVE  /\ \E y \in SenderRecords : Notifies(y) /\ push' = [push EXCEPT ![s] = y]
           /\ registered' = registered
<1>. DEFINE x == push[s]
<1>0. x \in SenderRecords /\ Notifies(x) /\ registered \in Seq(Callbacks) /\ NoRepeats(registered)
  BY DEF PushInv
<1>1. CASE SendNotification(s)
  <2>. DEFINE y == [x EXCEPT !.pc = "next", !.todo = registered, !.read = Range(registered)]
  <2>1. x.pc = "idle" /\ push' = [push EXCEPT ![s] = y] /\ registered' = registered
    BY <1>1 DEF SendNotification, PushSet
  <2>2. Range(registered) = Members(registered) /\ Members(registered) \subseteq Callbacks
    BY <1>0, RangeMembers
  <2>3. y \in SenderRecords
    BY <1>0, <2>2 DEF SenderRecords
  <2>4. y.pc = "next" /\ y.todo = registered /\ y.read = Members(registered) /\ y.got = x.got
    BY <1>0, <2>2 DEF SenderRecords
  <2>5. \A c \in Callbacks : y.got[c] = <<>>
    BY <1>0, <2>1, <2>4 DEF Notifies
  <2>. HIDE DEF y
  <2>6. Notifies(y)
    BY <1>0, <2>2, <2>4, <2>5 DEF Notifies
  <2>. QED
    BY <2>1, <2>3, <2>6
<1>2. CASE NextCallback(s)
  <2>. DEFINE pc == IF x.todo = <<>> THEN "done" ELSE IF Head(x.todo) \in BadUrls THEN "raised" ELSE "post"
              y == [x EXCEPT !.pc = pc]
  <2>1. x.pc = "next" /\ push' = [push EXCEPT ![s] = y] /\ registered' = registered
    BY <1>2 DEF NextCallback, PushSet
  <2>2. y \in SenderRecords /\ y.pc = pc /\ y.todo = x.todo /\ y.read = x.read /\ y.got = x.got
    BY <1>0 DEF SenderRecords
  <2>3. x.todo \in Seq(Callbacks) /\ x.got \in [Callbacks -> Seq(Results)]
    BY <1>0 DEF SenderRecords
  <2>. HIDE DEF y
  <2>4. CASE pc = "post"
    <3>1. x.todo # <<>>
      BY <2>4
    <3>2. Members(x.todo) = {Head(x.todo)} \cup Members(Tail(x.todo))
      BY <2>3, <3>1, MembersPop
    <3>3. Sending(<<>>)
      BY A2aAssumption DEF A2aAssumption, Sending
    <3>4. \A c \in Members(x.todo) : x.got[c] = <<>>
      BY <1>0, <2>1 DEF Notifies
    <3>5. Sending(x.got[Head(x.todo)]) /\ \A c \in Members(Tail(x.todo)) : x.got[c] = <<>>
      BY <3>2, <3>3, <3>4
    <3>6. Notifies(y)
      BY <1>0, <2>2, <2>4, <3>1, <3>5 DEF Notifies
    <3>. QED
      BY <2>1, <2>2, <3>6
  <2>5. CASE pc # "post"
    <3>1. Notifies(y)
      BY <1>0, <2>1, <2>2, <2>5 DEF Notifies
    <3>. QED
      BY <2>1, <2>2, <3>1
  <2>. QED
    BY <2>4, <2>5
<1>3. ASSUME NEW r \in Results, Post(s, r)
      PROVE  /\ \E y \in SenderRecords : Notifies(y) /\ push' = [push EXCEPT ![s] = y]
             /\ registered' = registered
  <2>. DEFINE c == Head(x.todo)
              got == Append(x.got[c], r)
              over == r \in {"ok", "refused"} \/ Len(got) = MaxAttempts
              y == [x EXCEPT !.got[c] = got, !.pc = IF over THEN "next" ELSE "post",
                             !.todo = IF over THEN Tail(x.todo) ELSE x.todo]
  <2>1. x.pc = "post" /\ push' = [push EXCEPT ![s] = y] /\ registered' = registered
    BY <1>3 DEF Post, PushSet
  <2>2. /\ x.todo \in Seq(Callbacks) /\ x.got \in [Callbacks -> Seq(Results)] /\ x.read \subseteq Callbacks
        /\ x.todo # <<>> /\ Sending(x.got[c]) /\ NoRepeats(x.todo)
    BY <1>0, <2>1 DEF SenderRecords, Notifies
  <2>3. /\ c \in Callbacks /\ Tail(x.todo) \in Seq(Callbacks) /\ Members(x.todo) = {c} \cup Members(Tail(x.todo))
        /\ c \notin Members(Tail(x.todo)) /\ NoRepeats(Tail(x.todo))
    BY <2>2, MembersPop
  <2>4. got \in Seq(Results) /\ (over => Settled(got)) /\ (~over => Sending(got))
    <3>1. x.got[c] \in Seq(Results)
      BY <2>2, <2>3
    <3>. HIDE DEF c
    <3>. QED
      BY <2>2, <3>1, AttemptEnds
  <2>. HIDE DEF c, got
  <2>5. /\ y.pc = (IF over THEN "next" ELSE "post") /\ y.todo = (IF over THEN Tail(x.todo) ELSE x.todo)
        /\ y.read = x.read /\ y.got = [x.got EXCEPT ![c] = got]
    BY <1>0 DEF SenderRecords
  <2>6. y \in SenderRecords
    <3>1. [x.got EXCEPT ![c] = got] \in [Callbacks -> Seq(Results)]
      BY <2>2, <2>4
    <3>2. (IF over THEN Tail(x.todo) ELSE x.todo) \in Seq(Callbacks)
      BY <2>2, <2>3
    <3>. HIDE DEF over
    <3>. QED
      BY <1>0, <3>1, <3>2 DEF SenderRecords
  <2>. HIDE DEF y
  <2>7. \A d \in Callbacks : y.got[d] = IF d = c THEN got ELSE x.got[d]
    BY <2>2, <2>5
  <2>8. c \in x.read /\ Members(x.todo) \subseteq x.read
    BY <1>0, <2>3 DEF Notifies
  <2>9. \A d \in Callbacks : d \notin x.read => y.got[d] = <<>>
    BY <1>0, <2>7, <2>8 DEF Notifies
  <2>10. \A d \in Members(Tail(x.todo)) : d \in Callbacks /\ y.got[d] = <<>>
    <3>. SUFFICES ASSUME NEW d \in Members(Tail(x.todo)) PROVE d \in Callbacks /\ y.got[d] = <<>>
      OBVIOUS
    <3>1. d # c /\ d \in Callbacks
      BY <2>2, <2>3, <2>8
    <3>2. x.got[d] = <<>>
      BY <1>0, <2>1 DEF Notifies
    <3>. QED
      BY <2>7, <3>1, <3>2
  <2>11. \A d \in x.read \ Members(x.todo) : Settled(y.got[d])
    <3>. SUFFICES ASSUME NEW d \in x.read \ Members(x.todo) PROVE Settled(y.got[d])
      OBVIOUS
    <3>1. Settled(x.got[d])
      BY <1>0 DEF Notifies
    <3>2. y.got[d] = x.got[d]
      BY <2>2, <2>3, <2>7
    <3>. QED
      BY <3>1, <3>2
  <2>12. CASE over
    <3>1. y.todo = Tail(x.todo) /\ y.pc = "next" /\ y.read = x.read
      BY <2>5, <2>12
    <3>2. Settled(y.got[c])
      BY <2>3, <2>4, <2>7, <2>12
    <3>3. \A d \in y.read \ Members(y.todo) : Settled(y.got[d])
      BY <2>3, <2>11, <3>1, <3>2
    <3>. HIDE DEF over
    <3>4. Notifies(y)
      BY <2>3, <2>8, <2>9, <2>10, <3>1, <3>3 DEF Notifies
    <3>. QED
      BY <2>1, <2>6, <3>4 DEF y
  <2>13. CASE ~over
    <3>1. y.todo = x.todo /\ y.pc = "post" /\ y.read = x.read
      BY <2>5, <2>13
    <3>2. Sending(y.got[Head(y.todo)])
      BY <2>3, <2>4, <2>7, <2>13, <3>1 DEF c
    <3>. HIDE DEF over
    <3>3. Notifies(y)
      BY <2>2, <2>8, <2>9, <2>10, <2>11, <3>1, <3>2 DEF Notifies
    <3>. QED
      BY <2>1, <2>6, <3>3 DEF y
  <2>. QED
    BY <2>12, <2>13
<1>. QED
  BY <1>1, <1>2, <1>3 DEF PushStep

\* The senders keep their books in every step of the bridge.
LEMMA PushSteps ==
    ASSUME PushInv, [Next]_avars
    PROVE  PushInv'
<1>1. ASSUME UNCHANGED pushing PROVE PushInv'
  BY <1>1 DEF PushInv, pushing
<1>2. ASSUME NEW s \in Senders, PushStep(s) PROVE PushInv'
  <2>1. PICK y \in SenderRecords : Notifies(y) /\ push' = [push EXCEPT ![s] = y]
    BY <1>2, SenderMoves
  <2>2. registered' = registered
    BY <1>2, SenderMoves
  <2>3. push' \in [Senders -> SenderRecords]
    BY <2>1 DEF PushInv
  <2>4. \A q \in Senders : Notifies(push'[q])
    BY <2>1 DEF PushInv
  <2>. QED
    BY <2>2, <2>3, <2>4 DEF PushInv
<1>3. ASSUME NEW c \in Callbacks, SetInfo(c) PROVE PushInv'
  <2>1. push' = push /\ registered' = IF c \in Range(registered) THEN registered ELSE Append(registered, c)
    BY <1>3 DEF SetInfo
  <2>2. Range(registered) = Members(registered) /\ registered \in Seq(Callbacks) /\ NoRepeats(registered)
    BY RangeMembers DEF PushInv
  <2>3. c \notin Members(registered) => Append(registered, c) \in Seq(Callbacks) /\ NoRepeats(Append(registered, c))
    BY <2>2 DEF Members, NoRepeats
  <2>4. registered' \in Seq(Callbacks) /\ NoRepeats(registered')
    BY <2>1, <2>2, <2>3
  <2>. QED
    BY <2>1, <2>4 DEF PushInv
<1>4. ASSUME NEW gone \in SUBSET Callbacks, DeleteInfo(gone) PROVE PushInv'
  <2>1. push' = push /\ registered' = Filtered(registered, Callbacks \ gone)
    BY <1>4 DEF DeleteInfo
  <2>2. registered' \in Seq(Callbacks) /\ NoRepeats(registered')
    BY <2>1, FilteredMembers DEF PushInv
  <2>. QED
    BY <2>1, <2>2 DEF PushInv
<1>5. ASSUME NEW e \in Executions, ExecStep(e) PROVE PushInv'
  BY <1>1, <1>5 DEF ExecStep, Start, Seed, Work, Answer, StreamEnds, Fails, Artifact, Outcome, Thrown, Delta
<1>6. ASSUME NEW t \in Tasks, Cancel(t) PROVE PushInv'
  BY <1>1, <1>6 DEF Cancel
<1>7. CASE UNCHANGED avars
  BY <1>1, <1>7 DEF avars, pushing
<1>. QED
  BY <1>2, <1>3, <1>4, <1>5, <1>6, <1>7 DEF Next

\* An execution publishes a state.
Says(e, state) == Publish(TaskOf[e], e, state)

\* What a step of an execution may do: publish a state under way, its outcome when it
\* ends, nothing otherwise; register when it begins and remove itself when it ends.
Moves(e, x, y) ==
    /\ y \in ExecRecords /\ Texted(y) /\ exec' = [exec EXCEPT ![e] = y]
    /\ x.pc # "done" /\ y.pc # "idle" /\ UNCHANGED <<streaming, cancels>>
    /\ x.hit => y.chunks = x.chunks /\ (log' = log \/ Says(e, "canceled"))
    /\ \/ log' = log /\ (y.pc = "done" => y.cut)
       \/ y.pc # "done" /\ \E state \in Published \ Terminal : Says(e, state)
       \/ y.pc = "done" /\ ~y.cut /\ \E state \in Terminal : Says(e, state)
    /\ \/ /\ x.pc = "idle" /\ y.pc = "seed" /\ starts' = starts + 1 /\ y.since = starts + 1
          /\ inFlight' = [inFlight EXCEPT ![TaskOf[e]] = e]
       \/ /\ x.pc # "idle" /\ starts' = starts /\ y.since = x.since
          /\ (y.pc # "done" /\ inFlight' = inFlight) \/ (y.pc = "done" /\ Leave(e))

\* The pieces have no part in these.
SameText(x, y) ==
    /\ y.chunks = x.chunks /\ y.emitted = x.emitted /\ y.pending = x.pending
    /\ y.deltas = x.deltas /\ y.final = x.final

\* Steps that publish no text keep what is said of it.
LEMMA QuietText ==
    ASSUME NEW x \in ExecRecords, NEW y \in ExecRecords, Texted(x), SameText(x, y), x.pc # "done",
           \/ /\ y.hit = x.hit /\ y.cut = x.cut
              /\ <<x.pc, y.pc>> \in {<<"idle", "seed">>, <<"seed", "work">>, <<"work", "run">>, <<"run", "failing">>,
                                     <<"complete", "done">>, <<"failing", "done">>, <<"canceling", "done">>}
           \/ y.pc = "canceling" /\ y.hit = TRUE /\ y.cut = x.cut /\ x.pc \in Body
           \/ y.pc = "done" /\ y.hit = TRUE /\ y.cut = TRUE
    PROVE  Texted(y)
<1>1. Assembled(y) = Assembled(x)
  BY AssembledSame DEF SameText
<1>2. OnTheWay(x) /\ (x.pc \in {"complete", "done"} /\ ~x.hit /\ x.final # <<>> => Whole(x))
  BY DEF Texted
<1>3. OnTheWay(y)
  <2>1. CASE x.pc = "work" /\ y.pc = "run"
    <3>1. x.chunks = <<>> /\ x.emitted = <<>> /\ x.pending = <<>> /\ x.deltas = <<>> /\ x.final = <<>> /\ ~x.hit /\ ~x.cut
      BY <1>2, <2>1 DEF OnTheWay, ExecRecords
    <3>2. Assembled(x) = <<>>
      BY <3>1, AssembledNone
    <3>3. y.hit = x.hit /\ y.cut = x.cut
      BY <2>1 DEF Body
    <3>4. <<>> = <<>> \o <<>>
      BY ConcatEmptySeq
    <3>. QED
      BY <1>1, <2>1, <3>1, <3>2, <3>3, <3>4 DEF OnTheWay, SameText
  <2>2. CASE y.pc # "run"
    BY <1>2, <2>2 DEF OnTheWay, SameText, ExecRecords, Body
  <2>. QED
    BY <2>1, <2>2 DEF Body
<1>4. ASSUME y.pc \in {"complete", "done"}, ~y.hit, y.final # <<>> PROVE Whole(y)
  <2>1. x.final # <<>>
    BY <1>4 DEF SameText
  <2>2. x.pc \in {"artifact", "complete", "done"}
    BY <1>2, <2>1 DEF OnTheWay
  <2>3. x.pc = "complete" /\ ~x.hit
    BY <1>4, <2>2 DEF Body
  <2>4. Whole(x)
    BY <1>2, <2>1, <2>3
  <2>. QED
    BY <1>1, <2>4 DEF Whole, SameText
<1>. QED
  BY <1>3, <1>4 DEF Texted

\* The calls that publish no text.
LEMMA QuietMoves ==
    ASSUME BridgeInv, NEW e \in Executions,
           Start(e) \/ Seed(e) \/ Work(e) \/ Fails(e) \/ Outcome(e) \/ Thrown(e)
    PROVE  \E y : Moves(e, exec[e], y)
<1>. DEFINE x == exec[e]
<1>0. x \in ExecRecords /\ Texted(x) /\ exec \in [Executions -> ExecRecords] /\ starts \in Nat
  BY DEF BridgeInv, BridgeShape
<1>1. CASE Start(e)
  <2>. DEFINE n == starts + 1
              y == [x EXCEPT !.pc = "seed", !.since = n]
  <2>0. n \in Nat
    BY <1>0
  <2>1. /\ x.pc = "idle" /\ exec' = [exec EXCEPT ![e] = y] /\ starts' = starts + 1 /\ log' = log
        /\ UNCHANGED <<streaming, cancels>> /\ inFlight' = [inFlight EXCEPT ![TaskOf[e]] = e]
    BY <1>0, <1>1 DEF Start
  <2>2. y \in ExecRecords /\ SameText(x, y) /\ y.hit = x.hit /\ y.cut = x.cut /\ y.pc = "seed" /\ y.since = n
    <3>1. x \in ExecRecords
      BY <1>0
    <3>. HIDE DEF n, x
    <3>. QED
      BY <2>0, <3>1 DEF ExecRecords, ExecPlaces, Body, SameText
  <2>. HIDE DEF x, y
  <2>3. Texted(y)
    BY <1>0, <2>1, <2>2, QuietText
  <2>. QED
    BY <2>1, <2>2, <2>3 DEF Moves, x, SameText
<1>2. ASSUME NEW pc \in ExecPlaces, Go(e, pc), NEW state \in Published, Says(e, state), state \notin Terminal,
             UNCHANGED <<streaming, inFlight, starts, cancels>>, <<x.pc, pc>> \in {<<"seed", "work">>, <<"work", "run">>}
      PROVE  \E y : Moves(e, exec[e], y)
  <2>. DEFINE y == [x EXCEPT !.pc = pc]
  <2>1. exec' = [exec EXCEPT ![e] = y]
    BY <1>0, <1>2 DEF Go
  <2>2. /\ y \in ExecRecords /\ SameText(x, y) /\ y.hit = x.hit /\ y.cut = x.cut /\ y.pc = pc /\ y.since = x.since
        /\ x.pc # "done" /\ x.pc # "idle" /\ pc # "idle" /\ pc # "done"
    BY <1>0, <1>2 DEF ExecRecords, SameText
  <2>3. ~x.hit
    BY <1>0, <1>2 DEF Texted, OnTheWay
  <2>. HIDE DEF x, y
  <2>4. Texted(y)
    BY <1>0, <1>2, <2>2, QuietText
  <2>. QED
    BY <1>2, <2>1, <2>2, <2>3, <2>4 DEF Moves, x
<1>3. CASE Seed(e)
  BY <1>2, <1>3 DEF Seed, At, Says, ExecPlaces, Body, Published, Terminal
<1>4. CASE Work(e)
  BY <1>2, <1>4 DEF Work, At, Says, ExecPlaces, Body, Published, Terminal
<1>5. CASE Fails(e)
  <2>. DEFINE y == [x EXCEPT !.pc = "failing"]
  <2>1. exec' = [exec EXCEPT ![e] = y] /\ x.pc = "run" /\ UNCHANGED <<streaming, inFlight, log, starts, cancels>>
    BY <1>0, <1>5 DEF Go, Fails, At
  <2>2. /\ y \in ExecRecords /\ SameText(x, y) /\ y.hit = x.hit /\ y.cut = x.cut /\ y.pc = "failing" /\ y.since = x.since
    BY <1>0 DEF ExecRecords, SameText, ExecPlaces, Outside
  <2>3. ~x.hit
    BY <1>0, <2>1 DEF Texted, OnTheWay
  <2>. HIDE DEF x, y
  <2>4. Texted(y)
    BY <1>0, <2>1, <2>2, QuietText
  <2>. QED
    BY <2>1, <2>2, <2>3, <2>4 DEF Moves, x
<1>6. CASE Outcome(e)
  <2>. DEFINE y == [x EXCEPT !.pc = "done"]
  <2>1. /\ exec' = [exec EXCEPT ![e] = y] /\ Leave(e) /\ UNCHANGED <<streaming, starts, cancels>>
        /\ <<x.pc, "done">> \in {<<"complete", "done">>, <<"failing", "done">>, <<"canceling", "done">>}
        /\ \E state \in Terminal : Says(e, state)
        /\ x.pc = "canceling" => Says(e, "canceled")
    BY <1>0, <1>6 DEF Go, Outcome, At, Says, Terminal
  <2>2. /\ y \in ExecRecords /\ SameText(x, y) /\ y.hit = x.hit /\ y.cut = x.cut /\ y.pc = "done" /\ y.since = x.since
    BY <1>0 DEF ExecRecords, SameText, ExecPlaces
  <2>3. /\ x.hit => x.pc = "canceling"
        /\ ~x.cut /\ x.pc # "done" /\ x.pc # "idle"
    BY <1>0, <2>1 DEF Texted, OnTheWay
  <2>. HIDE DEF x, y
  <2>4. Texted(y)
    BY <1>0, <2>1, <2>2, <2>3, QuietText
  <2>5. y.chunks = x.chunks
    BY <2>2 DEF SameText
  <2>. QED
    BY <2>1, <2>2, <2>3, <2>4, <2>5 DEF Moves, x
<1>7. CASE Thrown(e)
  <2>1. x.asked /\ x.pc # "done" /\ x.pc # "idle" /\ UNCHANGED <<streaming, log, starts, cancels>>
    BY <1>0, <1>7 DEF Thrown, Texted, OnTheWay
  <2>2. CASE x.pc \in Body
    <3>. DEFINE y == [x EXCEPT !.asked = FALSE, !.hit = TRUE, !.pc = "canceling"]
    <3>1. exec' = [exec EXCEPT ![e] = y] /\ inFlight' = inFlight
      BY <1>0, <1>7, <2>2 DEF Thrown
    <3>2. y \in ExecRecords /\ SameText(x, y) /\ y.hit = TRUE /\ y.cut = x.cut /\ y.pc = "canceling" /\ y.since = x.since
      BY <1>0 DEF ExecRecords, SameText, ExecPlaces, Outside
    <3>. HIDE DEF x, y
    <3>3. Texted(y)
      BY <1>0, <2>1, <2>2, <3>2, QuietText
    <3>. QED
      BY <2>1, <2>2, <3>1, <3>2, <3>3 DEF Moves, x, Body, SameText
  <2>3. CASE x.pc \notin Body
    <3>. DEFINE y == [x EXCEPT !.asked = FALSE, !.hit = TRUE, !.cut = TRUE, !.pc = "done"]
    <3>1. exec' = [exec EXCEPT ![e] = y] /\ Leave(e)
      BY <1>0, <1>7, <2>3 DEF Thrown
    <3>2. y \in ExecRecords /\ SameText(x, y) /\ y.hit = TRUE /\ y.cut = TRUE /\ y.pc = "done" /\ y.since = x.since
      BY <1>0 DEF ExecRecords, SameText, ExecPlaces
    <3>. HIDE DEF x, y
    <3>3. Texted(y)
      BY <1>0, <2>1, <3>2, QuietText
    <3>. QED
      BY <2>1, <2>3, <3>1, <3>2, <3>3 DEF Moves, x, SameText
  <2>. QED
    BY <2>2, <2>3
<1>. QED
  BY <1>1, <1>3, <1>4, <1>5, <1>6, <1>7

\* A prefix and the rest after it.
LEMMA PrefixAndRest ==
    ASSUME NEW s \in Texts, NEW t \in Texts, IsPrefix(s, t)
    PROVE  /\ SubSeq(t, Len(s) + 1, Len(t)) \in Texts
           /\ s \o SubSeq(t, Len(s) + 1, Len(t)) = t
<1>1. s \in Seq(Letters) /\ t \in Seq(Letters) /\ Len(s) \in Nat /\ Len(t) \in Nat /\ Len(s) <= Len(t)
  BY DEF Texts, IsPrefix
<1>2. SubSeq(s, 1, Len(s)) = s /\ SubSeq(t, 1, Len(t)) = t
  BY <1>1, SubSeqFull
<1>3. SubSeq(t, 1, Len(s)) = s
  BY <1>2 DEF IsPrefix
<1>4. SubSeq(t, 1, Len(s)) \o SubSeq(t, Len(s) + 1, Len(t)) = SubSeq(t, 1, Len(t))
  <2>1. 1 \in 1..Len(t) + 1 /\ Len(s) \in 1 - 1..Len(t) /\ Len(t) \in Len(s)..Len(t)
    BY <1>1
  <2>. QED
    BY <1>1, <2>1, ConcatAdjacentSubSeq
<1>5. SubSeq(t, Len(s) + 1, Len(t)) \in Seq(Letters)
  <2>1. \A i \in Len(s) + 1..Len(t) : t[i] \in Letters
    BY <1>1
  <2>. QED
    BY <1>1, <2>1, SubSeqProperties
<1>. QED
  BY <1>2, <1>3, <1>4, <1>5 DEF Texts

\* All chunks but the first extend the artifact; y has one chunk more than x.
Extending(chunks) == chunks \in Seq(Chunks) /\ \A i \in 1..Len(chunks) : chunks[i].append = (i > 1)
OneMore(x, y, c) ==
    /\ Assembled(y) = Assembled(x) \o c.text
    /\ Len(y.chunks) = Len(x.chunks) + 1 /\ Len(x.chunks) \in Nat
    /\ \A i \in 1..Len(y.chunks) : y.chunks[i].append = (i > 1)
    /\ \A i \in 1..Len(x.chunks) : y.chunks[i] = x.chunks[i]
    /\ y.chunks[Len(y.chunks)] = c

\* One more chunk of an artifact: all but the first extend it.
LEMMA ChunkAdded ==
    ASSUME NEW x, NEW y, NEW c \in Chunks, Extending(x.chunks), (c.append = TRUE) <=> (x.chunks # <<>>),
           y.chunks = Append(x.chunks, c)
    PROVE  OneMore(x, y, c)
<1>0. /\ x.chunks \in Seq(Chunks) /\ c.append = (x.chunks # <<>>)
      /\ \A i \in 1..Len(x.chunks) : x.chunks[i].append = (i > 1)
  BY DEF Extending, Chunks
<1>1. Assembled(y) = Assembled(x) \o c.text
  BY <1>0, AssembledMore
<1>2. /\ y.chunks \in Seq(Chunks) /\ Len(y.chunks) = Len(x.chunks) + 1 /\ Len(x.chunks) \in Nat
      /\ \A i \in 1..Len(x.chunks) : y.chunks[i] = x.chunks[i]
      /\ y.chunks[Len(x.chunks) + 1] = c
  BY <1>0, AppendProperties
<1>3. (x.chunks # <<>>) = (Len(x.chunks) + 1 > 1)
  BY <1>0, <1>2
<1>4. ASSUME NEW i \in 1..Len(y.chunks) PROVE y.chunks[i].append = (i > 1)
  <2>1. CASE i = Len(x.chunks) + 1
    BY <1>0, <1>2, <1>3, <2>1
  <2>2. CASE i # Len(x.chunks) + 1
    <3>1. i \in 1..Len(x.chunks)
      BY <1>2, <2>2
    <3>. QED
      BY <1>0, <1>2, <3>1
  <2>. QED
    BY <2>1, <2>2
<1>. QED
  BY <1>1, <1>2, <1>4 DEF OneMore

\* Joining texts is associative.
LEMMA TextsJoin ==
    ASSUME NEW s \in Texts, NEW t \in Texts, NEW u \in Texts
    PROVE  s \o (t \o u) = (s \o t) \o u
<1>1. s \in Seq(Letters) /\ t \in Seq(Letters) /\ u \in Seq(Letters)
  BY DEF Texts
<1>2. /\ s \o t \in Seq(Letters) /\ t \o u \in Seq(Letters) /\ (s \o t) \o u \in Seq(Letters) /\ s \o (t \o u) \in Seq(Letters)
  BY <1>1, ConcatProperties
<1>3. (s \o t) \o u = s \o (t \o u)
  BY <1>1, <1>2, ConcatAssociative
<1>. QED
  BY <1>3

\* The calls that publish text.
LEMMA TextMoves ==
    ASSUME BridgeInv, NEW e \in Executions,
           Answer(e) \/ StreamEnds(e) \/ Artifact(e) \/ \E d \in Letters : Delta(e, d)
    PROVE  \E y : Moves(e, exec[e], y)
<1>. DEFINE x == exec[e]
<1>0. x \in ExecRecords /\ Texted(x) /\ exec \in [Executions -> ExecRecords] /\ streaming \in BOOLEAN
  BY DEF BridgeInv, BridgeShape
<1>1. /\ x.chunks \in Seq(Chunks)
      /\ x.emitted \in Texts /\ x.pending \in Texts /\ x.deltas \in Texts /\ x.final \in Texts
      /\ \A i \in 1..Len(x.chunks) : x.chunks[i].append = (i > 1)
  BY <1>0 DEF ExecRecords, Texted, OnTheWay
<1>2. ASSUME x.pc \in {"run", "artifact"}, NEW y \in ExecRecords, Texted(y), exec' = [exec EXCEPT ![e] = y],
             y.pc \in {"run", "artifact", "complete"}, y.since = x.since,
             UNCHANGED <<streaming, inFlight, log, starts, cancels>>
      PROVE  Moves(e, exec[e], y)
  <2>1. ~x.hit
    BY <1>0, <1>2 DEF Texted, OnTheWay
  <2>. QED
    BY <1>2, <2>1 DEF Moves
<1>3. ASSUME x.pc = "run"
      PROVE  /\ ~x.hit /\ ~x.cut /\ x.final = <<>> /\ x.deltas = x.emitted \o x.pending /\ Assembled(x) = x.emitted
             /\ x.pending = <<>> => x.chunks = <<>>
             /\ streaming \/ x.chunks = <<>>
             /\ \A i \in 1..Len(x.chunks) : x.chunks[i].last = FALSE
  BY <1>0, <1>3 DEF Texted, OnTheWay
<1>4. CASE Answer(e)
  <2>0. PICK a \in Answers : exec' = [exec EXCEPT ![e].pc = "artifact", ![e].final = a]
    BY <1>4 DEF Answer
  <2>. DEFINE y == [x EXCEPT !.pc = "artifact", !.final = a]
  <2>1. exec' = [exec EXCEPT ![e] = y] /\ x.pc = "run" /\ ~streaming /\ UNCHANGED <<streaming, inFlight, log, starts, cancels>>
    BY <1>0, <1>4, <2>0 DEF Answer, At
  <2>2. a \in Texts
    BY A2aAssumption DEF A2aAssumption, Texts
  <2>3. /\ y \in ExecRecords /\ y.pc = "artifact" /\ y.since = x.since /\ y.chunks = x.chunks /\ y.hit = x.hit /\ y.cut = x.cut
    <3>1. x \in ExecRecords
      BY <1>0
    <3>. HIDE DEF x
    <3>. QED
      BY <2>2, <3>1 DEF ExecRecords, ExecPlaces, Outside
  <2>. HIDE DEF y
  <2>4. Texted(y)
    BY <1>3, <2>1, <2>3 DEF Texted, OnTheWay
  <2>. QED
    BY <1>2, <2>1, <2>3, <2>4
<1>5. ASSUME NEW d \in Letters, Delta(e, d) PROVE \E y : Moves(e, exec[e], y)
  <2>. DEFINE more == IF x.pending = <<>> THEN x.chunks ELSE Chunk(x, x.pending, FALSE)
              y == [x EXCEPT !.deltas = Append(x.deltas, d), !.pending = <<d>>, !.chunks = more,
                             !.emitted = x.emitted \o x.pending]
  <2>1. exec' = [exec EXCEPT ![e] = y] /\ x.pc = "run" /\ streaming /\ UNCHANGED <<streaming, inFlight, log, starts, cancels>>
    BY <1>5 DEF Delta, At
  <2>2. /\ x.deltas \in Seq(Letters) /\ x.emitted \in Seq(Letters) /\ x.pending \in Seq(Letters) /\ <<d>> \in Seq(Letters)
        /\ Append(x.deltas, d) = x.deltas \o <<d>> /\ Append(x.deltas, d) \in Seq(Letters)
        /\ x.emitted \o x.pending \in Seq(Letters) /\ <<d>> # <<>>
    BY <1>1, AppendIsConcat, AppendProperties, ConcatProperties DEF Texts
  <2>3. more \in Seq(Chunks)
    BY <1>1, AppendProperties DEF Chunk, Chunks
  <2>4. /\ y \in ExecRecords /\ y.pc = "run" /\ y.since = x.since /\ y.hit = x.hit /\ y.cut = x.cut /\ y.asked = x.asked
        /\ y.final = x.final /\ y.chunks = more /\ y.pending = <<d>> /\ y.deltas = Append(x.deltas, d)
        /\ y.emitted = x.emitted \o x.pending
    <3>1. x \in ExecRecords
      BY <1>0
    <3>. HIDE DEF x, more
    <3>. QED
      BY <2>1, <2>2, <2>3, <3>1 DEF ExecRecords, Texts
  <2>. HIDE DEF y
  <2>5. y.deltas = y.emitted \o y.pending
    BY <1>3, <2>1, <2>2, <2>4
  <2>6. /\ Assembled(y) = y.emitted
        /\ \A i \in 1..Len(y.chunks) : y.chunks[i].append = (i > 1) /\ y.chunks[i].last = FALSE
    <3>1. CASE x.pending = <<>>
      <4>1. y.chunks = x.chunks /\ x.emitted \o x.pending = x.emitted
        BY <2>2, <2>4, <3>1, ConcatEmptySeq
      <4>2. Assembled(y) = Assembled(x)
        BY <4>1, AssembledSame
      <4>. QED
        BY <1>1, <1>3, <2>1, <2>4, <4>1, <4>2
    <3>2. CASE x.pending # <<>>
      <4>1. y.chunks = Chunk(x, x.pending, FALSE) /\ x.pending \in Texts
        BY <1>1, <2>4, <3>2
      <4>2. /\ Assembled(y) = Assembled(x) \o x.pending
            /\ Len(y.chunks) = Len(x.chunks) + 1 /\ Len(x.chunks) \in Nat
            /\ \A i \in 1..Len(y.chunks) : y.chunks[i].append = (i > 1)
            /\ \A i \in 1..Len(x.chunks) : y.chunks[i] = x.chunks[i]
            /\ y.chunks[Len(y.chunks)].last = FALSE
        <5>. DEFINE c == [text |-> x.pending, append |-> x.chunks # <<>>, last |-> FALSE]
        <5>1. c \in Chunks /\ c.text = x.pending /\ c.last = FALSE /\ ((c.append = TRUE) <=> (x.chunks # <<>>))
          BY <4>1 DEF Chunks
        <5>2. y.chunks = Append(x.chunks, c)
          BY <4>1 DEF Chunk
        <5>8. Extending(x.chunks)
          BY <1>1 DEF Extending
        <5>. HIDE DEF x, c
        <5>9. OneMore(x, y, c)
          BY <5>1, <5>2, <5>8, ChunkAdded
        <5>. QED
          BY <5>1, <5>9 DEF OneMore
      <4>3. \A i \in 1..Len(y.chunks) : y.chunks[i].last = FALSE
        <5>. SUFFICES ASSUME NEW i \in 1..Len(y.chunks), i # Len(y.chunks) PROVE y.chunks[i].last = FALSE
          BY <4>2
        <5>1. i \in 1..Len(x.chunks)
          BY <4>2
        <5>. QED
          BY <1>3, <2>1, <4>2, <5>1
      <4>. QED
        BY <1>3, <2>1, <2>4, <4>2, <4>3
    <3>. QED
      BY <3>1, <3>2
  <2>7. Texted(y)
    BY <1>3, <2>1, <2>2, <2>4, <2>5, <2>6 DEF Texted, OnTheWay
  <2>. QED
    BY <1>2, <2>1, <2>4, <2>7
<1>6. CASE StreamEnds(e)
  <2>0. PICK a \in Answers : exec' = [exec EXCEPT ![e] =
          [exec[e] EXCEPT !.pc = "complete", !.final = a,
                    !.chunks = IF FinalDelta(exec[e], a) # <<>> \/ exec[e].chunks = <<>>
                                 THEN Chunk(exec[e], FinalDelta(exec[e], a), TRUE) ELSE exec[e].chunks]]
    BY <1>6 DEF StreamEnds
  <2>. DEFINE text == FinalDelta(x, a)
              more == IF text # <<>> \/ x.chunks = <<>> THEN Chunk(x, text, TRUE) ELSE x.chunks
              y == [x EXCEPT !.pc = "complete", !.final = a, !.chunks = more]
  <2>1. exec' = [exec EXCEPT ![e] = y] /\ x.pc = "run" /\ streaming /\ UNCHANGED <<streaming, inFlight, log, starts, cancels>>
    BY <1>6, <2>0 DEF StreamEnds, At
  <2>2. a \in Texts /\ a # <<>>
    BY A2aAssumption DEF A2aAssumption, Texts
  <2>. DEFINE rest == SubSeq(a, Len(x.deltas) + 1, Len(a))
  <2>3. text = IF IsPrefix(x.deltas, a) THEN x.pending \o rest ELSE IF x.chunks = <<>> THEN a ELSE x.pending
    BY <1>3, <2>1 DEF FinalDelta
  <2>4. IsPrefix(x.deltas, a) => rest \in Texts /\ x.deltas \o rest = a
    BY <1>1, <2>2, PrefixAndRest
  <2>5. text \in Texts
    <3>1. IsPrefix(x.deltas, a) => x.pending \o rest \in Texts
      BY <1>1, <2>4, ConcatProperties DEF Texts
    <3>. HIDE DEF text, rest
    <3>. QED
      BY <1>1, <2>2, <2>3, <3>1
  <2>. HIDE DEF text, rest
  <2>6. more = Chunk(x, text, TRUE)
    <3>. SUFFICES ASSUME text = <<>>, x.chunks # <<>> PROVE FALSE
      OBVIOUS
    <3>1. x.pending # <<>>
      BY <1>3, <2>1
    <3>2. CASE IsPrefix(x.deltas, a)
      <4>1. rest \in Seq(Letters) /\ x.pending \in Seq(Letters) /\ x.pending \o rest = <<>>
        BY <1>1, <2>3, <2>4, <3>2 DEF Texts
      <4>. HIDE DEF x
      <4>. QED
        BY <3>1, <4>1, ConcatEqualIffEmpty
    <3>3. CASE ~IsPrefix(x.deltas, a)
      BY <2>3, <3>1, <3>3
    <3>. QED
      BY <3>2, <3>3
  <2>7. more \in Seq(Chunks)
    BY <1>1, <2>5, <2>6, AppendProperties DEF Chunk, Chunks
  <2>. HIDE DEF more
  <2>8. /\ y \in ExecRecords /\ y.pc = "complete" /\ y.since = x.since /\ y.hit = x.hit /\ y.cut = x.cut
        /\ y.final = a /\ y.chunks = more /\ y.deltas = x.deltas
    <3>1. x \in ExecRecords
      BY <1>0
    <3>. HIDE DEF x
    <3>. QED
      BY <2>2, <2>7, <3>1 DEF ExecRecords, ExecPlaces, Outside
  <2>. HIDE DEF y
  <2>9. /\ Assembled(y) = Assembled(x) \o text
        /\ Len(y.chunks) = Len(x.chunks) + 1 /\ Len(x.chunks) \in Nat
        /\ \A i \in 1..Len(y.chunks) : y.chunks[i].append = (i > 1)
        /\ \A i \in 1..Len(x.chunks) : y.chunks[i] = x.chunks[i]
        /\ y.chunks[Len(y.chunks)].last = TRUE
    <3>. DEFINE c == [text |-> text, append |-> x.chunks # <<>>, last |-> TRUE]
    <3>1. c \in Chunks /\ c.text = text /\ c.last = TRUE /\ ((c.append = TRUE) <=> (x.chunks # <<>>))
      BY <2>5 DEF Chunks
    <3>2. y.chunks = Append(x.chunks, c)
      BY <2>6, <2>8 DEF Chunk
    <3>8. Extending(x.chunks)
      BY <1>1 DEF Extending
    <3>. HIDE DEF x, c
    <3>9. OneMore(x, y, c)
      BY <3>1, <3>2, <3>8, ChunkAdded
    <3>. QED
      BY <3>1, <3>9 DEF OneMore
  <2>10. \A i \in 1..Len(y.chunks) : y.chunks[i].last = (streaming /\ i = Len(y.chunks))
    <3>. SUFFICES ASSUME NEW i \in 1..Len(y.chunks), i # Len(y.chunks) PROVE y.chunks[i].last = FALSE
      BY <2>1, <2>9
    <3>1. i \in 1..Len(x.chunks)
      BY <2>9
    <3>. QED
      BY <1>3, <2>1, <2>9, <3>1
  <2>11. Assembled(y) = a \/ (Assembled(y) = x.deltas /\ ~IsPrefix(x.deltas, a))
    <3>0. Assembled(y) = x.emitted \o text /\ x.deltas = x.emitted \o x.pending
      BY <1>3, <2>1, <2>9
    <3>1. CASE IsPrefix(x.deltas, a)
      <4>1. x.emitted \o (x.pending \o rest) = (x.emitted \o x.pending) \o rest
        BY <1>1, <2>4, <3>1, TextsJoin
      <4>. QED
        BY <2>3, <2>4, <3>0, <3>1, <4>1
    <3>2. CASE ~IsPrefix(x.deltas, a) /\ x.chunks = <<>>
      <4>1. Assembled(x) = <<>>
        BY <3>2, AssembledNone
      <4>2. <<>> \o a = a
        BY <2>2, ConcatEmptySeq DEF Texts
      <4>. QED
        BY <2>3, <2>9, <3>2, <4>1, <4>2
    <3>3. CASE ~IsPrefix(x.deltas, a) /\ x.chunks # <<>>
      BY <2>3, <3>0, <3>3
    <3>. QED
      BY <3>1, <3>2, <3>3
  <2>12. Whole(y)
    BY <2>8, <2>9, <2>10, <2>11 DEF Whole
  <2>13. Texted(y)
    BY <1>3, <2>1, <2>8, <2>9, <2>12 DEF Texted, OnTheWay
  <2>. QED
    BY <1>2, <2>1, <2>8, <2>13
<1>7. CASE Artifact(e)
  <2>. DEFINE y == [x EXCEPT !.pc = "complete", !.chunks = Chunk(x, x.final, FALSE)]
  <2>1. exec' = [exec EXCEPT ![e] = y] /\ x.pc = "artifact" /\ UNCHANGED <<streaming, inFlight, log, starts, cancels>>
    BY <1>0, <1>7 DEF Artifact, At
  <2>2. x.chunks = <<>> /\ ~streaming /\ ~x.hit /\ ~x.cut
    BY <1>0, <2>1 DEF Texted, OnTheWay
  <2>3. Chunk(x, x.final, FALSE) \in Seq(Chunks)
    BY <1>1, AppendProperties DEF Chunk, Chunks
  <2>4. /\ y \in ExecRecords /\ y.pc = "complete" /\ y.since = x.since /\ y.hit = x.hit /\ y.cut = x.cut
        /\ y.final = x.final /\ y.chunks = Chunk(x, x.final, FALSE)
    <3>1. x \in ExecRecords
      BY <1>0
    <3>. HIDE DEF x
    <3>. QED
      BY <2>3, <3>1 DEF ExecRecords, ExecPlaces, Outside
  <2>. HIDE DEF y
  <2>5. /\ Assembled(y) = Assembled(x) \o x.final
        /\ Len(y.chunks) = Len(x.chunks) + 1
        /\ \A i \in 1..Len(y.chunks) : y.chunks[i].append = (i > 1)
        /\ y.chunks[Len(y.chunks)].last = FALSE
    <3>1. x.final \in Texts
      BY <1>1
    <3>. DEFINE c == [text |-> x.final, append |-> x.chunks # <<>>, last |-> FALSE]
    <3>2. c \in Chunks /\ c.text = x.final /\ c.last = FALSE /\ ((c.append = TRUE) <=> (x.chunks # <<>>))
      BY <3>1 DEF Chunks
    <3>3. y.chunks = Append(x.chunks, c)
      BY <2>4 DEF Chunk
    <3>8. Extending(x.chunks)
      BY <1>1 DEF Extending
    <3>. HIDE DEF x, c
    <3>9. OneMore(x, y, c)
      BY <3>2, <3>3, <3>8, ChunkAdded
    <3>. QED
      BY <3>2, <3>9 DEF OneMore
  <2>6. Assembled(y) = x.final
    <3>1. Assembled(x) = <<>>
      BY <2>2, AssembledNone
    <3>2. <<>> \o x.final = x.final
      BY <1>1, ConcatEmptySeq DEF Texts
    <3>. QED
      BY <2>5, <3>1, <3>2
  <2>7. \A i \in 1..Len(y.chunks) : y.chunks[i].last = (streaming /\ i = Len(y.chunks))
    <3>1. Len(y.chunks) = 1
      BY <2>2, <2>5
    <3>2. \A i \in 1..Len(y.chunks) : i = Len(y.chunks)
      BY <3>1
    <3>3. \A i \in 1..Len(y.chunks) : y.chunks[i].last = FALSE
      BY <2>5, <3>2
    <3>. QED
      BY <2>2, <3>3
  <2>8. Whole(y)
    BY <2>4, <2>5, <2>6, <2>7 DEF Whole
  <2>9. Texted(y)
    BY <2>2, <2>4, <2>5, <2>8 DEF Texted, OnTheWay
  <2>. QED
    BY <1>2, <2>1, <2>4, <2>9
<1>. QED
  BY <1>4, <1>5, <1>6, <1>7

\* The outcomes in a list of published states.
Ends(s) == {i \in DOMAIN s : s[i].state \in Terminal}

\* One more state, which is an outcome or not.
LEMMA EndsAppend ==
    ASSUME NEW s \in Seq(Entries), NEW n \in Entries
    PROVE  /\ Len(Append(s, n)) = Len(s) + 1 /\ Len(s) \in Nat /\ Ends(s) \subseteq 1..Len(s)
           /\ n.state \in Terminal => Ends(Append(s, n)) = Ends(s) \cup {Len(s) + 1}
           /\ n.state \notin Terminal => Ends(Append(s, n)) = Ends(s)
<1>. DEFINE t == Append(s, n)
<1>1. /\ t \in Seq(Entries) /\ Len(t) = Len(s) + 1 /\ Len(s) \in Nat /\ DOMAIN t = 1..Len(s) + 1 /\ DOMAIN s = 1..Len(s)
      /\ t[Len(s) + 1] = n /\ \A i \in 1..Len(s) : t[i] = s[i]
  BY AppendProperties, LenProperties
<1>. HIDE DEF t
<1>2. Ends(t) = {i \in 1..Len(s) + 1 : t[i].state \in Terminal} /\ Ends(s) = {i \in 1..Len(s) : s[i].state \in Terminal}
  BY <1>1 DEF Ends
<1>3. \A i \in 1..Len(s) + 1 : i = Len(s) + 1 \/ i \in 1..Len(s)
  BY <1>1
<1>4. Len(s) + 1 \in 1..Len(s) + 1 /\ \A i \in 1..Len(s) : i \in 1..Len(s) + 1
  BY <1>1
<1>5. n.state \in Terminal => Ends(t) = Ends(s) \cup {Len(s) + 1}
  BY <1>1, <1>2, <1>3, <1>4
<1>6. n.state \notin Terminal => Ends(t) = Ends(s)
  BY <1>1, <1>2, <1>3, <1>4
<1>. QED
  BY <1>1, <1>2, <1>5, <1>6 DEF t

\* What an execution has published is a list of entries.
LEMMA ByType ==
    ASSUME BridgeShape, NEW e \in Executions
    PROVE  By(e) \in Seq(Entries) /\ TaskOf[e] \in Tasks /\ log[TaskOf[e]] \in Seq(Entries)
<1>1. TaskOf[e] \in Tasks /\ log[TaskOf[e]] \in Seq(Entries)
  BY A2aAssumption DEF A2aAssumption, BridgeShape
<1>. QED
  BY <1>1, FilteredProperties DEF By

\* A published state is added to what its publisher has published, and to nothing else.
LEMMA ByAfter ==
    ASSUME BridgeShape, NEW t \in Tasks, NEW who \in Executions \cup {None}, NEW state \in Published,
           who \in Executions => t = TaskOf[who], Publish(t, who, state), NEW e \in Executions
    PROVE  By(e)' = IF who = e THEN Append(By(e), [by |-> e, state |-> state]) ELSE By(e)
<1>. DEFINE n == [by |-> who, state |-> state]
            T == [by : {e}, state : Published]
<1>1. TaskOf[e] \in Tasks /\ log[TaskOf[e]] \in Seq(Entries) /\ log \in [Tasks -> Seq(Entries)]
  BY ByType DEF BridgeShape
<1>2. n \in Entries /\ (n \in T <=> who = e)
  BY DEF Entries
<1>3. log' = [log EXCEPT ![t] = Append(log[t], n)]
  BY DEF Publish
<1>4. By(e) = Filtered(log[TaskOf[e]], T) /\ By(e)' = Filtered(log'[TaskOf[e]], T)
  BY DEF By
<1>. HIDE DEF n, T
<1>5. CASE TaskOf[e] # t
  <2>1. log'[TaskOf[e]] = log[TaskOf[e]] /\ who # e
    BY <1>1, <1>3, <1>5
  <2>. QED
    BY <1>4, <2>1
<1>6. CASE TaskOf[e] = t
  <2>1. log'[TaskOf[e]] = Append(log[TaskOf[e]], n)
    BY <1>1, <1>3, <1>6
  <2>2. Filtered(Append(log[TaskOf[e]], n), T)
          = IF n \in T THEN Append(Filtered(log[TaskOf[e]], T), n) ELSE Filtered(log[TaskOf[e]], T)
    <3>. DEFINE s == log[TaskOf[e]]
    <3>1. s \in Seq(Entries) /\ n \in Entries
      BY <1>1, <1>2
    <3>2. ASSUME NEW u \in Seq(Entries)
          PROVE  Filtered(Append(u, n), T) = IF n \in T THEN Append(Filtered(u, T), n) ELSE Filtered(u, T)
      BY <3>1, FilteredAppend
    <3>. QED
      BY <3>1, <3>2
  <2>3. By(e)' = IF who = e THEN Append(By(e), n) ELSE By(e)
    BY <1>2, <1>4, <2>1, <2>2
  <2>4. CASE who = e
    <3>1. n = [by |-> e, state |-> state]
      BY <2>4, Zenon DEF n
    <3>. QED
      BY <2>3, <2>4, <3>1, Zenon
  <2>5. CASE who # e
    BY <2>3, <2>5, Zenon
  <2>. QED
    BY <2>4, <2>5
<1>. QED
  BY <1>5, <1>6

\* A step of an execution adds at most one state to what it has published.
LEMMA Publishes ==
    ASSUME BridgeInv, NEW e \in Executions, NEW y, Moves(e, exec[e], y), NEW f \in Executions
    PROVE  /\ f # e => By(f)' = By(f)
           /\ \/ By(e)' = By(e) /\ log' = log /\ (y.pc = "done" => y.cut)
              \/ /\ y.pc # "done"
                 /\ \E state \in Published \ Terminal : Says(e, state) /\ By(e)' = Append(By(e), [by |-> e, state |-> state])
              \/ /\ y.pc = "done" /\ ~y.cut
                 /\ \E state \in Terminal : Says(e, state) /\ By(e)' = Append(By(e), [by |-> e, state |-> state])
<1>0. BridgeShape /\ TaskOf[e] \in Tasks
  BY ByType DEF BridgeInv
<1>1. ASSUME NEW state \in Published, Says(e, state)
      PROVE  (f # e => By(f)' = By(f)) /\ By(e)' = Append(By(e), [by |-> e, state |-> state])
  <2>1. \A g \in Executions : By(g)' = IF e = g THEN Append(By(g), [by |-> g, state |-> state]) ELSE By(g)
    BY <1>0, <1>1, ByAfter DEF Says
  <2>. QED
    BY <2>1
<1>2. Terminal \subseteq Published
  BY DEF Published
<1>3. CASE log' = log /\ (y.pc = "done" => y.cut)
  <2>1. \A g \in Executions : By(g)' = By(g)
    BY <1>3 DEF By
  <2>. QED
    BY <1>3, <2>1
<1>4. CASE y.pc # "done" /\ \E state \in Published \ Terminal : Says(e, state)
  BY <1>1, <1>4
<1>5. CASE y.pc = "done" /\ ~y.cut /\ \E state \in Terminal : Says(e, state)
  BY <1>1, <1>2, <1>5
<1>. QED
  BY <1>3, <1>4, <1>5 DEF Moves

\* One outcome each, and it comes last.
LEMMA OutcomesStep ==
    ASSUME BridgeInv, NEW e \in Executions, NEW y, Moves(e, exec[e], y)
    PROVE  EndsWithOutcome'
<1>0. /\ exec' = [exec EXCEPT ![e] = y] /\ exec \in [Executions -> ExecRecords] /\ exec[e].pc # "done" /\ BridgeShape
      /\ y.cut => y.pc = "done"
  BY DEF Moves, BridgeInv, BridgeShape, Texted, OnTheWay
<1>1. \A f \in Executions : exec'[f] = IF f = e THEN y ELSE exec[f]
  BY <1>0
<1>2. ASSUME NEW f \in Executions
      PROVE  /\ exec[f].pc = "done" /\ ~exec[f].cut => Ends(By(f)) = {Len(By(f))}
             /\ exec[f].pc # "done" \/ exec[f].cut => Ends(By(f)) = {}
  BY DEF BridgeInv, EndsWithOutcome, Ends
<1>3. ASSUME NEW f \in Executions
      PROVE  /\ exec'[f].pc = "done" /\ ~exec'[f].cut => Ends(By(f)') = {Len(By(f)')}
             /\ exec'[f].pc # "done" \/ exec'[f].cut => Ends(By(f)') = {}
  <2>1. CASE f # e
    <3>1. By(f)' = By(f)
      BY <2>1, Publishes
    <3>. QED
      BY <1>1, <1>2, <2>1, <3>1
  <2>2. CASE f = e
    <3>0. Ends(By(e)) = {} /\ By(e) \in Seq(Entries) /\ exec'[e] = y
      BY <1>0, <1>1, <1>2, ByType
    <3>1. CASE By(e)' = By(e) /\ (y.pc = "done" => y.cut)
      BY <2>2, <3>0, <3>1
    <3>2. ASSUME NEW state \in Published \ Terminal, By(e)' = Append(By(e), [by |-> e, state |-> state]), y.pc # "done"
          PROVE  Ends(By(e)') = {}
      <4>. DEFINE n == [by |-> e, state |-> state]
      <4>1. n \in Entries /\ n.state \notin Terminal
        BY DEF Entries
      <4>2. By(e)' = Append(By(e), n)
        BY <3>2
      <4>. HIDE DEF n
      <4>. QED
        BY <3>0, <4>1, <4>2, EndsAppend
    <3>3. ASSUME NEW state \in Terminal, By(e)' = Append(By(e), [by |-> e, state |-> state])
          PROVE  Ends(By(e)') = {Len(By(e)')}
      <4>. DEFINE n == [by |-> e, state |-> state]
      <4>1. n \in Entries /\ n.state \in Terminal
        BY DEF Entries, Published
      <4>2. By(e)' = Append(By(e), n)
        BY <3>3
      <4>. HIDE DEF n
      <4>3. Ends(By(e)') = {} \cup {Len(By(e)) + 1} /\ Len(By(e)') = Len(By(e)) + 1
        BY <3>0, <4>1, <4>2, EndsAppend
      <4>. QED
        BY <4>3
    <3>4. \/ By(e)' = By(e) /\ (y.pc = "done" => y.cut)
          \/ y.pc # "done" /\ \E state \in Published \ Terminal : By(e)' = Append(By(e), [by |-> e, state |-> state])
          \/ y.pc = "done" /\ ~y.cut /\ \E state \in Terminal : By(e)' = Append(By(e), [by |-> e, state |-> state])
      BY Publishes
    <3>5. CASE y.pc # "done" /\ \E state \in Published \ Terminal : By(e)' = Append(By(e), [by |-> e, state |-> state])
      <4>1. Ends(By(e)') = {}
        BY <3>2, <3>5
      <4>. QED
        BY <2>2, <3>0, <3>5, <4>1
    <3>6. CASE y.pc = "done" /\ ~y.cut /\ \E state \in Terminal : By(e)' = Append(By(e), [by |-> e, state |-> state])
      <4>1. Ends(By(e)') = {Len(By(e)')}
        BY <3>3, <3>6
      <4>. QED
        BY <2>2, <3>0, <3>6, <4>1
    <3>. QED
      BY <3>1, <3>4, <3>5, <3>6
  <2>. QED
    BY <2>1, <2>2
<1>. QED
  BY <1>3 DEF EndsWithOutcome, Ends

\* cancel() finds the newest execution of a task.
LEMMA FlightStep ==
    ASSUME BridgeInv, NEW e \in Executions, NEW y, Moves(e, exec[e], y)
    PROVE  CancelFindsNewest'
<1>0. /\ exec' = [exec EXCEPT ![e] = y] /\ exec \in [Executions -> ExecRecords] /\ BridgeShape /\ y \in ExecRecords
      /\ exec[e].pc # "done" /\ y.pc # "idle" /\ TaskOf \in [Executions -> Tasks] /\ None \notin Executions
      /\ inFlight \in [Tasks -> Executions \cup {None}] /\ starts \in Nat
      /\ \A f \in Executions : exec[f].since \in Nat /\ exec[f].since <= starts
  BY A2aAssumption DEF A2aAssumption, Moves, BridgeInv, BridgeShape, None, ExecRecords
<1>1. \A f \in Executions : exec'[f] = IF f = e THEN y ELSE exec[f]
  BY <1>0
<1>2. \A t \in Tasks : inFlight[t] # None => Running(inFlight[t]) /\ TaskOf[inFlight[t]] = t
  BY DEF BridgeInv, CancelFindsNewest
<1>3. ASSUME NEW f \in Executions, Running(f),
             \A g \in Executions : TaskOf[g] = TaskOf[f] => exec[g].since <= exec[f].since
      PROVE  inFlight[TaskOf[f]] = f
  BY <1>3 DEF BridgeInv, CancelFindsNewest
<1>. DEFINE Runs(f) == exec'[f].pc \notin {"idle", "done"}
            Newest(f) == \A g \in Executions : TaskOf[g] = TaskOf[f] => exec'[g].since <= exec'[f].since
<1>4. SUFFICES /\ \A t \in Tasks : inFlight'[t] # None => Runs(inFlight'[t]) /\ TaskOf[inFlight'[t]] = t
               /\ \A f \in Executions : Runs(f) /\ Newest(f) => inFlight'[TaskOf[f]] = f
  BY DEF CancelFindsNewest, Running
<1>5. CASE /\ exec[e].pc = "idle" /\ y.pc = "seed" /\ y.since = starts + 1
           /\ inFlight' = [inFlight EXCEPT ![TaskOf[e]] = e]
  <2>1. \A t \in Tasks : inFlight'[t] = IF t = TaskOf[e] THEN e ELSE inFlight[t]
    BY <1>0, <1>5
  <2>2. ASSUME NEW t \in Tasks, inFlight'[t] # None PROVE Runs(inFlight'[t]) /\ TaskOf[inFlight'[t]] = t
    <3>1. CASE t = TaskOf[e]
      BY <1>1, <1>5, <2>1, <3>1
    <3>2. CASE t # TaskOf[e]
      BY <1>0, <1>1, <1>2, <2>1, <2>2, <3>2 DEF Running
    <3>. QED
      BY <3>1, <3>2
  <2>3. ASSUME NEW f \in Executions, Runs(f), Newest(f) PROVE inFlight'[TaskOf[f]] = f
    <3>1. CASE f = e
      BY <1>0, <2>1, <3>1
    <3>2. CASE f # e
      <4>1. TaskOf[f] # TaskOf[e]
        <5>. SUFFICES ASSUME TaskOf[e] = TaskOf[f] PROVE FALSE
          OBVIOUS
        <5>1. exec'[e].since <= exec'[f].since
          BY <2>3
        <5>2. exec'[e].since = starts + 1 /\ exec'[f].since = exec[f].since
          BY <1>1, <1>5, <3>2
        <5>. QED
          BY <1>0, <5>1, <5>2
      <4>2. Running(f) /\ \A g \in Executions : TaskOf[g] = TaskOf[f] => exec[g].since <= exec[f].since
        BY <1>1, <2>3, <3>2, <4>1 DEF Running
      <4>. QED
        BY <1>0, <1>3, <2>1, <4>1, <4>2
    <3>. QED
      BY <3>1, <3>2
  <2>. QED
    BY <2>2, <2>3
<1>6. ASSUME exec[e].pc # "idle", y.since = exec[e].since
      PROVE  /\ Running(e) /\ \A f \in Executions : exec'[f].since = exec[f].since
             /\ \A f \in Executions : f # e => (Runs(f) <=> Running(f))
             /\ \A f \in Executions : Newest(f) <=>
                  \A g \in Executions : TaskOf[g] = TaskOf[f] => exec[g].since <= exec[f].since
  <2>1. \A f \in Executions : exec'[f].since = exec[f].since
    BY <1>1, <1>6
  <2>. QED
    BY <1>0, <1>1, <1>6, <2>1 DEF Running
<1>7. CASE exec[e].pc # "idle" /\ y.since = exec[e].since /\ y.pc # "done" /\ inFlight' = inFlight
  <2>1. Runs(e)
    BY <1>0, <1>1, <1>7
  <2>2. \A f \in Executions : Runs(f) <=> Running(f)
    BY <1>6, <1>7, <2>1
  <2>3. ASSUME NEW t \in Tasks, inFlight'[t] # None PROVE Runs(inFlight'[t]) /\ TaskOf[inFlight'[t]] = t
    <3>1. inFlight[t] \in Executions /\ inFlight'[t] = inFlight[t]
      BY <1>0, <1>7, <2>3
    <3>. QED
      BY <1>2, <2>2, <2>3, <3>1
  <2>4. ASSUME NEW f \in Executions, Runs(f), Newest(f) PROVE inFlight'[TaskOf[f]] = f
    BY <1>3, <1>6, <1>7, <2>2, <2>4
  <2>. QED
    BY <2>3, <2>4
<1>8. CASE exec[e].pc # "idle" /\ y.since = exec[e].since /\ y.pc = "done" /\ Leave(e)
  <2>1. ~Runs(e)
    BY <1>1, <1>8
  <2>2. \A t \in Tasks : inFlight'[t] = IF t = TaskOf[e] /\ inFlight[t] = e THEN None ELSE inFlight[t]
    BY <1>0, <1>8 DEF Leave
  <2>3. ASSUME NEW t \in Tasks, inFlight'[t] # None PROVE Runs(inFlight'[t]) /\ TaskOf[inFlight'[t]] = t
    <3>1. inFlight'[t] = inFlight[t] /\ inFlight[t] \in Executions
      BY <1>0, <2>2, <2>3
    <3>2. TaskOf[inFlight[t]] = t /\ Running(inFlight[t])
      BY <1>2, <2>3, <3>1
    <3>3. inFlight[t] # e
      BY <2>2, <2>3, <3>1, <3>2
    <3>. QED
      BY <1>6, <1>8, <3>1, <3>2, <3>3
  <2>4. ASSUME NEW f \in Executions, Runs(f), Newest(f) PROVE inFlight'[TaskOf[f]] = f
    <3>1. f # e /\ Running(f)
      BY <1>6, <1>8, <2>1, <2>4
    <3>2. inFlight[TaskOf[f]] = f /\ TaskOf[f] \in Tasks
      BY <1>0, <1>3, <1>6, <1>8, <2>4, <3>1
    <3>. QED
      BY <2>2, <3>1, <3>2
  <2>. QED
    BY <2>3, <2>4
<1>. QED
  <2>. HIDE DEF Runs, Newest
  <2>. QED
    BY <1>5, <1>7, <1>8 DEF Moves

\* The types and the count of the calls.
LEMMA ShapeStep ==
    ASSUME BridgeInv, NEW e \in Executions, NEW y, Moves(e, exec[e], y)
    PROVE  BridgeShape' /\ \A f \in Executions : Texted(exec[f])'
<1>0. /\ BridgeShape /\ exec' = [exec EXCEPT ![e] = y] /\ exec \in [Executions -> ExecRecords] /\ y \in ExecRecords
      /\ UNCHANGED <<streaming, cancels>> /\ Texted(y) /\ y.pc # "idle"
      /\ \A f \in Executions : Texted(exec[f])
      /\ inFlight \in [Tasks -> Executions \cup {None}] /\ log \in [Tasks -> Seq(Entries)]
  BY DEF BridgeInv, BridgeShape, Moves
<1>1. \A f \in Executions : exec'[f] = IF f = e THEN y ELSE exec[f]
  BY <1>0
<1>2. \A f \in Executions : Texted(exec[f])'
  <2>. SUFFICES ASSUME NEW f \in Executions PROVE Texted(exec[f])'
    OBVIOUS
  <2>1. Texted(exec'[f]) /\ streaming' = streaming
    BY <1>0, <1>1
  <2>. QED
    BY <2>1, Zenon DEF Texted, OnTheWay, Whole, Assembled
<1>3. exec' \in [Executions -> ExecRecords]
  BY <1>0
<1>4. log' \in [Tasks -> Seq(Entries)]
  <2>1. ASSUME NEW state \in Published, Says(e, state) PROVE log' \in [Tasks -> Seq(Entries)]
    <3>1. TaskOf[e] \in Tasks /\ log[TaskOf[e]] \in Seq(Entries)
      BY <1>0, ByType
    <3>. DEFINE n == [by |-> e, state |-> state]
    <3>2. n \in Entries /\ log' = [log EXCEPT ![TaskOf[e]] = Append(log[TaskOf[e]], n)]
      BY <2>1 DEF Says, Publish, Entries
    <3>. HIDE DEF n
    <3>3. Append(log[TaskOf[e]], n) \in Seq(Entries)
      BY <3>1, <3>2, AppendProperties
    <3>. QED
      BY <1>0, <3>2, <3>3
  <2>2. log' = log \/ \E state \in Published : Says(e, state)
    BY DEF Moves, Published
  <2>. QED
    BY <1>0, <2>1, <2>2
<1>5. inFlight' \in [Tasks -> Executions \cup {None}]
  BY <1>0 DEF Moves, Leave
<1>. DEFINE Begun == {f \in Executions : exec[f].pc # "idle"}
            Now == {f \in Executions : exec'[f].pc # "idle"}
<1>6. starts \in Nat /\ starts = Cardinality(Begun) /\ \A f \in Executions : exec[f].since \in Nat /\ exec[f].since <= starts
  BY <1>0 DEF BridgeShape, ExecRecords
<1>7. starts' \in Nat /\ starts' = Cardinality(Now) /\ \A f \in Executions : exec'[f].since <= starts'
  <2>1. CASE exec[e].pc = "idle" /\ starts' = starts + 1 /\ y.since = starts + 1
    <3>1. Now = Begun \cup {e} /\ e \notin Begun
      BY <1>0, <1>1, <2>1
    <3>2. IsFiniteSet(Begun)
      BY A2aAssumption, FS_Subset DEF A2aAssumption
    <3>3. Cardinality(Now) = Cardinality(Begun) + 1
      <4>. HIDE DEF Now, Begun
      <4>. QED
        BY <3>1, <3>2, FS_AddElement
    <3>4. \A f \in Executions : exec'[f].since <= starts'
      BY <1>1, <1>6, <2>1
    <3>. HIDE DEF Now, Begun
    <3>. QED
      BY <1>6, <2>1, <3>3, <3>4
  <2>2. CASE exec[e].pc # "idle" /\ starts' = starts /\ y.since = exec[e].since
    <3>1. Now = Begun
      BY <1>0, <1>1, <2>2
    <3>. QED
      BY <1>1, <1>6, <2>2, <3>1
  <2>. QED
    BY <2>1, <2>2 DEF Moves
<1>8. BridgeShape'
  BY <1>0, <1>3, <1>4, <1>5, <1>7 DEF BridgeShape
<1>. QED
  BY <1>2, <1>8

\* Every execution's step is one of the moves.
LEMMA ExecutionMoves ==
    ASSUME BridgeInv, NEW e \in Executions, ExecStep(e)
    PROVE  \E y : Moves(e, exec[e], y)
  BY QuietMoves, TextMoves DEF ExecStep

\* A call of cancel() keeps the books.
LEMMA CancelStep ==
    ASSUME BridgeInv, NEW t \in Tasks, Cancel(t)
    PROVE  /\ BridgeInv'
           /\ \A e \in Executions : By(e)' = By(e) /\ exec'[e].chunks = exec[e].chunks
<1>0. /\ BridgeShape /\ exec \in [Executions -> ExecRecords] /\ inFlight \in [Tasks -> Executions \cup {None}]
      /\ log \in [Tasks -> Seq(Entries)] /\ cancels \in 0..MaxCancels /\ MaxCancels \in Nat /\ None \notin Executions
      /\ cancels < MaxCancels /\ cancels' = cancels + 1 /\ UNCHANGED <<streaming, inFlight, starts>>
      /\ \A e \in Executions : Texted(exec[e])
  BY A2aAssumption DEF A2aAssumption, None, BridgeInv, BridgeShape, Cancel
<1>1. /\ \A e \in Executions : /\ exec'[e].pc = exec[e].pc /\ exec'[e].since = exec[e].since /\ exec'[e].hit = exec[e].hit
                               /\ exec'[e].cut = exec[e].cut /\ SameText(exec[e], exec'[e])
                               /\ exec'[e].asked => exec[e].asked \/ exec[e].pc # "idle"
      /\ exec' \in [Executions -> ExecRecords]
  <2>1. CASE inFlight[t] = None
    BY <1>0, <2>1 DEF Cancel, SameText
  <2>2. CASE inFlight[t] # None
    <3>. DEFINE f == inFlight[t]
                x == exec[f]
                y == [x EXCEPT !.asked = TRUE]
    <3>1. f \in Executions /\ exec' = [exec EXCEPT ![f] = y] /\ x.pc # "idle"
      BY <1>0, <2>2 DEF Cancel, BridgeInv, CancelFindsNewest, Running
    <3>2. /\ y \in ExecRecords /\ y.pc = x.pc /\ y.since = x.since /\ y.hit = x.hit /\ y.cut = x.cut /\ SameText(x, y)
      <4>1. x \in ExecRecords
        BY <1>0, <3>1
      <4>. HIDE DEF x
      <4>. QED
        BY <4>1 DEF ExecRecords, SameText
    <3>. HIDE DEF y, f
    <3>3. \A e \in Executions : exec'[e] = IF e = f THEN y ELSE exec[e]
      BY <1>0, <3>1
    <3>4. exec' \in [Executions -> ExecRecords]
      BY <1>0, <3>1, <3>2
    <3>5. \A e \in Executions : SameText(exec[e], exec'[e])
      BY <3>2, <3>3 DEF SameText
    <3>. QED
      BY <3>1, <3>2, <3>3, <3>4, <3>5
  <2>. QED
    BY <2>1, <2>2
<1>2. /\ log' \in [Tasks -> Seq(Entries)]
      /\ \A e \in Executions : By(e)' = By(e)
  <2>1. CASE log' = log
    BY <1>0, <2>1 DEF By
  <2>2. CASE Publish(t, None, "canceled")
    <3>. DEFINE n == [by |-> None, state |-> "canceled"]
    <3>1. n \in Entries /\ log' = [log EXCEPT ![t] = Append(log[t], n)] /\ "canceled" \in Published
      BY <2>2 DEF Publish, Entries, Published, Terminal
    <3>. HIDE DEF n
    <3>2. Append(log[t], n) \in Seq(Entries)
      BY <1>0, <3>1, AppendProperties
    <3>3. log' \in [Tasks -> Seq(Entries)]
      BY <1>0, <3>1, <3>2
    <3>4. ASSUME NEW e \in Executions PROVE By(e)' = By(e)
      <4>1. None # e /\ None \in Executions \cup {None} /\ (None \in Executions => t = TaskOf[None])
        BY <1>0
      <4>2. By(e)' = IF None = e THEN Append(By(e), [by |-> e, state |-> "canceled"]) ELSE By(e)
        BY <1>0, <2>2, <3>1, <4>1, ByAfter
      <4>. QED
        BY <4>1, <4>2
    <3>. QED
      BY <3>3, <3>4
  <2>. QED
    BY <2>1, <2>2 DEF Cancel
<1>3. BridgeShape'
  <2>1. {e \in Executions : exec'[e].pc # "idle"} = {e \in Executions : exec[e].pc # "idle"}
    BY <1>1
  <2>2. \A e \in Executions : exec'[e].since <= starts'
    BY <1>0, <1>1 DEF BridgeShape
  <2>3. cancels' \in 0..MaxCancels
    BY <1>0
  <2>. QED
    BY <1>0, <1>1, <1>2, <2>1, <2>2, <2>3 DEF BridgeShape
<1>4. \A e \in Executions : Texted(exec[e])'
  <2>. SUFFICES ASSUME NEW e \in Executions PROVE Texted(exec[e])'
    OBVIOUS
  <2>. DEFINE x == exec[e]
              y == exec'[e]
  <2>1. Texted(x) /\ SameText(x, y) /\ y.pc = x.pc /\ y.hit = x.hit /\ y.cut = x.cut /\ (y.asked => x.asked \/ x.pc # "idle")
    BY <1>0, <1>1
  <2>2. Assembled(y) = Assembled(x)
    BY <2>1, AssembledSame DEF SameText
  <2>. HIDE DEF x, y
  <2>3. OnTheWay(y)
    BY <2>1, <2>2 DEF Texted, OnTheWay, SameText
  <2>4. Whole(x) => Whole(y)
    BY <2>1, <2>2 DEF Whole, SameText
  <2>5. Texted(y)
    BY <2>1, <2>3, <2>4 DEF Texted, SameText
  <2>. QED
    BY <1>0, <2>5 DEF Texted, OnTheWay, Whole, Assembled, y
<1>5. CancelFindsNewest'
  <2>1. \A e \in Executions : Running(e)' <=> Running(e)
    BY <1>1 DEF Running
  <2>2. \A u \in Tasks : inFlight[u] # None => inFlight[u] \in Executions
    BY <1>0
  <2>3. \A u \in Tasks : inFlight'[u] # None => exec'[inFlight'[u]].pc \notin {"idle", "done"} /\ TaskOf[inFlight'[u]] = u
    BY <1>0, <1>1, <2>2 DEF BridgeInv, CancelFindsNewest, Running
  <2>4. ASSUME NEW e \in Executions, exec'[e].pc \notin {"idle", "done"},
               \A f \in Executions : TaskOf[f] = TaskOf[e] => exec'[f].since <= exec'[e].since
        PROVE  inFlight'[TaskOf[e]] = e
    <3>1. Running(e) /\ \A f \in Executions : TaskOf[f] = TaskOf[e] => exec[f].since <= exec[e].since
      BY <1>1, <2>4 DEF Running
    <3>. QED
      BY <1>0, <3>1 DEF BridgeInv, CancelFindsNewest
  <2>. QED
    BY <2>3, <2>4 DEF CancelFindsNewest, Running
<1>6. EndsWithOutcome'
  BY <1>1, <1>2 DEF BridgeInv, EndsWithOutcome
<1>7. \A e \in Executions : exec'[e].chunks = exec[e].chunks
  BY <1>1 DEF SameText
<1>. QED
  BY <1>2, <1>3, <1>4, <1>5, <1>6, <1>7 DEF BridgeInv

\* The bridge starts with nothing published and no one registered.
LEMMA BridgeInit ==
    ASSUME Init
    PROVE  BridgeInv /\ PushInv
<1>. DEFINE x == [pc |-> "idle", asked |-> FALSE, hit |-> FALSE, cut |-> FALSE, deltas |-> <<>>, emitted |-> <<>>,
                  pending |-> <<>>, final |-> <<>>, chunks |-> <<>>, since |-> 0]
            z == [pc |-> "idle", todo |-> <<>>, read |-> {}, got |-> [c \in Callbacks |-> <<>>]]
<1>0. /\ streaming \in BOOLEAN /\ exec = [e \in Executions |-> x] /\ inFlight = [t \in Tasks |-> None]
      /\ log = [t \in Tasks |-> <<>>] /\ starts = 0 /\ cancels = 0 /\ registered = <<>> /\ push = [s \in Senders |-> z]
  BY DEF Init
<1>1. x \in ExecRecords /\ x.pc = "idle" /\ x.since = 0
  BY DEF ExecRecords, ExecPlaces, Texts
<1>2. Texted(x)
  BY DEF Texted, OnTheWay
<1>3. z \in SenderRecords /\ Notifies(z)
  <2>1. Members(z.todo) = {} /\ NoRepeats(z.todo)
    BY MembersEmpty DEF NoRepeats
  <2>2. z \in SenderRecords
    <3>1. [c \in Callbacks |-> <<>>] \in [Callbacks -> Seq(Results)]
      OBVIOUS
    <3>. QED
      BY <3>1 DEF SenderRecords
  <2>. QED
    BY <2>1, <2>2 DEF Notifies
<1>. HIDE DEF x, z
<1>4. BridgeShape
  <2>1. {e \in Executions : exec[e].pc # "idle"} = {}
    BY <1>0, <1>1
  <2>2. Cardinality({}) = 0
    BY FS_EmptySet
  <2>3. cancels \in 0..MaxCancels
    BY <1>0, A2aAssumption DEF A2aAssumption
  <2>4. \A e \in Executions : exec[e].since <= starts
    BY <1>0, <1>1
  <2>5. exec \in [Executions -> ExecRecords] /\ inFlight \in [Tasks -> Executions \cup {None}]
    BY <1>0, <1>1
  <2>6. log \in [Tasks -> Seq(Entries)]
    <3>. HIDE DEF Entries
    <3>1. <<>> \in Seq(Entries)
      OBVIOUS
    <3>. QED
      BY <1>0, <3>1
  <2>7. starts \in Nat /\ starts = Cardinality({e \in Executions : exec[e].pc # "idle"})
    BY <1>0, <2>1, <2>2
  <2>. QED
    BY <1>0, <2>3, <2>4, <2>5, <2>6, <2>7 DEF BridgeShape
<1>5. \A e \in Executions : Texted(exec[e])
  BY <1>0, <1>2
<1>6. CancelFindsNewest
  BY <1>0, <1>1 DEF CancelFindsNewest, Running
<1>7. EndsWithOutcome
  <2>. SUFFICES ASSUME NEW e \in Executions
                PROVE  /\ exec[e].pc = "done" /\ ~exec[e].cut => Ends(By(e)) = {Len(By(e))}
                       /\ exec[e].pc # "done" \/ exec[e].cut => Ends(By(e)) = {}
    BY DEF EndsWithOutcome, Ends
  <2>1. TaskOf[e] \in Tasks /\ log[TaskOf[e]] = <<>> /\ exec[e].pc = "idle"
    BY <1>0, <1>1, A2aAssumption DEF A2aAssumption
  <2>2. Filtered(<<>>, [by : {e}, state : Published]) \in Seq(Entries) /\ Len(<<>>) = 0
    <3>1. <<>> \in Seq(Entries) /\ Len(<<>>) = 0
      OBVIOUS
    <3>. DEFINE T == [by : {e}, state : Published]
    <3>. HIDE DEF T
    <3>2. Filtered(<<>>, T) \in Seq(Entries)
      BY <3>1, FilteredProperties
    <3>. QED
      BY <3>1, <3>2 DEF T
  <2>3. Members(By(e)) = {} /\ By(e) \in Seq(Entries)
    <3>1. <<>> \in Seq(Entries) /\ Members(<<>>) = {}
      BY MembersEmpty
    <3>2. By(e) = Filtered(<<>>, [by : {e}, state : Published])
      BY <2>1 DEF By
    <3>. DEFINE T == [by : {e}, state : Published]
    <3>. HIDE DEF T
    <3>3. Members(Filtered(<<>>, T)) = Members(<<>>) \cap T
      BY <3>1, FilteredMembers
    <3>. QED
      BY <2>2, <3>1, <3>2, <3>3 DEF T
  <2>4. Ends(By(e)) = {}
    BY <2>3 DEF Members, Ends
  <2>. QED
    BY <2>1, <2>4
<1>8. PushInv
  BY <1>0, <1>3 DEF PushInv, NoRepeats
<1>. QED
  BY <1>4, <1>5, <1>6, <1>7, <1>8 DEF BridgeInv

\* Every step of the bridge keeps the books.
LEMMA BridgeStep ==
    ASSUME BridgeInv, [Next]_avars
    PROVE  BridgeInv'
<1>1. ASSUME UNCHANGED <<streaming, exec, inFlight, log, starts, cancels>> PROVE BridgeInv'
  <2>1. BridgeShape'
    BY <1>1 DEF BridgeInv, BridgeShape
  <2>2. \A e \in Executions : Texted(exec[e])'
    <3>. SUFFICES ASSUME NEW e \in Executions PROVE Texted(exec[e])'
      OBVIOUS
    <3>1. Texted(exec[e]) /\ exec' = exec /\ streaming' = streaming
      BY <1>1 DEF BridgeInv
    <3>. QED
      BY <3>1, Zenon DEF Texted, OnTheWay, Whole, Assembled
  <2>3. CancelFindsNewest'
    BY <1>1, Zenon DEF BridgeInv, CancelFindsNewest, Running
  <2>4. EndsWithOutcome'
    BY <1>1, Zenon DEF BridgeInv, EndsWithOutcome, By
  <2>. QED
    BY <2>1, <2>2, <2>3, <2>4 DEF BridgeInv
<1>2. ASSUME NEW e \in Executions, ExecStep(e) PROVE BridgeInv'
  <2>1. PICK y : Moves(e, exec[e], y)
    BY <1>2, ExecutionMoves
  <2>. QED
    BY <2>1, ShapeStep, FlightStep, OutcomesStep DEF BridgeInv
<1>3. ASSUME NEW t \in Tasks, Cancel(t) PROVE BridgeInv'
  BY <1>3, CancelStep
<1>4. ASSUME NEW s \in Senders, PushStep(s) PROVE BridgeInv'
  BY <1>1, <1>4 DEF PushStep, SendNotification, NextCallback, Post, PushSet
<1>5. ASSUME NEW c \in Callbacks, SetInfo(c) PROVE BridgeInv'
  BY <1>1, <1>5 DEF SetInfo
<1>6. ASSUME NEW gone \in SUBSET Callbacks, DeleteInfo(gone) PROVE BridgeInv'
  BY <1>1, <1>6 DEF DeleteInfo
<1>7. CASE UNCHANGED avars
  BY <1>1, <1>7 DEF avars
<1>. QED
  BY <1>2, <1>3, <1>4, <1>5, <1>6, <1>7 DEF Next

\* What the invariants say of a state is what a client relies on.
LEMMA BooksSuffice ==
    ASSUME BridgeInv, PushInv
    PROVE  BridgeSound
<1>0. /\ BridgeShape /\ exec \in [Executions -> ExecRecords]
      /\ push \in [Senders -> SenderRecords] /\ \A s \in Senders : Notifies(push[s])
  BY DEF BridgeInv, BridgeShape, PushInv
<1>1. ASSUME NEW e \in Executions
      PROVE  /\ exec[e].pc \in {"idle", "done"} \cup Body \cup Outside
             /\ {exec[e].asked, exec[e].hit, exec[e].cut} \subseteq BOOLEAN
             /\ {exec[e].deltas, exec[e].emitted, exec[e].pending, exec[e].final} \subseteq Texts
             /\ exec[e].chunks \in Seq([text : Texts, append : BOOLEAN, last : BOOLEAN])
             /\ exec[e].since \in 0..starts
  <2>1. exec[e] \in ExecRecords /\ exec[e].since <= starts /\ starts \in Nat
    BY <1>0 DEF BridgeShape
  <2>. QED
    BY <2>1 DEF ExecRecords, ExecPlaces, Chunks
<1>2. starts \in 0..Cardinality(Executions)
  <2>. DEFINE Begun == {e \in Executions : exec[e].pc # "idle"}
  <2>1. Begun \subseteq Executions /\ IsFiniteSet(Executions) /\ starts = Cardinality(Begun) /\ starts \in Nat
    BY <1>0, A2aAssumption DEF A2aAssumption, BridgeShape
  <2>. HIDE DEF Begun
  <2>2. Cardinality(Begun) <= Cardinality(Executions) /\ Cardinality(Executions) \in Nat
    BY <2>1, FS_Subset, FS_CardinalityType
  <2>. QED
    BY <2>1, <2>2
<1>3. ASSUME NEW s \in Senders, NEW c \in Callbacks
      PROVE  /\ push[s].got[c] \in Seq(Results) /\ Len(push[s].got[c]) <= MaxAttempts
             /\ push[s].pc = "done" /\ c \in push[s].read => Settled(push[s].got[c])
  <2>. DEFINE x == push[s]
  <2>1. x \in SenderRecords /\ Notifies(x)
    BY <1>0
  <2>. HIDE DEF x
  <2>2. x.got[c] \in Seq(Results) /\ x.todo \in Seq(Callbacks) /\ Len(<<>>) = 0 /\ MaxAttempts \in Nat
    BY <2>1, A2aAssumption DEF SenderRecords, A2aAssumption
  <2>3. x.got[c] = <<>> \/ Settled(x.got[c]) \/ Sending(x.got[c])
    <3>1. CASE c \notin x.read \/ c \notin Members(x.todo)
      BY <2>1, <3>1 DEF Notifies
    <3>2. CASE c \in Members(x.todo) /\ x.pc # "post"
      BY <2>1, <3>2 DEF Notifies
    <3>3. CASE c \in Members(x.todo) /\ x.pc = "post"
      <4>1. x.todo # <<>>
        BY <2>1, <3>3 DEF Notifies
      <4>2. Members(x.todo) = {Head(x.todo)} \cup Members(Tail(x.todo))
        BY <2>2, <4>1, MembersPop
      <4>. QED
        BY <2>1, <3>3, <4>2 DEF Notifies
    <3>. QED
      BY <3>1, <3>2, <3>3
  <2>4. Len(x.got[c]) <= MaxAttempts
    BY <2>2, <2>3 DEF Settled, Sending
  <2>5. x.pc = "done" /\ c \in x.read => Settled(x.got[c])
    <3>1. x.pc = "done" => Members(x.todo) = {}
      BY <2>1, MembersEmpty DEF Notifies
    <3>. QED
      BY <2>1, <3>1 DEF Notifies
  <2>. QED
    BY <2>2, <2>4, <2>5 DEF x
<1>4. ASSUME NEW s \in Senders
      PROVE  /\ push[s].pc \in {"idle", "next", "post", "done", "raised"}
             /\ push[s].todo \in Seq(Callbacks) /\ push[s].read \in SUBSET Callbacks
  BY <1>0 DEF SenderRecords
<1>5. TypeOK
  BY <1>0, <1>1, <1>2, <1>3, <1>4 DEF TypeOK, BridgeShape, PushInv, Entries
<1>6. ArtifactWhole
  <2>. SUFFICES ASSUME NEW e \in Executions, exec[e].pc = "done", ~exec[e].hit, exec[e].final # <<>>
                PROVE  /\ \/ Assembled(exec[e]) = exec[e].final
                          \/ Assembled(exec[e]) = exec[e].deltas /\ ~IsPrefix(exec[e].deltas, exec[e].final)
                       /\ \A i \in DOMAIN exec[e].chunks :
                            /\ exec[e].chunks[i].append = (i > 1)
                            /\ exec[e].chunks[i].last = (streaming /\ i = Len(exec[e].chunks))
    BY DEF ArtifactWhole
  <2>1. Texted(exec[e]) /\ exec[e].chunks \in Seq(Chunks)
    BY <1>0 DEF BridgeInv, ExecRecords
  <2>2. Whole(exec[e]) /\ DOMAIN exec[e].chunks = 1..Len(exec[e].chunks)
    BY <2>1 DEF Texted
  <2>. QED
    BY <2>2 DEF Whole
<1>7. PushSettled
  <2>. SUFFICES ASSUME NEW s \in Senders, push[s].pc = "done", NEW c \in push[s].read
                PROVE  LET got == push[s].got[c] IN
                       /\ got # <<>> /\ (Last(got) \in {"ok", "refused"} \/ Len(got) = MaxAttempts)
                       /\ \A i \in DOMAIN got : got[i] \in {"ok", "refused"} => i = Len(got)
    BY DEF PushSettled
  <2>1. c \in Callbacks
    BY <1>4
  <2>2. Settled(push[s].got[c]) /\ push[s].got[c] \in Seq(Results)
    BY <1>3, <2>1
  <2>. DEFINE got == push[s].got[c]
  <2>3. DOMAIN got = 1..Len(got)
    BY <2>2, LenProperties
  <2>. QED
    BY <2>2, <2>3 DEF Settled, Last
<1>. QED
  BY <1>5, <1>6, <1>7 DEF BridgeSound, BridgeInv

\* What the executor and the push sender promise (execute, _stream_response, cancel,
\* send_notification): cancel() finds the newest running execution of a task, every
\* execution ends in one outcome with a whole artifact, and a notification that ends is
\* settled with every callback it read; for any number of executions, tasks, chunks,
\* callbacks and attempts.
THEOREM BridgeIsSound == Spec => []BridgeSound
<1>1. Init => BridgeInv /\ PushInv
  BY BridgeInit
<1>2. BridgeInv /\ PushInv /\ [Next]_avars => (BridgeInv /\ PushInv)'
  BY BridgeStep, PushSteps
<1>3. BridgeInv /\ PushInv => BridgeSound
  BY BooksSuffice
<1>. QED
  BY <1>1, <1>2, <1>3, PTL DEF Spec

\* A step of the bridge changes nothing that a cancelled execution has published, but
\* for the cancellation itself.
LEMMA CancelHolds ==
    ASSUME BridgeInv, [Next]_avars, NEW e \in Executions, exec[e].hit
    PROVE  /\ exec'[e].chunks = exec[e].chunks
           /\ By(e)' = By(e) \/ By(e)' = Append(By(e), [by |-> e, state |-> "canceled"])
<1>1. ASSUME UNCHANGED <<exec, log>>
      PROVE  exec'[e].chunks = exec[e].chunks /\ By(e)' = By(e)
  BY <1>1 DEF By
<1>2. ASSUME NEW f \in Executions, ExecStep(f)
      PROVE  /\ exec'[e].chunks = exec[e].chunks
             /\ By(e)' = By(e) \/ By(e)' = Append(By(e), [by |-> e, state |-> "canceled"])
  <2>1. PICK y : Moves(f, exec[f], y)
    BY <1>2, ExecutionMoves
  <2>2. exec' = [exec EXCEPT ![f] = y] /\ exec \in [Executions -> ExecRecords] /\ BridgeShape
    BY <2>1 DEF Moves, BridgeInv, BridgeShape
  <2>3. CASE f # e
    BY <2>1, <2>2, <2>3, Publishes
  <2>4. CASE f = e
    <3>1. y.chunks = exec[e].chunks /\ (log' = log \/ Says(e, "canceled"))
      BY <2>1, <2>4 DEF Moves
    <3>2. exec'[e].chunks = exec[e].chunks
      BY <2>2, <2>4, <3>1
    <3>3. CASE log' = log
      BY <3>2, <3>3 DEF By
    <3>4. CASE Says(e, "canceled")
      <4>1. TaskOf[e] \in Tasks /\ "canceled" \in Published /\ Publish(TaskOf[e], e, "canceled")
        BY <2>2, <3>4, ByType DEF Published, Terminal, Says
      <4>2. By(e)' = IF e = e THEN Append(By(e), [by |-> e, state |-> "canceled"]) ELSE By(e)
        BY <2>2, <4>1, ByAfter
      <4>. QED
        BY <3>2, <4>2
    <3>. QED
      BY <3>1, <3>3, <3>4
  <2>. QED
    BY <2>3, <2>4
<1>3. ASSUME NEW t \in Tasks, Cancel(t) PROVE exec'[e].chunks = exec[e].chunks /\ By(e)' = By(e)
  BY <1>3, CancelStep
<1>4. ASSUME NEW s \in Senders, PushStep(s) PROVE exec'[e].chunks = exec[e].chunks /\ By(e)' = By(e)
  BY <1>1, <1>4 DEF PushStep, SendNotification, NextCallback, Post, PushSet
<1>5. ASSUME NEW c \in Callbacks, SetInfo(c) PROVE exec'[e].chunks = exec[e].chunks /\ By(e)' = By(e)
  BY <1>1, <1>5 DEF SetInfo
<1>6. ASSUME NEW gone \in SUBSET Callbacks, DeleteInfo(gone) PROVE exec'[e].chunks = exec[e].chunks /\ By(e)' = By(e)
  BY <1>1, <1>6 DEF DeleteInfo
<1>7. CASE UNCHANGED avars
  BY <1>1, <1>7 DEF avars
<1>. QED
  BY <1>2, <1>3, <1>4, <1>5, <1>6, <1>7 DEF Next

\* Once a cancellation has reached an execution (CancelledError in execute), it publishes
\* no text, no completion and no failure any more, whatever other executions, further
\* cancellations and notifications do.
THEOREM CancellationWins == Spec => CancelWins
<1>1. Init => BridgeInv
  BY BridgeInit
<1>2. BridgeInv /\ [Next]_avars => BridgeInv'
  BY BridgeStep
<1>3. BridgeInv /\ [Next]_avars =>
        [\A e \in Executions : exec[e].hit =>
            /\ exec'[e].chunks = exec[e].chunks
            /\ By(e)' = By(e) \/ By(e)' = Append(By(e), [by |-> e, state |-> "canceled"])]_avars
  BY CancelHolds
<1>. QED
  BY <1>1, <1>2, <1>3, PTL DEF Spec, CancelWins
=============================================================================
