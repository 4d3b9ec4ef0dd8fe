-------------------------- MODULE InvocationProofs --------------------------
(***************************************************************************)
(* Proofs about Invocation for any number of requests, any iteration       *)
(* limit, any wave size and any number of retries: checkpoints know every  *)
(* side effect, a continuation is acted on once and only as approved, and  *)
(* nothing is replayed by a request that does not know what was done.      *)
(* And about the circuit breaker those requests share.                     *)
(***************************************************************************)
EXTENDS Invocation, CircuitBreaker, TLAPS

\* The record type of a request, as in TypeOK.
Rec == [pc : InvPc, kind : {"fresh", "resume", "approve"}, key : Slots,
        cid : Slots, approve : BOOLEAN, iter : 0..MaxIterations,
        known : SUBSET Effects, wave : Waves \cup {<<>>}, at : 1..WaveMax,
        granted : 0..MaxIterations,
        tries : 0..RetryMax, attempted : BOOLEAN, emitted : BOOLEAN]

Checkpoint == [known : SUBSET Effects, iter : 0..MaxIterations]
Pending == [known : SUBSET Effects, iter : 0..MaxIterations, wave : Waves]

\* What every request can rely on by itself: it asks the model only below the
\* iteration limit, a wave it is about to run or to have approved exists, what
\* it attempted or was granted came after it entered, and a denied wave is
\* behind it when it runs another.
Sound(r) ==
    /\ r.pc \in {"save", "model", "pauseSave", "delete", "tools", "consume"}
          => r.iter < MaxIterations
    /\ r.pc \in {"pauseSave", "delete", "tools", "consume"} => r.iter # 0 /\ r.wave \in Waves
    /\ r.pc \in {"delete", "tools", "consume"} => r.at <= Len(r.wave)
    /\ r.attempted => r.pc \notin {"unused", "load", "take", "consume"}
    /\ r.granted # 0 => /\ r.pc \notin {"unused", "load", "take", "consume"}
                        /\ r.kind = "approve"
                        /\ r.granted <= r.iter
                        /\ r.pc \in {"pauseSave", "delete"} => r.granted < r.iter
                        /\ r.pc = "tools" /\ ~r.approve => r.granted < r.iter
    /\ r.kind = "approve" /\ r.pc \in {"save", "model"} => r.iter # 0
    /\ r.pc \in {"take", "consume"} => r.kind = "approve"
    /\ r.pc = "load" => r.kind = "resume"
    /\ r.pc = "unused" => r.kind = "fresh"

\* All requests are of that kind.
Requests == inv \in [Slots -> Rec] /\ \A i \in Slots : Sound(inv[i])

\* What is stored was stored below the iteration limit, a continuation after a
\* model turn.
Stores ==
    /\ ckpt \in [Slots -> {None} \cup Checkpoint]
    /\ pend \in [Slots -> {None} \cup Pending]
    /\ \A k \in Slots : ckpt[k] # None => ckpt[k] \in Checkpoint /\ ckpt[k].iter < MaxIterations
    /\ \A c \in Slots : pend[c] # None => /\ pend[c] \in Pending
                                          /\ pend[c].iter \in 1..(MaxIterations - 1)

Shape ==
    /\ setup \in Setups
    /\ Requests
    /\ Stores
    /\ performed \in SUBSET Effects
    /\ blind \in SUBSET Effects

\* Under approvals what was performed was granted, by a request that can no
\* longer be retried.
Gate == \A e \in performed : inv[e[1]].attempted /\ (setup.approval =>
            /\ inv[e[1]].kind = "approve" /\ inv[e[1]].approve /\ inv[e[1]].granted = e[2])

\* A continuation belongs to the request that first paused under its id;
\* the requests that answer it come after that pause.
Roots ==
    \A i \in Slots :
        /\ inv[i].kind # "approve" => inv[i].cid = i
        /\ inv[i].kind = "approve" =>
              inv[inv[i].cid].kind # "approve" /\ inv[inv[i].cid].pc = "paused"

\* A client that does not overlap its requests has one running at a time.
OneActive == ~setup.concurrent => \A i, j \in Slots : Active(i) /\ Active(j) => i = j

\* A request holds a continuation from the time it read it until it saves a new
\* one, fails or answers.
Held == {"consume", "save", "model", "pauseSave", "delete", "tools"}
Holds(i) == inv[i].kind = "approve" /\ inv[i].pc \in Held

\* A continuation is a token: either in the store or with one request (between
\* get and delete of a store that suspends, both, and then only one request is
\* active).  A stored continuation, and the holder of one, is ahead of every wave
\* granted under its id.
Tokens ==
    /\ \A i \in Slots : inv[i].pc = "consume" => ~setup.atomicTake
    /\ \A i \in Slots : Holds(i) /\ inv[i].pc # "consume" => pend[inv[i].cid] = None
    /\ \A i, j \in Slots : Holds(i) /\ Holds(j) /\ inv[i].cid = inv[j].cid => i = j
    /\ \A j \in Slots : pend[inv[j].cid] # None => inv[j].granted < pend[inv[j].cid].iter
    /\ \A i, j \in Slots : Holds(i) /\ j # i /\ inv[i].cid = inv[j].cid => inv[j].granted < inv[i].iter
    /\ ConsumedOnce

-----------------------------------------------------------------------------
\* A tool wave is a nonempty sequence within the bound.
LEMMA WaveFacts ==
    ASSUME InvocationAssumption, NEW w \in Waves
    PROVE  /\ w \in Seq({"read", "write"}) /\ Len(w) \in 1..WaveMax
           /\ DOMAIN w = 1..Len(w) /\ w # <<>>
<1>1. PICK n \in 1..WaveMax : w \in [1..n -> {"read", "write"}]
  BY DEF Waves
<1>. QED
  BY <1>1 DEF InvocationAssumption

\* A request that has just entered _invoke is well formed.
LEMMA RequestOK ==
    ASSUME InvocationAssumption, NEW i \in Slots, NEW kind \in {"fresh", "resume", "approve"},
           NEW key \in Slots, NEW cid \in Slots, NEW approve \in BOOLEAN
    PROVE  Request(i, kind, key, cid, approve) \in Rec /\ Sound(Request(i, kind, key, cid, approve))
  BY DEF InvocationAssumption, Request, Rec, Sound, InvPc

\* Before the first request there is nothing in the stores.
LEMMA InitShape ==
    ASSUME InvocationAssumption, Init
    PROVE  Shape
<1>1. \A i \in Slots : inv[i] = [Request(i, "fresh", i, i, FALSE) EXCEPT !.pc = "unused"]
  BY DEF Init
<1>2. ASSUME NEW i \in Slots
      PROVE  [Request(i, "fresh", i, i, FALSE) EXCEPT !.pc = "unused"] \in Rec
  <2>1. Request(i, "fresh", i, i, FALSE) \in Rec
    BY RequestOK
  <2>2. ASSUME NEW r \in Rec PROVE [r EXCEPT !.pc = "unused"] \in Rec
    BY DEF Rec, InvPc
  <2>. QED
    BY <2>1, <2>2
<1>3. ASSUME NEW i \in Slots
      PROVE  Sound([Request(i, "fresh", i, i, FALSE) EXCEPT !.pc = "unused"])
  <2>. DEFINE r == [Request(i, "fresh", i, i, FALSE) EXCEPT !.pc = "unused"]
  <2>1. r.pc = "unused" /\ r.kind = "fresh" /\ r.granted = 0 /\ r.attempted = FALSE
    BY DEF Request
  <2>. QED
    BY <2>1 DEF Sound
<1>4. Requests
  BY <1>1, <1>2, <1>3 DEF Init, Requests
<1>. QED
  BY <1>4 DEF Init, Shape, Stores

\* One request moves, within what Rec and Sound allow.
Moves(i) ==
    /\ inv' \in [Slots -> Rec]
    /\ \A j \in Slots \ {i} : inv'[j] = inv[j]
    /\ Sound(inv'[i])

\* The error policy leaves a request failed, or entering _invoke_inner again.
LEMMA ThrowMoves ==
    ASSUME InvocationAssumption, Requests, NEW i \in Slots, NEW b \in BOOLEAN, Throw(i, b), Active(i)
    PROVE  Moves(i)
<1>0. inv[i] \in Rec /\ Sound(inv[i])
  BY DEF Requests
<1>1. CASE b /\ MayRetry(i)
  <2>1. inv' = [inv EXCEPT ![i] = Retried(i)]
    BY <1>1 DEF Throw
  <2>2. Retried(i) \in Rec
    <3>1. Request(i, inv[i].kind, inv[i].key, inv[i].cid, inv[i].approve) \in Rec
      <4>1. /\ inv[i].kind \in {"fresh", "resume", "approve"} /\ inv[i].key \in Slots
            /\ inv[i].cid \in Slots /\ inv[i].approve \in BOOLEAN
        BY <1>0 DEF Rec
      <4>. QED
        BY <4>1, RequestOK
    <3>2. inv[i].tries + 1 \in 0..RetryMax /\ inv[i].emitted \in BOOLEAN /\ inv[i].attempted \in BOOLEAN
      BY <1>0, <1>1 DEF MayRetry, Rec, InvocationAssumption
    <3>3. ASSUME NEW r \in Rec, NEW n \in 0..RetryMax, NEW e \in BOOLEAN, NEW a \in BOOLEAN
          PROVE  [r EXCEPT !.tries = n, !.emitted = e, !.attempted = a] \in Rec
      BY DEF Rec
    <3>. QED
      BY <3>1, <3>2, <3>3 DEF Retried
  <2>3. Sound(Retried(i))
    BY <1>1, <1>0 DEF Retried, Request, Sound, MayRetry, Rec, InvocationAssumption
  <2>. QED
    BY <2>1, <2>2, <2>3 DEF Moves, Requests
<1>2. CASE ~(b /\ MayRetry(i))
  <2>1. inv' = [inv EXCEPT ![i] = [inv[i] EXCEPT !.pc = "failed"]]
    BY <1>2 DEF Throw
  <2>2. [inv[i] EXCEPT !.pc = "failed"] \in Rec 
    BY <1>0 DEF Rec, InvPc
  <2>3. Sound([inv[i] EXCEPT !.pc = "failed"])
    BY <1>0 DEF Rec, Sound, Active, Ended
  <2>. QED
    BY <2>1, <2>2, <2>3 DEF Moves, Requests
<1>. QED
  BY <1>1, <1>2

\* What the client sends, in one form.
Sends(i) ==
    \E kind \in {"fresh", "resume", "approve"}, key \in Slots, cid \in Slots, approve \in BOOLEAN :
        inv' = [inv EXCEPT ![i] = Request(i, kind, key, cid, approve)]

\* Every client step sends some request.
LEMMA ClientSends ==
    ASSUME Requests, NEW i \in Slots, ClientStep(i)
    PROVE  Sends(i)
<1>1. CASE FreshRequest(i)
  BY <1>1 DEF FreshRequest, Sends
<1>2. ASSUME NEW j \in Slots, ResumeRequest(i, j) PROVE Sends(i)
  <2>1. inv[j].key \in Slots
    BY DEF Requests, Rec
  <2>. QED
    BY <1>2, <2>1 DEF ResumeRequest, Sends
<1>3. ASSUME NEW j \in Slots, NEW d \in BOOLEAN, ApproveRequest(i, j, d) PROVE Sends(i)
  <2>1. inv[j].cid \in Slots
    BY DEF Requests, Rec
  <2>. QED
    BY <1>3, <2>1 DEF ApproveRequest, Sends
<1>. QED
  BY <1>1, <1>2, <1>3 DEF ClientStep

\* A client step touches no store.
LEMMA SendMoves ==
    ASSUME InvocationAssumption, Requests, NEW i \in Slots, ClientStep(i)
    PROVE  Moves(i) /\ UNCHANGED <<ckpt, pend, performed, blind>>
<1>1. Moves(i)
  BY ClientSends, RequestOK DEF Sends, Moves, Requests
<1>. QED
  BY <1>1 DEF ClientStep, FreshRequest, ResumeRequest, ApproveRequest

\* A request that becomes a well-formed record has moved.
LEMMA MovesTo ==
    ASSUME Requests, NEW i \in Slots, NEW r \in Rec, Sound(r), inv' = [inv EXCEPT ![i] = r]
    PROVE  Moves(i)
  BY DEF Moves, Requests

\* The updates of a few fields that the loop makes keep the record type.
LEMMA RecUpdate ==
    ASSUME NEW r \in Rec, NEW p \in InvPc
    PROVE  /\ \A w \in Waves \cup {<<>>}, n \in 1..WaveMax :
                 [r EXCEPT !.pc = p, !.wave = w, !.at = n] \in Rec
           /\ \A n \in 0..MaxIterations : [r EXCEPT !.pc = p, !.iter = n] \in Rec
           /\ \A n \in 0..MaxIterations : [r EXCEPT !.pc = p, !.granted = n] \in Rec
  BY DEF Rec

\* Restoring a continuation into the request keeps the record type.
LEMMA SnapshotOK ==
    ASSUME NEW r \in Rec, NEW k \in SUBSET Effects, NEW n \in 0..MaxIterations,
           NEW w \in Waves \cup {<<>>}, NEW g \in 0..MaxIterations, NEW a \in 1..WaveMax,
           NEW c \in InvPc
    PROVE  [r EXCEPT !.pc = c, !.known = k, !.iter = n, !.wave = w, !.granted = g,
                     !.at = a] \in Rec
  BY DEF Rec

\* _execute_tools stays within its wave or returns to the loop below the
\* iteration limit.
LEMMA AdvanceOK ==
    ASSUME InvocationAssumption, NEW r \in Rec, Sound(r), r.pc = "tools"
    PROVE  Advance(r) \in Rec /\ Sound(Advance(r))
<1>1. Len(r.wave) \in 1..WaveMax /\ r.at <= Len(r.wave) /\ r.at \in 1..WaveMax
  BY WaveFacts DEF Sound, Rec
<1>2. CASE r.at = Len(r.wave)
  <2>1. Advance(r) = [r EXCEPT !.pc = "save", !.wave = <<>>, !.at = 1]
    BY <1>2 DEF Advance
  <2>2. [r EXCEPT !.pc = "save", !.wave = <<>>, !.at = 1] \in Rec
    <3>1. <<>> \in Waves \cup {<<>>} /\ 1 \in 1..WaveMax /\ "save" \in InvPc
      BY DEF InvPc, InvocationAssumption
    <3>2. \A w \in Waves \cup {<<>>}, n \in 1..WaveMax :
                 [r EXCEPT !.pc = "save", !.wave = w, !.at = n] \in Rec
      BY <3>1, RecUpdate
    <3>. QED
      BY <3>1, <3>2, Zenon
  <2>3. Sound([r EXCEPT !.pc = "save", !.wave = <<>>, !.at = 1])
    BY DEF Rec, Sound
  <2>. QED
    BY <2>1, <2>2, <2>3
<1>3. CASE r.at # Len(r.wave)
  <2>1. Advance(r) = [r EXCEPT !.at = r.at + 1]
    BY <1>3 DEF Advance
  <2>2. r.at + 1 \in 1..WaveMax /\ r.at + 1 <= Len(r.wave)
    BY <1>1, <1>3 DEF InvocationAssumption
  <2>3. [r EXCEPT !.at = r.at + 1] \in Rec
    BY <2>2 DEF Rec
  <2>4. Sound([r EXCEPT !.at = r.at + 1])
    BY <2>2 DEF Rec, Sound
  <2>. QED
    BY <2>1, <2>3, <2>4
<1>. QED
  BY <1>2, <1>3

\* Each await of _invoke_inner keeps the request and the stores well formed:
\* the iteration counter below the limit wherever the model is asked, a wave
\* wherever tools are run.
LEMMA RuntimeMoves ==
    ASSUME InvocationAssumption, Requests, Stores, performed \in SUBSET Effects,
           blind \in SUBSET Effects, NEW i \in Slots, RuntimeStep(i)
    PROVE  Moves(i) /\ Stores' /\ performed' \in SUBSET Effects /\ blind' \in SUBSET Effects
<1>. DEFINE r == inv[i]
<1>0. r \in Rec /\ Sound(r) /\ r.key \in Slots /\ r.cid \in Slots
  BY DEF Requests, Rec
<1>1. CASE Save(i)
  <2>. DEFINE q == [r EXCEPT !.pc = "model"]
  <2>1. inv' = [inv EXCEPT ![i] = q]
    BY <1>1 DEF Save, Goto, Requests
  <2>2. q \in Rec
    BY <1>0, <1>1 DEF Save, Rec, InvPc
  <2>3. Sound(q)
    BY <1>0, <1>1 DEF Save, Rec, Sound, InvocationAssumption, Replay
  <2>4. Moves(i)
    BY <2>1, <2>2, <2>3, MovesTo
  <2>5. Stores'
    BY <1>0, <1>1 DEF Save, Stores, Checkpoint, Pending, Sound, Rec
  <2>. QED
    BY <1>1, <2>4, <2>5 DEF Save
<1>2. CASE Emit(i)
  <2>. DEFINE q == [r EXCEPT !.emitted = TRUE]
  <2>1. inv' = [inv EXCEPT ![i] = q]
    BY <1>2 DEF Emit, Goto, Requests
  <2>2. q \in Rec
    BY <1>0, <1>2 DEF Emit, Rec, InvPc
  <2>3. Sound(q)
    BY <1>0, <1>2 DEF Emit, Rec, Sound, InvocationAssumption, Replay
  <2>4. Moves(i)
    BY <2>1, <2>2, <2>3, MovesTo
  <2>5. Stores'
    BY <1>0, <1>2 DEF Emit, Stores, Checkpoint, Pending, Sound, Rec
  <2>. QED
    BY <1>2, <2>4, <2>5 DEF Emit
<1>3. CASE ModelFinal(i)
  <2>. DEFINE q == [r EXCEPT !.pc = "persist", !.iter = r.iter + 1]
  <2>1. inv' = [inv EXCEPT ![i] = q]
    BY <1>3 DEF ModelFinal, Goto, Requests
  <2>2. q \in Rec
    <3>1. r.iter + 1 \in 0..MaxIterations
      BY <1>0, <1>3 DEF ModelFinal, Rec, Sound, InvocationAssumption
    <3>. QED
      BY <1>0, <3>1, RecUpdate DEF InvPc
  <2>3. Sound(q)
    BY <1>0, <1>3 DEF ModelFinal, Rec, Sound, InvocationAssumption, Replay
  <2>4. Moves(i)
    BY <2>1, <2>2, <2>3, MovesTo
  <2>5. Stores'
    BY <1>0, <1>3 DEF ModelFinal, Stores, Checkpoint, Pending, Sound, Rec
  <2>. QED
    BY <1>3, <2>4, <2>5 DEF ModelFinal
<1>4. CASE PauseSave(i)
  <2>. DEFINE q == [r EXCEPT !.pc = "pauseDelete"]
  <2>1. inv' = [inv EXCEPT ![i] = q]
    BY <1>4 DEF PauseSave, Goto, Requests
  <2>2. q \in Rec
    BY <1>0, <1>4 DEF PauseSave, Rec, InvPc
  <2>3. Sound(q)
    BY <1>0, <1>4 DEF PauseSave, Rec, Sound, InvocationAssumption, Replay
  <2>4. Moves(i)
    BY <2>1, <2>2, <2>3, MovesTo
  <2>5. Stores'
    <3>. DEFINE p == [known |-> r.known, iter |-> r.iter, wave |-> r.wave]
    <3>1. p \in Pending /\ p.iter \in 1..(MaxIterations - 1)
      BY <1>0, <1>4 DEF PauseSave, Pending, Sound, Rec, InvocationAssumption
    <3>2. pend' = [pend EXCEPT ![r.cid] = p] /\ ckpt' = ckpt
      BY <1>4 DEF PauseSave
    <3>. HIDE DEF p
    <3>. QED
      BY <1>0, <3>1, <3>2 DEF Stores
  <2>. QED
    BY <1>4, <2>4, <2>5 DEF PauseSave
<1>5. CASE UnsafeDelete(i)
  <2>. DEFINE q == [r EXCEPT !.pc = "tools"]
  <2>1. inv' = [inv EXCEPT ![i] = q]
    BY <1>5 DEF UnsafeDelete, Goto, Requests
  <2>2. q \in Rec
    BY <1>0, <1>5 DEF UnsafeDelete, Rec, InvPc
  <2>3. Sound(q)
    BY <1>0, <1>5 DEF UnsafeDelete, Rec, Sound, InvocationAssumption, Replay
  <2>4. Moves(i)
    BY <2>1, <2>2, <2>3, MovesTo
  <2>5. Stores'
    BY <1>0, <1>5 DEF UnsafeDelete, Stores, Checkpoint, Pending, Sound, Rec
  <2>. QED
    BY <1>5, <2>4, <2>5 DEF UnsafeDelete
<1>6. CASE Persist(i)
  <2>. DEFINE q == [r EXCEPT !.pc = "finish"]
  <2>1. inv' = [inv EXCEPT ![i] = q]
    BY <1>6 DEF Persist, Goto, Requests
  <2>2. q \in Rec
    BY <1>0, <1>6 DEF Persist, Rec, InvPc
  <2>3. Sound(q)
    BY <1>0, <1>6 DEF Persist, Rec, Sound, InvocationAssumption, Replay
  <2>4. Moves(i)
    BY <2>1, <2>2, <2>3, MovesTo
  <2>5. Stores'
    BY <1>0, <1>6 DEF Persist, Stores, Checkpoint, Pending, Sound, Rec
  <2>. QED
    BY <1>6, <2>4, <2>5 DEF Persist
<1>7. CASE Finish(i)
  <2>. DEFINE q == [r EXCEPT !.pc = "done"]
  <2>1. inv' = [inv EXCEPT ![i] = q]
    BY <1>7 DEF Finish, Goto, Requests
  <2>2. q \in Rec
    BY <1>0, <1>7 DEF Finish, Rec, InvPc
  <2>3. Sound(q)
    BY <1>0, <1>7 DEF Finish, Rec, Sound, InvocationAssumption, Replay
  <2>4. Moves(i)
    BY <2>1, <2>2, <2>3, MovesTo
  <2>5. Stores'
    BY <1>0, <1>7 DEF Finish, Stores, Checkpoint, Pending, Sound, Rec
  <2>. QED
    BY <1>7, <2>4, <2>5 DEF Finish
<1>8. CASE Consume(i)
  <2>. DEFINE q == [r EXCEPT !.pc = Replay(i), !.granted = r.iter]
  <2>1. inv' = [inv EXCEPT ![i] = q]
    BY <1>8 DEF Consume, Goto, Requests
  <2>2. q \in Rec
    <3>1. r.iter \in 0..MaxIterations /\ Replay(i) \in InvPc
      BY <1>0 DEF Rec, Replay, InvPc
    <3>. QED
      BY <1>0, <3>1, RecUpdate
  <2>3. Sound(q)
    BY <1>0, <1>8 DEF Consume, Rec, Sound, InvocationAssumption, Replay
  <2>4. Moves(i)
    BY <2>1, <2>2, <2>3, MovesTo
  <2>5. Stores'
    BY <1>0, <1>8 DEF Consume, Stores, Checkpoint, Pending, Sound, Rec
  <2>. QED
    BY <1>8, <2>4, <2>5 DEF Consume
<1>9. CASE PauseDelete(i)
  <2>. DEFINE q == [r EXCEPT !.pc = IF r.tries = 0 THEN "paused" ELSE "failed"]
  <2>1. inv' = [inv EXCEPT ![i] = q]
    BY <1>9 DEF PauseDelete, Goto, Requests
  <2>2. q \in Rec
    BY <1>0, <1>9 DEF PauseDelete, Rec, InvPc
  <2>3. Sound(q)
    BY <1>0, <1>9 DEF PauseDelete, Rec, Sound, InvocationAssumption, Replay
  <2>4. Moves(i)
    BY <2>1, <2>2, <2>3, MovesTo
  <2>5. Stores'
    BY <1>0, <1>9 DEF PauseDelete, Stores, Checkpoint, Pending, Sound, Rec
  <2>. QED
    BY <1>9, <2>4, <2>5 DEF PauseDelete
<1>10. CASE Load(i)
  <2>1. Stores' /\ UNCHANGED <<performed, blind>>
    BY <1>10 DEF Load, Stores
  <2>2. CASE ckpt[r.key] = None
    <3>1. Throw(i, TRUE) /\ Active(i)
      BY <1>10, <2>2 DEF Load, Active, Ended
    <3>. QED
      BY <2>1, <3>1, ThrowMoves
  <2>3. CASE ckpt[r.key] # None
    <3>. DEFINE q == [r EXCEPT !.pc = "save", !.known = ckpt[r.key].known,
                               !.iter = ckpt[r.key].iter]
    <3>1. inv' = [inv EXCEPT ![i] = q]
      BY <1>10, <2>3 DEF Load, Requests
    <3>2. /\ ckpt[r.key].known \in SUBSET Effects /\ ckpt[r.key].iter \in 0..MaxIterations
          /\ ckpt[r.key].iter < MaxIterations
      BY <1>0, <2>3 DEF Stores, Checkpoint
    <3>3. \A k \in SUBSET Effects, n \in 0..MaxIterations :
            [r EXCEPT !.pc = "save", !.known = k, !.iter = n] \in Rec
      BY <1>0 DEF Rec, InvPc
    <3>4. q \in Rec
      BY <3>2, <3>3
    <3>5. Sound(q)
      BY <1>0, <3>2, <1>10 DEF Rec, Sound, Load
    <3>. QED
      BY <2>1, <3>1, <3>4, <3>5, MovesTo
  <2>. QED
    BY <2>2, <2>3
<1>11. CASE Take(i)
  <2>1. Stores' /\ UNCHANGED <<performed, blind>>
    BY <1>0, <1>11 DEF Take, Stores
  <2>2. CASE pend[r.cid] = None
    <3>1. Throw(i, FALSE) /\ Active(i)
      BY <1>11, <2>2 DEF Take, Active, Ended
    <3>. QED
      BY <2>1, <3>1, ThrowMoves
  <2>3. CASE pend[r.cid] # None
    <3>. DEFINE p == pend[r.cid]
    <3>1. /\ p.known \in SUBSET Effects /\ p.iter \in 1..(MaxIterations - 1)
          /\ p.wave \in Waves /\ Len(p.wave) \in 1..WaveMax
      BY <1>0, <2>3, WaveFacts DEF Stores, Pending
    <3>2. PICK place \in {"consume", "tools", "save"}, granted \in {0, p.iter} :
            /\ Snapshot(i, place, granted)
            /\ place = "consume" => granted = 0
            /\ place = "tools" => r.approve
      BY <1>11, <2>3 DEF Take, Replay
    <3>. DEFINE q == [r EXCEPT !.pc = place, !.known = p.known, !.iter = p.iter,
                               !.wave = p.wave, !.granted = granted, !.at = 1]
    <3>3. inv' = [inv EXCEPT ![i] = q]
      BY <3>2 DEF Snapshot, Requests
    <3>5. /\ place \in InvPc /\ granted \in 0..MaxIterations /\ 1 \in 1..WaveMax
          /\ p.iter \in 0..MaxIterations /\ p.wave \in Waves \cup {<<>>}
      BY <3>1 DEF InvPc, InvocationAssumption
    <3>6. q \in Rec
      BY <1>0, <3>1, <3>5, SnapshotOK
    <3>7. /\ q.pc = place /\ q.iter = p.iter /\ q.wave = p.wave /\ q.granted = granted
          /\ q.at = 1 /\ q.kind = r.kind /\ q.attempted = r.attempted /\ q.approve = r.approve
      BY <1>0 DEF Rec
    <3>8. r.kind = "approve" /\ ~r.attempted
      BY <1>0, <1>11 DEF Take, Sound, Rec
    <3>9. Sound(q)
      BY <3>1, <3>2, <3>7, <3>8 DEF Sound, InvocationAssumption
    <3>. QED
      BY <2>1, <3>3, <3>6, <3>9, MovesTo
  <2>. QED
    BY <2>2, <2>3
<1>12. ASSUME NEW w \in Waves, ModelTools(i, w)
       PROVE  Moves(i) /\ Stores' /\ UNCHANGED <<performed, blind>>
  <2>1. Stores' /\ UNCHANGED <<performed, blind>>
    BY <1>12 DEF ModelTools, Stores
  <2>. DEFINE place == IF LimitReached(r.iter + 1) THEN "persist"
                       ELSE IF ApprovalNeeded(w) THEN "pauseSave"
                       ELSE IF ReplaySafe(w) THEN "tools" ELSE "delete"
  <2>2. /\ place \in {"persist", "pauseSave", "tools", "delete"}
        /\ place # "persist" => r.iter + 1 < MaxIterations
    BY <1>0 DEF LimitReached, Rec, InvocationAssumption
  <2>. DEFINE q == [r EXCEPT !.iter = r.iter + 1, !.wave = w, !.at = 1, !.pc = place]
  <2>3. inv' = [inv EXCEPT ![i] = q]
    BY <1>12 DEF ModelTools, Requests
  <2>. HIDE DEF place
  <2>4. \A n \in 0..MaxIterations, v \in Waves \cup {<<>>}, a \in 1..WaveMax, c \in InvPc :
            [r EXCEPT !.iter = n, !.wave = v, !.at = a, !.pc = c] \in Rec
    BY <1>0 DEF Rec
  <2>5. r.iter + 1 \in 0..MaxIterations /\ w \in Waves \cup {<<>>} /\ 1 \in 1..WaveMax /\ place \in InvPc
    <3>1. r.iter + 1 \in 0..MaxIterations
      BY <1>0, <1>12, <2>2 DEF ModelTools, Rec, Sound, InvocationAssumption
    <3>2. 1 \in 1..WaveMax /\ place \in InvPc
      BY <2>2 DEF InvPc, InvocationAssumption
    <3>. QED
      BY <3>1, <3>2
  <2>6. q \in Rec
    BY <2>4, <2>5, Zenon
  <2>7. Len(w) \in 1..WaveMax
    BY WaveFacts
  <2>8. /\ q.pc = place /\ q.iter = r.iter + 1 /\ q.wave = w /\ q.granted = r.granted
        /\ q.at = 1 /\ q.kind = r.kind /\ q.attempted = r.attempted /\ q.approve = r.approve
    BY <1>0 DEF Rec
  <2>9. /\ r.granted # 0 => r.kind = "approve" /\ r.granted <= r.iter
        /\ r.granted \in Nat /\ r.iter \in Nat
    BY <1>0 DEF Sound, Rec
  <2>10. Sound(q)
    BY <2>2, <2>7, <2>8, <2>9 DEF Sound, InvocationAssumption
  <2>. QED
    BY <2>1, <2>3, <2>6, <2>10, MovesTo
<1>13. CASE ToolWithoutEffect(i)
  <2>1. inv' = [inv EXCEPT ![i] = Advance(r)] /\ r.pc = "tools"
    BY <1>13 DEF ToolWithoutEffect
  <2>2. Moves(i)
    BY <1>0, <2>1, AdvanceOK, MovesTo
  <2>. QED
    BY <1>13, <2>2 DEF ToolWithoutEffect, Stores
<1>14. CASE ToolWithEffect(i)
  <2>. DEFINE e == <<i, r.iter, r.at>>
              q == [r EXCEPT !.known = r.known \cup {e}, !.attempted = TRUE]
  <2>1. inv' = [inv EXCEPT ![i] = Advance(q)] /\ r.pc = "tools"
    BY <1>14 DEF ToolWithEffect
  <2>2. e \in Effects
    BY <1>0, <2>1 DEF Effects, Sound, Rec, InvocationAssumption
  <2>3. q \in Rec
    BY <1>0, <2>2 DEF Rec
  <2>4. Sound(q) /\ q.pc = "tools"
    BY <1>0, <2>1 DEF Rec, Sound
  <2>5. Moves(i)
    BY <2>1, <2>3, <2>4, AdvanceOK, MovesTo
  <2>. QED
    BY <1>14, <2>2, <2>5 DEF ToolWithEffect, Stores
<1>. QED
  BY <1>1, <1>2, <1>3, <1>4, <1>5, <1>6, <1>7, <1>8, <1>9, <1>10, <1>11, <1>12, <1>13, <1>14
  DEF RuntimeStep

\* The shape of requests and stores is inductive.
LEMMA ShapeStep ==
    ASSUME InvocationAssumption, Shape, [Next]_vars
    PROVE  Shape'
<1>1. ASSUME NEW i \in Slots, Moves(i), setup' = setup, Stores',
             performed' \in SUBSET Effects, blind' \in SUBSET Effects
      PROVE  Shape'
  BY <1>1 DEF Shape, Requests, Moves
<1>2. ASSUME NEW i \in Slots, ClientStep(i), setup' = setup PROVE Shape'
  <2>1. Moves(i) /\ UNCHANGED <<ckpt, pend, performed, blind>>
    BY <1>2, SendMoves DEF Shape
  <2>. QED
    BY <1>1, <1>2, <2>1 DEF Shape, Stores
<1>3. ASSUME NEW i \in Slots, RuntimeStep(i), setup' = setup PROVE Shape'
  BY <1>1, <1>3, RuntimeMoves DEF Shape
<1>4. ASSUME NEW i \in Slots, NEW f \in {"retryable", "final"}, Raise(i, f), setup' = setup
      PROVE  Shape'
  <2>1. Moves(i) /\ UNCHANGED <<ckpt, pend, performed, blind>>
    BY <1>4, ThrowMoves DEF Shape, Raise
  <2>. QED
    BY <1>1, <1>4, <2>1 DEF Shape, Stores
<1>5. ASSUME NEW c \in Slots, ExpireApproval(c), setup' = setup PROVE Shape'
  BY <1>5 DEF ExpireApproval, Shape, Requests, Stores
<1>6. CASE UNCHANGED vars
  BY <1>6 DEF vars, Shape, Requests, Stores
<1>. QED
  BY <1>2, <1>3, <1>4, <1>5, <1>6 DEF Next

-----------------------------------------------------------------------------
\* What a step of a request cannot change: its kind, the ids it came with and
\* its decision; and, once it attempted a side effect, what it was granted.
Keeps(i) ==
    /\ inv[i].pc # "unused" /\ Active(i) /\ inv'[i].pc # "unused"
    /\ inv'[i].kind = inv[i].kind /\ inv'[i].key = inv[i].key
    /\ inv'[i].cid = inv[i].cid /\ inv'[i].approve = inv[i].approve
    /\ inv[i].attempted => inv'[i].attempted /\ inv'[i].granted = inv[i].granted

\* A retry is the same request; one that attempted a side effect is not retried.
LEMMA ThrowKeeps ==
    ASSUME Shape, NEW i \in Slots, Active(i), NEW b \in BOOLEAN, Throw(i, b)
    PROVE  Keeps(i)
<1>0. inv[i] \in Rec /\ inv \in [Slots -> Rec]
  BY DEF Shape, Requests
<1>1. CASE b /\ MayRetry(i)
  <2>1. inv'[i] = Retried(i) /\ ~inv[i].attempted
    BY <1>0, <1>1 DEF Throw, MayRetry
  <2>2. /\ Retried(i).kind = inv[i].kind /\ Retried(i).key = inv[i].key
        /\ Retried(i).cid = inv[i].cid /\ Retried(i).approve = inv[i].approve
    BY DEF Retried, Request
  <2>3. Retried(i).pc # "unused"
    <3>1. inv[i].kind \in {"fresh", "resume", "approve"}
      BY <1>0 DEF Rec
    <3>. QED
      BY <3>1 DEF Retried, Request
  <2>. QED
    BY <2>1, <2>2, <2>3 DEF Keeps, Active
<1>2. CASE ~(b /\ MayRetry(i))
  <2>1. inv'[i] = [inv[i] EXCEPT !.pc = "failed"]
    BY <1>0, <1>2 DEF Throw
  <2>. QED
    BY <1>0, <2>1 DEF Rec, Keeps, Active, Ended
<1>. QED
  BY <1>1, <1>2

\* No step of the runtime changes what request it is working for.
LEMMA RuntimeKeeps ==
    ASSUME Shape, NEW i \in Slots, RuntimeStep(i)
    PROVE  Keeps(i)
<1>0. inv \in [Slots -> Rec] /\ inv[i] \in Rec /\ Sound(inv[i])
  BY DEF Shape, Requests
<1>1. CASE Save(i) \/ PauseSave(i) \/ PauseDelete(i) \/ UnsafeDelete(i) \/ Persist(i) \/ Finish(i)
  BY <1>0, <1>1 DEF Save, PauseSave, PauseDelete, UnsafeDelete, Persist, Finish, Goto, Rec, Keeps, Active, Ended
<1>2. CASE Emit(i) \/ ModelFinal(i)
  BY <1>0, <1>2 DEF Emit, ModelFinal, Rec, Keeps, Active, Ended
<1>3. CASE Consume(i)
  BY <1>0, <1>3 DEF Consume, Replay, Rec, Keeps, Active, Ended, Sound
<1>4. CASE Load(i)
  <2>1. CASE ckpt[inv[i].key] = None
    BY <1>4, <2>1, ThrowKeeps DEF Load, Active, Ended
  <2>2. CASE ckpt[inv[i].key] # None
    BY <1>0, <1>4, <2>2 DEF Load, Rec, Keeps, Active, Ended
  <2>. QED
    BY <2>1, <2>2
<1>5. CASE Take(i)
  <2>1. CASE pend[inv[i].cid] = None
    BY <1>5, <2>1, ThrowKeeps DEF Take, Active, Ended
  <2>2. CASE pend[inv[i].cid] # None
    <3>1. PICK place \in {"consume", "tools", "save"}, granted \in {0, pend[inv[i].cid].iter} :
            Snapshot(i, place, granted)
      BY <1>5, <2>2 DEF Take, Replay
    <3>2. inv[i].pc = "take" /\ ~inv[i].attempted
      BY <1>0, <1>5 DEF Take, Sound
    <3>. QED
      BY <1>0, <3>1, <3>2 DEF Snapshot, Rec, Keeps, Active, Ended
  <2>. QED
    BY <2>1, <2>2
<1>6. ASSUME NEW w \in Waves, ModelTools(i, w) PROVE Keeps(i)
  BY <1>0, <1>6 DEF ModelTools, Rec, Keeps, Active, Ended
<1>7. CASE ToolWithoutEffect(i)
  BY <1>0, <1>7 DEF ToolWithoutEffect, Advance, Rec, Keeps, Active, Ended
<1>8. CASE ToolWithEffect(i)
  BY <1>0, <1>8 DEF ToolWithEffect, Advance, Rec, Keeps, Active, Ended
<1>. QED
  BY <1>1, <1>2, <1>3, <1>4, <1>5, <1>6, <1>7, <1>8 DEF RuntimeStep

-----------------------------------------------------------------------------
\* A step of one request: of the client, of the runtime or of an exception.
LEMMA StepCases ==
    ASSUME InvocationAssumption, Shape, [Next]_vars
    PROVE  /\ Shape' /\ setup' = setup
           /\ \/ \E i \in Slots : ClientStep(i) /\ Moves(i)
              \/ \E i \in Slots : RuntimeStep(i) /\ Moves(i) /\ Keeps(i)
              \/ \E i \in Slots, f \in {"retryable", "final"} : Raise(i, f) /\ Moves(i) /\ Keeps(i)
              \/ \E c \in Slots : ExpireApproval(c)
              \/ UNCHANGED vars
<1>1. Shape' /\ setup' = setup
  BY ShapeStep DEF Next, vars
<1>2. ASSUME NEW i \in Slots, ClientStep(i) PROVE Moves(i)
  BY <1>2, SendMoves DEF Shape
<1>3. ASSUME NEW i \in Slots, RuntimeStep(i) PROVE Moves(i) /\ Keeps(i)
  BY <1>3, RuntimeMoves, RuntimeKeeps DEF Shape
<1>4. ASSUME NEW i \in Slots, NEW f \in {"retryable", "final"}, Raise(i, f)
      PROVE  Moves(i) /\ Keeps(i)
  BY <1>4, ThrowMoves, ThrowKeeps DEF Shape, Raise
<1>. QED
  BY <1>1, <1>2, <1>3, <1>4 DEF Next

\* Only tool.execute adds to what was performed.
LEMMA OthersPerformNothing ==
    ASSUME NEW i \in Slots, RuntimeStep(i), ~ToolWithEffect(i)
    PROVE  UNCHANGED <<performed, blind>>
  BY DEF RuntimeStep, Load, Take, Consume, Save, Emit, ModelFinal, ModelTools, PauseSave,
         PauseDelete, UnsafeDelete, ToolWithoutEffect, Persist, Finish

\* A side effect is performed only in the granted wave of an approved
\* continuation, and what was granted stays once it was used.
LEMMA GateStep ==
    ASSUME InvocationAssumption, Shape, Gate, [Next]_vars
    PROVE  Gate'
<1>0. Shape' /\ setup' = setup
  BY StepCases
<1>1. ASSUME performed' = performed,
             \A j \in Slots : inv[j].attempted => /\ inv'[j].attempted
                                                  /\ inv'[j].kind = inv[j].kind
                                                  /\ inv'[j].approve = inv[j].approve
                                                  /\ inv'[j].granted = inv[j].granted
      PROVE  Gate'
  <2>1. \A e \in performed : e[1] \in Slots
    BY DEF Shape, Effects
  <2>. QED
    BY <1>0, <1>1, <2>1 DEF Gate
<1>2. ASSUME NEW i \in Slots, ClientStep(i), Moves(i) PROVE Gate'
  <2>1. performed' = performed /\ inv[i].pc = "unused"
    BY <1>2 DEF ClientStep, FreshRequest, ResumeRequest, ApproveRequest, Sendable
  <2>2. ~inv[i].attempted
    BY <2>1 DEF Shape, Requests, Sound
  <2>. QED
    BY <1>1, <1>2, <2>1, <2>2 DEF Moves
<1>3. ASSUME NEW i \in Slots, Moves(i), Keeps(i), performed' = performed PROVE Gate'
  BY <1>1, <1>3 DEF Moves, Keeps
<1>4. ASSUME NEW i \in Slots, ToolWithEffect(i), Moves(i), Keeps(i) PROVE Gate'
  <2>. DEFINE d == <<i, inv[i].iter, inv[i].at>>
  <2>0. inv \in [Slots -> Rec] /\ inv[i] \in Rec /\ Sound(inv[i])
    BY DEF Shape, Requests
  <2>1. performed' = performed \cup {d} /\ inv[i].pc = "tools"
    BY <1>4 DEF ToolWithEffect
  <2>2. inv'[i].attempted /\ inv'[i].granted = inv[i].granted
    BY <1>4, <2>0 DEF ToolWithEffect, Advance, Rec
  <2>3. setup.approval => inv[i].kind = "approve" /\ inv[i].approve /\ inv[i].granted = inv[i].iter
    BY <1>4, <2>0, <2>1 DEF ToolWithEffect, PolicyAllows, Sound, Rec
  <2>4. \A e \in performed : e[1] \in Slots
    BY DEF Shape, Effects
  <2>5. ASSUME NEW e \in performed
        PROVE  inv'[e[1]].attempted /\ (setup.approval =>
            /\ inv'[e[1]].kind = "approve" /\ inv'[e[1]].approve /\ inv'[e[1]].granted = e[2])
    BY <1>4, <2>4, <2>5 DEF Gate, Moves, Keeps
  <2>6. d[1] = i /\ d[2] = inv[i].iter
    OBVIOUS
  <2>. QED
    BY <1>0, <1>4, <2>1, <2>2, <2>3, <2>5, <2>6 DEF Gate, Keeps
<1>5. CASE UNCHANGED <<inv, performed>>
  BY <1>1, <1>5
<1>. QED
  BY <1>2, <1>3, <1>4, <1>5, StepCases, OthersPerformNothing DEF Raise, ExpireApproval, vars

\* An answer refers to a request that paused, which stays paused.
LEMMA RootsStep ==
    ASSUME InvocationAssumption, Shape, Roots, [Next]_vars
    PROVE  Roots'
<1>0. /\ \A j \in Slots : inv[j].cid \in Slots /\ inv[j].kind \in {"fresh", "resume", "approve"}
      /\ \A j \in Slots : inv[j].pc = "unused" => inv[j].kind = "fresh"
      /\ \A j \in Slots : inv'[j].cid \in Slots
  BY StepCases DEF Shape, Requests, Rec, Sound
<1>3. ASSUME NEW i \in Slots, Moves(i), inv[i].pc # "paused",
             inv'[i].kind # "approve" => inv'[i].cid = i,
             inv'[i].kind = "approve" =>
                 inv'[inv'[i].cid].kind # "approve" /\ inv'[inv'[i].cid].pc = "paused"
      PROVE  Roots'
  <2>1. ASSUME NEW j \in Slots, j # i
        PROVE  /\ inv'[j].kind # "approve" => inv'[j].cid = j
               /\ inv'[j].kind = "approve" =>
                     inv'[inv'[j].cid].kind # "approve" /\ inv'[inv'[j].cid].pc = "paused"
    <3>1. inv'[j] = inv[j]
      BY <1>3, <2>1 DEF Moves
    <3>2. inv[j].kind = "approve" => inv[j].cid # i /\ inv[j].cid \in Slots
      BY <1>0, <1>3 DEF Roots
    <3>3. inv[j].kind = "approve" => inv'[inv[j].cid] = inv[inv[j].cid]
      BY <1>3, <3>2 DEF Moves
    <3>4. /\ inv[j].kind # "approve" => inv[j].cid = j
          /\ inv[j].kind = "approve" =>
                inv[inv[j].cid].kind # "approve" /\ inv[inv[j].cid].pc = "paused"
      BY DEF Roots
    <3>. QED
      BY <3>1, <3>3, <3>4, Zenon
  <2>. QED
    BY <1>3, <2>1 DEF Roots
<1>1. ASSUME NEW i \in Slots, ClientStep(i), Moves(i) PROVE Roots'
  <2>0. inv[i].pc = "unused" /\ inv \in [Slots -> Rec]
    BY <1>1 DEF ClientStep, FreshRequest, ResumeRequest, ApproveRequest, Sendable, Shape, Requests
  <2>1. CASE FreshRequest(i) \/ \E j \in Slots : ResumeRequest(i, j)
    <3>1. inv'[i].kind # "approve" /\ inv'[i].cid = i
      BY <2>0, <2>1 DEF FreshRequest, ResumeRequest, Request
    <3>. QED
      BY <1>3, <1>1, <2>0, <3>1
  <2>2. ASSUME NEW j \in Slots, NEW d \in BOOLEAN, ApproveRequest(i, j, d) PROVE Roots'
    <3>1. inv'[i].kind = "approve" /\ inv'[i].cid = inv[j].cid /\ inv[j].pc = "paused"
      BY <2>0, <2>2 DEF ApproveRequest, Request
    <3>2. inv[inv[j].cid].pc = "paused" /\ inv[inv[j].cid].kind # "approve"
      BY <3>1 DEF Roots
    <3>3. inv[j].cid # i /\ inv[j].cid \in Slots
      BY <1>0, <2>0, <3>2
    <3>4. inv'[inv'[i].cid].kind # "approve" /\ inv'[inv'[i].cid].pc = "paused"
      BY <1>1, <3>1, <3>2, <3>3 DEF Moves
    <3>. QED
      BY <1>3, <1>1, <2>0, <3>1, <3>4
  <2>. QED
    BY <1>1, <2>1, <2>2 DEF ClientStep
<1>2. ASSUME NEW i \in Slots, Moves(i), Keeps(i) PROVE Roots'
  <2>1. inv[i].pc # "paused" /\ inv'[i].kind = inv[i].kind /\ inv'[i].cid = inv[i].cid
    BY <1>2 DEF Keeps, Active, Ended
  <2>2. inv[i].kind = "approve" => inv'[inv[i].cid] = inv[inv[i].cid]
    <3>1. inv[i].kind = "approve" => inv[inv[i].cid].pc = "paused"
      BY DEF Roots
    <3>2. inv[i].kind = "approve" => inv[i].cid \in Slots \ {i}
      BY <1>0, <2>1, <3>1
    <3>. QED
      BY <1>2, <3>2 DEF Moves
  <2>. QED
    BY <1>2, <1>3, <2>1, <2>2 DEF Roots
<1>4. CASE UNCHANGED inv
  BY <1>4 DEF Roots
<1>. QED
  BY <1>1, <1>2, <1>4, StepCases DEF ExpireApproval, vars

\* A client that waits for its answers has one request running.
LEMMA OneActiveStep ==
    ASSUME InvocationAssumption, Shape, OneActive, [Next]_vars
    PROVE  OneActive'
<1>0. setup' = setup
  BY StepCases
<1>1. ASSUME NEW i \in Slots, ClientStep(i), Moves(i) PROVE OneActive'
  <2>1. setup.concurrent \/ \A j \in Slots : ~Active(j)
    BY <1>1 DEF ClientStep, FreshRequest, ResumeRequest, ApproveRequest, Sendable
  <2>. QED
    BY <1>0, <1>1, <2>1 DEF OneActive, Moves, Active
<1>2. ASSUME NEW i \in Slots, Moves(i), Keeps(i) PROVE OneActive'
  BY <1>0, <1>2 DEF OneActive, Moves, Keeps, Active
<1>3. CASE UNCHANGED inv
  BY <1>0, <1>3 DEF OneActive, Active
<1>. QED
  BY <1>1, <1>2, <1>3, StepCases DEF ExpireApproval, vars

-----------------------------------------------------------------------------
\* Most steps leave the approval store alone and neither take hold of a
\* continuation nor get a wave granted.
Quiet(i) ==
    /\ pend' = pend
    /\ inv'[i].granted \in {0, inv[i].granted}
    /\ inv'[i].pc # "consume"
    /\ Holds(i)' => Holds(i) /\ inv[i].pc # "consume" /\ inv[i].iter <= inv'[i].iter

\* The fields of a request, one by one.
LEMMA RecTypes ==
    ASSUME NEW r \in Rec
    PROVE  /\ r.granted \in Nat /\ r.iter \in Nat /\ r.cid \in Slots /\ r.key \in Slots
           /\ r.kind \in {"fresh", "resume", "approve"} /\ r.pc \in InvPc
           /\ r.known \in SUBSET Effects
           /\ r.attempted \in BOOLEAN /\ r.approve \in BOOLEAN
  BY DEF Rec

\* A request that acts on a continuation is past a model turn.
LEMMA HolderIterates ==
    ASSUME NEW r \in Rec, Sound(r), r.kind = "approve", r.pc \in Held
    PROVE  r.iter \in Nat \ {0}
  BY RecTypes DEF Sound, Held

\* A quiet step keeps the continuations single.
LEMMA QuietKeepsTokens ==
    ASSUME InvocationAssumption, Shape, Shape', Tokens, setup' = setup,
           NEW i \in Slots, Moves(i), Keeps(i), Quiet(i)
    PROVE  Tokens'
<1>0. /\ \A j \in Slots : inv[j].granted \in Nat /\ inv[j].iter \in Nat /\ inv[j].cid \in Slots
      /\ inv'[i].iter \in Nat
      /\ \A c \in Slots : pend[c] # None => pend[c].iter \in Nat \ {0}
  <2>1. \A j \in Slots : inv[j].granted \in Nat /\ inv[j].iter \in Nat /\ inv[j].cid \in Slots
    BY RecTypes DEF Shape, Requests
  <2>2. inv'[i].iter \in Nat
    BY RecTypes DEF Moves
  <2>3. \A c \in Slots : pend[c] # None => pend[c].iter \in Nat \ {0}
    BY DEF Shape, Stores, InvocationAssumption
  <2>. QED
    BY <2>1, <2>2, <2>3
<1>1. \A j \in Slots : inv'[j].cid = inv[j].cid /\ inv'[j].granted \in {0, inv[j].granted}
  BY DEF Moves, Keeps, Quiet
<1>2. \A j \in Slots : Holds(j)' => /\ Holds(j) /\ inv[j].iter <= inv'[j].iter
                                    /\ inv[j].pc = "consume" <=> inv'[j].pc = "consume"
  BY <1>0 DEF Moves, Quiet, Holds
<1>3. \A j \in Slots : Holds(j)' => inv'[j].iter \in Nat \ {0}
  BY HolderIterates DEF Shape, Requests, Holds
<1>4. ConsumedOnce'
  BY <1>1 DEF Tokens, ConsumedOnce
<1>5. \A j \in Slots : inv'[j].pc = "consume" => ~setup'.atomicTake
  BY DEF Tokens, Moves, Quiet
<1>6. \A j \in Slots : Holds(j)' /\ inv'[j].pc # "consume" => pend'[inv'[j].cid] = None
  BY <1>1, <1>2 DEF Tokens, Quiet
<1>7. \A k, j \in Slots : Holds(k)' /\ Holds(j)' /\ inv'[k].cid = inv'[j].cid => k = j
  BY <1>1, <1>2 DEF Tokens
<1>8. \A j \in Slots : pend'[inv'[j].cid] # None => inv'[j].granted < pend'[inv'[j].cid].iter
  <2>. SUFFICES ASSUME NEW j \in Slots, pend[inv[j].cid] # None
                PROVE  inv'[j].granted < pend[inv[j].cid].iter
    BY <1>1 DEF Quiet
  <2>1. inv[j].granted < pend[inv[j].cid].iter
    BY DEF Tokens
  <2>2. pend[inv[j].cid].iter \in Nat \ {0} /\ inv[j].granted \in Nat
    BY <1>0
  <2>3. inv'[j].granted = 0 \/ inv'[j].granted = inv[j].granted
    BY <1>1
  <2>. QED
    BY <2>1, <2>2, <2>3
<1>9. \A k, j \in Slots : Holds(k)' /\ j # k /\ inv'[k].cid = inv'[j].cid
                              => inv'[j].granted < inv'[k].iter
  <2>. SUFFICES ASSUME NEW k \in Slots, NEW j \in Slots, Holds(k)', j # k, inv'[k].cid = inv'[j].cid
                PROVE  inv'[j].granted < inv'[k].iter
    OBVIOUS
  <2>1. inv[j].granted < inv[k].iter /\ inv[k].iter <= inv'[k].iter
    BY <1>1, <1>2 DEF Tokens
  <2>. QED
    BY <2>1, <1>0, <1>1, <1>3
<1>. QED
  BY <1>4, <1>5, <1>6, <1>7, <1>8, <1>9 DEF Tokens

\* An exception is quiet.
LEMMA QuietThrow ==
    ASSUME Shape, NEW i \in Slots, Active(i), NEW b \in BOOLEAN, Throw(i, b), pend' = pend
    PROVE  Quiet(i)
<1>0. inv[i] \in Rec /\ inv \in [Slots -> Rec]
  BY DEF Shape, Requests
<1>1. CASE b /\ MayRetry(i)
  <2>1. inv'[i] = Retried(i)
    BY <1>0, <1>1 DEF Throw
  <2>2. inv[i].kind \in {"fresh", "resume", "approve"}
    BY <1>0 DEF Rec
  <2>3. Retried(i).granted = 0 /\ Retried(i).kind = inv[i].kind
    BY DEF Retried, Request
  <2>4. Retried(i).pc # "consume" /\ (Retried(i).kind = "approve" => Retried(i).pc = "take")
    BY <2>2, <2>3 DEF Retried, Request
  <2>. QED
    BY <2>1, <2>3, <2>4 DEF Quiet, Holds, Held
<1>2. CASE ~(b /\ MayRetry(i))
  <2>1. inv'[i] = [inv[i] EXCEPT !.pc = "failed"]
    BY <1>0, <1>2 DEF Throw
  <2>. QED
    BY <1>0, <2>1 DEF Rec, Quiet, Holds, Held
<1>. QED
  BY <1>1, <1>2

\* Every step but the taking, the consuming and the saving of a continuation
\* is quiet.
LEMMA QuietSteps ==
    ASSUME InvocationAssumption, Shape, NEW i \in Slots, RuntimeStep(i),
           ~Consume(i), ~PauseSave(i), ~(Take(i) /\ pend[inv[i].cid] # None)
    PROVE  Quiet(i)
<1>0. inv \in [Slots -> Rec] /\ inv[i] \in Rec
  BY DEF Shape, Requests
<1>1. CASE Save(i) \/ PauseDelete(i) \/ UnsafeDelete(i) \/ Persist(i) \/ Finish(i)
  BY <1>0, <1>1 DEF Save, PauseDelete, UnsafeDelete, Persist, Finish, Goto, Rec, Quiet, Holds, Held
<1>2. CASE Emit(i) \/ ModelFinal(i)
  BY <1>0, <1>2 DEF Emit, ModelFinal, Rec, Quiet, Holds, Held
<1>3. CASE Load(i)
  <2>1. inv[i].kind # "approve"
    BY <1>3 DEF Load, Shape, Requests, Sound
  <2>2. CASE ckpt[inv[i].key] = None
    BY <1>3, <2>2, QuietThrow DEF Load, Active, Ended
  <2>3. CASE ckpt[inv[i].key] # None
    BY <1>0, <1>3, <2>1, <2>3 DEF Load, Rec, Quiet, Holds
  <2>. QED
    BY <2>2, <2>3
<1>4. CASE Take(i)
  <2>1. Throw(i, FALSE) /\ Active(i) /\ pend' = pend
    BY <1>4 DEF Take, Active, Ended
  <2>. QED
    BY <2>1, QuietThrow
<1>5. ASSUME NEW w \in Waves, ModelTools(i, w) PROVE Quiet(i)
  BY <1>0, <1>5 DEF ModelTools, Rec, Quiet, Holds, Held, InvocationAssumption
<1>6. CASE ToolWithoutEffect(i)
  BY <1>0, <1>6 DEF ToolWithoutEffect, Advance, Rec, Quiet, Holds, Held
<1>7. CASE ToolWithEffect(i)
  BY <1>0, <1>7 DEF ToolWithEffect, Advance, Rec, Quiet, Holds, Held
<1>. QED
  BY <1>1, <1>2, <1>3, <1>4, <1>5, <1>6, <1>7 DEF RuntimeStep

\* The stores and the clients for which "get, then delete" is one step: the
\* in-memory store, or requests that do not overlap.
OneTaker == setup.atomicTake \/ ~setup.concurrent

\* The numbers that the token argument compares.
LEMMA TypesOfAll ==
    ASSUME InvocationAssumption, Shape
    PROVE  /\ \A j \in Slots : /\ inv[j].granted \in Nat /\ inv[j].iter \in Nat
                                /\ inv[j].cid \in Slots /\ inv[j].key \in Slots
           /\ \A j \in Slots : Holds(j) => inv[j].iter \in Nat \ {0}
           /\ \A c \in Slots : pend[c] # None => pend[c].iter \in Nat \ {0}
           /\ \A j \in Slots : inv[j].kind # "approve" => inv[j].granted = 0
<1>1. \A j \in Slots : /\ inv[j].granted \in Nat /\ inv[j].iter \in Nat
                       /\ inv[j].cid \in Slots /\ inv[j].key \in Slots
  BY RecTypes DEF Shape, Requests
<1>2. \A j \in Slots : Holds(j) => inv[j].iter \in Nat \ {0}
  BY HolderIterates DEF Shape, Requests, Holds
<1>3. \A c \in Slots : pend[c] # None => pend[c].iter \in Nat \ {0}
  BY DEF Shape, Stores, InvocationAssumption
<1>4. \A j \in Slots : inv[j].kind # "approve" => inv[j].granted = 0
  BY DEF Shape, Requests, Sound
<1>. QED
  BY <1>1, <1>2, <1>3, <1>4

\* Whoever takes a continuation, or goes on after consuming it, is the only one
\* at it, and is granted a later wave than any request before.
LEMMA TakerKeepsTokens ==
    ASSUME InvocationAssumption, Shape, Shape', Tokens, setup' = setup,
           NEW i \in Slots, Moves(i), Keeps(i), inv[i].kind = "approve",
           NEW n \in Nat \ {0},
           \A j \in Slots \ {i} : inv[j].cid = inv[i].cid => ~Holds(j) /\ inv[j].granted < n,
           inv'[i].iter = n, inv'[i].granted \in {0, n},
           \/ pend' = [pend EXCEPT ![inv[i].cid] = None] /\ inv'[i].pc # "consume"
           \/ pend' = pend /\ pend[inv[i].cid].iter = n /\ inv'[i].pc = "consume"
                          /\ inv'[i].granted = 0 /\ ~setup.atomicTake
    PROVE  Tokens'
<1>. DEFINE c == inv[i].cid
<1>0. /\ \A j \in Slots : inv'[j].cid = inv[j].cid /\ inv[j].cid \in Slots /\ inv[j].granted \in Nat
      /\ \A j \in Slots \ {i} : inv'[j] = inv[j] /\ (Holds(j)' <=> Holds(j))
      /\ \A d \in Slots : pend[d] # None => pend[d].iter \in Nat \ {0}
      /\ pend \in [Slots -> {None} \cup Pending]
  BY TypesOfAll DEF Moves, Keeps, Holds, Shape, Stores
<1>1. ConsumedOnce'
  BY <1>0 DEF Tokens, ConsumedOnce
<1>2. \A j \in Slots : inv'[j].pc = "consume" => ~setup'.atomicTake
  BY <1>0 DEF Tokens
<1>3. \A j \in Slots : Holds(j)' /\ inv'[j].pc # "consume" => pend'[inv'[j].cid] = None
  BY <1>0 DEF Tokens
<1>4. \A k, j \in Slots : Holds(k)' /\ Holds(j)' /\ inv'[k].cid = inv'[j].cid => k = j
  BY <1>0 DEF Tokens
<1>5. \A j \in Slots : pend'[inv'[j].cid] # None => inv'[j].granted < pend'[inv'[j].cid].iter
  BY <1>0 DEF Tokens
<1>6. \A k, j \in Slots : Holds(k)' /\ j # k /\ inv'[k].cid = inv'[j].cid
                              => inv'[j].granted < inv'[k].iter
  <2>. SUFFICES ASSUME NEW k \in Slots, NEW j \in Slots, Holds(k)', j # k, inv'[k].cid = inv'[j].cid
                PROVE  inv'[j].granted < inv'[k].iter
    OBVIOUS
  <2>1. inv[k].cid = inv[j].cid
    BY <1>0
  <2>2. CASE k = i
    BY <1>0, <2>1, <2>2
  <2>3. CASE k # i
    <3>1. Holds(k) /\ j # i /\ inv'[k] = inv[k] /\ inv'[j] = inv[j]
      BY <1>0, <2>1, <2>3
    <3>. QED
      BY <2>1, <3>1 DEF Tokens
  <2>. QED
    BY <2>2, <2>3
<1>. QED
  BY <1>1, <1>2, <1>3, <1>4, <1>5, <1>6 DEF Tokens

\* _approval_store.get, and the delete where the store does not suspend.
LEMMA TakeKeepsTokens ==
    ASSUME InvocationAssumption, Shape, Shape', OneActive, Tokens, OneTaker, setup' = setup,
           NEW i \in Slots, Moves(i), Keeps(i), Take(i), pend[inv[i].cid] # None
    PROVE  Tokens'
<1>. DEFINE p == pend[inv[i].cid]
<1>0. inv \in [Slots -> Rec] /\ inv[i] \in Rec /\ inv[i].kind = "approve" /\ p.iter \in Nat \ {0}
  BY TypesOfAll DEF Shape, Requests, Take, Sound
<1>1. ASSUME NEW j \in Slots \ {i}, inv[j].cid = inv[i].cid
      PROVE  ~Holds(j) /\ inv[j].granted < p.iter
  <2>1. inv[j].granted < p.iter
    BY <1>1 DEF Tokens
  <2>2. ASSUME Holds(j) PROVE FALSE
    <3>1. inv[j].pc = "consume"
      BY <1>1, <2>2 DEF Tokens
    <3>2. ~setup.concurrent /\ Active(i) /\ Active(j)
      BY <3>1 DEF Tokens, OneTaker, Keeps, Active, Ended
    <3>. QED
      BY <1>1, <3>2 DEF OneActive
  <2>. QED
    BY <2>1, <2>2
<1>2. CASE setup.atomicTake
  <2>1. pend' = [pend EXCEPT ![inv[i].cid] = None] /\ Snapshot(i, Replay(i), p.iter)
    BY <1>2 DEF Take
  <2>2. inv'[i].iter = p.iter /\ inv'[i].granted = p.iter /\ inv'[i].pc # "consume"
    BY <1>0, <2>1 DEF Snapshot, Replay, Rec
  <2>. QED
    BY <1>0, <1>1, <2>1, <2>2, TakerKeepsTokens
<1>3. CASE ~setup.atomicTake
  <2>1. pend' = pend /\ Snapshot(i, "consume", 0)
    BY <1>3 DEF Take
  <2>2. inv'[i].iter = p.iter /\ inv'[i].granted = 0 /\ inv'[i].pc = "consume"
    BY <1>0, <2>1 DEF Snapshot, Rec
  <2>. QED
    BY <1>0, <1>1, <1>3, <2>1, <2>2, TakerKeepsTokens
<1>. QED
  BY <1>2, <1>3

\* The delete of a store that suspends after the get.
LEMMA ConsumeKeepsTokens ==
    ASSUME InvocationAssumption, Shape, Shape', Tokens, setup' = setup,
           NEW i \in Slots, Moves(i), Keeps(i), Consume(i)
    PROVE  Tokens'
<1>0. inv \in [Slots -> Rec] /\ inv[i] \in Rec /\ inv[i].kind = "approve" /\ Holds(i)
  BY DEF Shape, Requests, Consume, Sound, Holds, Held
<1>1. inv[i].iter \in Nat \ {0}
  BY <1>0, TypesOfAll
<1>2. \A j \in Slots \ {i} : inv[j].cid = inv[i].cid => ~Holds(j) /\ inv[j].granted < inv[i].iter
  BY <1>0 DEF Tokens
<1>3. inv'[i].iter = inv[i].iter /\ inv'[i].granted = inv[i].iter /\ inv'[i].pc # "consume"
  BY <1>0 DEF Consume, Replay, Rec
<1>. QED
  BY <1>0, <1>1, <1>2, <1>3, TakerKeepsTokens DEF Consume

\* A pause stores a later wave than any that was granted under its id.
LEMMA PauseKeepsTokens ==
    ASSUME InvocationAssumption, Shape, Shape', Roots, Tokens, setup' = setup,
           NEW i \in Slots, Moves(i), Keeps(i), PauseSave(i)
    PROVE  Tokens'
<1>0. inv \in [Slots -> Rec] /\ inv[i] \in Rec /\ Sound(inv[i]) /\ inv[i].pc = "pauseSave"
  BY DEF Shape, Requests, PauseSave
<1>1. inv'[i].pc = "pauseDelete" /\ inv'[i].granted = inv[i].granted
  BY <1>0 DEF PauseSave, Goto, Rec
<1>2. /\ \A j \in Slots : inv'[j].cid = inv[j].cid /\ inv[j].cid \in Slots /\ inv[j].granted \in Nat
      /\ \A j \in Slots : inv'[j].granted = inv[j].granted
      /\ \A j \in Slots \ {i} : inv'[j] = inv[j] /\ (Holds(j)' <=> Holds(j))
      /\ ~Holds(i)'
      /\ pend \in [Slots -> {None} \cup Pending]
  BY <1>1, TypesOfAll DEF Moves, Keeps, Holds, Held, Shape, Stores
<1>3. pend'[inv[i].cid].iter = inv[i].iter /\ \A d \in Slots \ {inv[i].cid} : pend'[d] = pend[d]
  BY <1>2 DEF PauseSave
<1>4. inv[i].granted < inv[i].iter
  <2>1. inv[i].iter # 0 /\ (inv[i].granted # 0 => inv[i].granted < inv[i].iter)
    BY <1>0 DEF Sound
  <2>. QED
    BY <2>1, TypesOfAll
<1>5. ASSUME NEW j \in Slots \ {i}, inv[j].cid = inv[i].cid
      PROVE  ~Holds(j) /\ inv[j].granted < inv[i].iter
  <2>1. CASE inv[i].kind = "approve"
    <3>1. Holds(i)
      BY <1>0, <2>1 DEF Holds, Held
    <3>. QED
      BY <1>5, <3>1 DEF Tokens
  <2>2. CASE inv[i].kind # "approve"
    <3>1. inv[i].cid = i
      BY <2>2 DEF Roots
    <3>2. inv[j].kind = "approve"
      BY <1>5, <3>1 DEF Roots
    <3>3. inv[inv[j].cid].pc = "paused"
      BY <3>2 DEF Roots
    <3>. QED
      BY <1>0, <1>5, <3>1, <3>3
  <2>. QED
    BY <2>1, <2>2
<1>6. ConsumedOnce'
  BY <1>2 DEF Tokens, ConsumedOnce
<1>7. \A j \in Slots : inv'[j].pc = "consume" => ~setup'.atomicTake
  BY <1>1, <1>2 DEF Tokens
<1>8. \A j \in Slots : Holds(j)' /\ inv'[j].pc # "consume" => pend'[inv'[j].cid] = None
  <2>. SUFFICES ASSUME NEW j \in Slots, Holds(j)', inv'[j].pc # "consume"
                PROVE  pend'[inv[j].cid] = None
    BY <1>2
  <2>1. j # i /\ Holds(j) /\ inv[j].pc # "consume" /\ inv[j].cid # inv[i].cid
    BY <1>2, <1>5
  <2>. QED
    BY <1>2, <1>3, <2>1 DEF Tokens
<1>9. \A k, j \in Slots : Holds(k)' /\ Holds(j)' /\ inv'[k].cid = inv'[j].cid => k = j
  BY <1>2 DEF Tokens
<1>10. \A j \in Slots : pend'[inv'[j].cid] # None => inv'[j].granted < pend'[inv'[j].cid].iter
  <2>. SUFFICES ASSUME NEW j \in Slots, pend'[inv[j].cid] # None
                PROVE  inv[j].granted < pend'[inv[j].cid].iter
    BY <1>2
  <2>1. CASE inv[j].cid = inv[i].cid
    BY <1>3, <1>4, <1>5, <2>1
  <2>2. CASE inv[j].cid # inv[i].cid
    BY <1>2, <1>3, <2>2 DEF Tokens
  <2>. QED
    BY <2>1, <2>2
<1>11. \A k, j \in Slots : Holds(k)' /\ j # k /\ inv'[k].cid = inv'[j].cid
                              => inv'[j].granted < inv'[k].iter
  BY <1>2 DEF Tokens
<1>. QED
  BY <1>6, <1>7, <1>8, <1>9, <1>10, <1>11 DEF Tokens

\* What the client sends has done nothing yet.
LEMMA SentRequest ==
    ASSUME Shape, NEW i \in Slots, ClientStep(i)
    PROVE  /\ inv[i].pc = "unused" /\ inv'[i].granted = 0 /\ inv'[i].pc \in {"save", "load", "take"}
           /\ inv'[i].kind = "approve" => inv'[i].pc = "take"
           /\ inv'[i].known = {} /\ inv'[i].attempted = FALSE
<1>0. inv \in [Slots -> Rec] /\ inv[i].pc = "unused"
  BY DEF ClientStep, FreshRequest, ResumeRequest, ApproveRequest, Sendable, Shape, Requests
<1>1. PICK kind \in {"fresh", "resume", "approve"}, key \in Slots, cid \in Slots,
           approve \in BOOLEAN : inv'[i] = Request(i, kind, key, cid, approve)
  BY <1>0, ClientSends DEF Sends, Shape
<1>2. /\ Request(i, kind, key, cid, approve).granted = 0
      /\ Request(i, kind, key, cid, approve).pc \in {"save", "load", "take"}
      /\ Request(i, kind, key, cid, approve).kind = kind
      /\ kind = "approve" => Request(i, kind, key, cid, approve).pc = "take"
      /\ Request(i, kind, key, cid, approve).known = {}
      /\ Request(i, kind, key, cid, approve).attempted = FALSE
  BY DEF Request
<1>. QED
  BY <1>0, <1>1, <1>2, Zenon

\* A request that was just sent holds nothing.
LEMMA SendKeepsTokens ==
    ASSUME InvocationAssumption, Shape, Shape', Tokens, setup' = setup,
           NEW i \in Slots, Moves(i), ClientStep(i)
    PROVE  Tokens'
<1>0. /\ inv'[i].granted = 0 /\ inv'[i].pc # "consume" /\ ~Holds(i)' /\ pend' = pend
      /\ \A j \in Slots \ {i} : inv'[j] = inv[j] /\ (Holds(j)' <=> Holds(j))
      /\ \A j \in Slots : inv'[j].cid \in Slots
      /\ \A j \in Slots : Holds(j)' => inv'[j].iter \in Nat \ {0}
      /\ \A d \in Slots : pend[d] # None => pend[d].iter \in Nat \ {0}
  <2>1. inv'[i].granted = 0 /\ inv'[i].pc # "consume" /\ ~Holds(i)' /\ pend' = pend
    BY SentRequest, SendMoves DEF Holds, Held, Shape
  <2>2. \A j \in Slots : inv'[j].cid \in Slots
    BY RecTypes DEF Shape, Requests
  <2>3. \A j \in Slots : Holds(j)' => inv'[j].iter \in Nat \ {0}
    BY HolderIterates DEF Shape, Requests, Holds
  <2>. QED
    BY <2>1, <2>2, <2>3, TypesOfAll DEF Moves, Holds
<1>1. ConsumedOnce'
  BY <1>0 DEF Tokens, ConsumedOnce
<1>2. \A j \in Slots : inv'[j].pc = "consume" => ~setup'.atomicTake
  BY <1>0 DEF Tokens
<1>3. \A j \in Slots : Holds(j)' /\ inv'[j].pc # "consume" => pend'[inv'[j].cid] = None
  BY <1>0 DEF Tokens
<1>4. \A k, j \in Slots : Holds(k)' /\ Holds(j)' /\ inv'[k].cid = inv'[j].cid => k = j
  BY <1>0 DEF Tokens
<1>5. \A j \in Slots : pend'[inv'[j].cid] # None => inv'[j].granted < pend'[inv'[j].cid].iter
  <2>. SUFFICES ASSUME NEW j \in Slots, pend[inv'[j].cid] # None
                PROVE  inv'[j].granted < pend[inv'[j].cid].iter
    BY <1>0
  <2>1. CASE j = i
    <3>1. inv'[j].granted = 0
      BY <1>0, <2>1
    <3>2. pend[inv'[j].cid].iter \in Nat \ {0}
      BY <1>0
    <3>. QED
      BY <3>1, <3>2
  <2>2. CASE j # i
    <3>1. inv'[j] = inv[j]
      BY <1>0, <2>2
    <3>. QED
      BY <3>1 DEF Tokens
  <2>. QED
    BY <2>1, <2>2
<1>6. \A k, j \in Slots : Holds(k)' /\ j # k /\ inv'[k].cid = inv'[j].cid
                              => inv'[j].granted < inv'[k].iter
  <2>. SUFFICES ASSUME NEW k \in Slots, NEW j \in Slots, Holds(k)', j # k, inv'[k].cid = inv'[j].cid
                PROVE  inv'[j].granted < inv'[k].iter
    OBVIOUS
  <2>1. k # i /\ Holds(k) /\ inv'[k] = inv[k] /\ inv[k].iter \in Nat \ {0}
    BY <1>0
  <2>2. CASE j = i
    BY <1>0, <2>1, <2>2
  <2>3. CASE j # i
    <3>1. inv'[j] = inv[j]
      BY <1>0, <2>3
    <3>. QED
      BY <2>1, <3>1 DEF Tokens
  <2>. QED
    BY <2>2, <2>3
<1>. QED
  BY <1>1, <1>2, <1>3, <1>4, <1>5, <1>6 DEF Tokens

\* The inductive invariant of the approvals.
ApprovalInv == Shape /\ Gate /\ Roots /\ OneActive /\ Tokens

\* A continuation is at any time in the store or with one request.
LEMMA TokensStep ==
    ASSUME InvocationAssumption, ApprovalInv, OneTaker, [Next]_vars
    PROVE  Tokens'
<1>0. Shape /\ Shape' /\ setup' = setup /\ Roots /\ OneActive /\ Tokens
  BY StepCases DEF ApprovalInv
<1>1. ASSUME NEW i \in Slots, ClientStep(i), Moves(i) PROVE Tokens'
  BY <1>0, <1>1, SendKeepsTokens
<1>2. ASSUME NEW i \in Slots, RuntimeStep(i), Moves(i), Keeps(i) PROVE Tokens'
  <2>1. CASE Consume(i)
    BY <1>0, <1>2, <2>1, ConsumeKeepsTokens
  <2>2. CASE PauseSave(i)
    BY <1>0, <1>2, <2>2, PauseKeepsTokens
  <2>3. CASE Take(i) /\ pend[inv[i].cid] # None
    BY <1>0, <1>2, <2>3, TakeKeepsTokens
  <2>4. CASE ~Consume(i) /\ ~PauseSave(i) /\ ~(Take(i) /\ pend[inv[i].cid] # None)
    BY <1>0, <1>2, <2>4, QuietSteps, QuietKeepsTokens
  <2>. QED
    BY <2>1, <2>2, <2>3, <2>4
<1>3. ASSUME NEW i \in Slots, NEW f \in {"retryable", "final"}, Raise(i, f), Moves(i), Keeps(i)
      PROVE  Tokens'
  <2>1. Quiet(i)
    BY <1>0, <1>3, QuietThrow DEF Raise
  <2>. QED
    BY <1>0, <1>3, <2>1, QuietKeepsTokens
<1>4. ASSUME NEW c \in Slots, ExpireApproval(c) PROVE Tokens'
  <2>1. \A j \in Slots : inv[j].cid \in Slots
    BY <1>0, TypesOfAll
  <2>2. inv' = inv /\ \A d \in Slots : pend'[d] \in {None, pend[d]}
    BY <1>0, <1>4 DEF ExpireApproval, Shape, Stores
  <2>. QED
    BY <1>0, <2>1, <2>2 DEF Tokens, ConsumedOnce, Holds
<1>5. CASE UNCHANGED vars
  BY <1>0, <1>5 DEF vars, Tokens, ConsumedOnce, Holds
<1>. QED
  BY <1>1, <1>2, <1>3, <1>4, <1>5, StepCases, <1>0

\* No request, no continuation.
LEMMA InitApprovals ==
    ASSUME InvocationAssumption, Init
    PROVE  ApprovalInv
<1>1. Shape
  BY InitShape
<1>2. \A i \in Slots : /\ inv[i].pc = "unused" /\ inv[i].kind = "fresh" /\ inv[i].cid = i
                       /\ inv[i].granted = 0 /\ pend[i] = None
  BY DEF Init, Request
<1>3. Tokens
  <2>1. \A i \in Slots : ~Holds(i)
    BY <1>2 DEF Holds, Held
  <2>2. ConsumedOnce
    BY <1>2 DEF ConsumedOnce
  <2>3. ASSUME NEW j \in Slots PROVE inv[j].pc # "consume" /\ pend[inv[j].cid] = None
    <3>1. inv[j].cid = j /\ pend[j] = None
      BY <1>2
    <3>. QED
      BY <1>2, <3>1
  <2>. QED
    BY <2>1, <2>2, <2>3 DEF Tokens
<1>4. Roots /\ OneActive
  BY <1>2 DEF Roots, OneActive, Active
<1>5. Gate
  BY DEF Init, Gate
<1>. QED
  BY <1>1, <1>3, <1>4, <1>5 DEF ApprovalInv

\* The shape contains the type invariant.
LEMMA ShapeTypes ==
    ASSUME Shape PROVE TypeOK
  BY DEF Shape, Requests, Stores, Rec, Checkpoint, Pending, TypeOK

\* Where a continuation is taken in one step, by the in-memory store or because
\* the requests do not overlap, only the approved wave of a continuation runs
\* side effects and one request at most acts on it, for any number of answers,
\* retries and expiries (_invoke_inner, _execute_tools).  A Redis get and delete
\* by overlapping answers is not claimed.
THEOREM ApprovalsAreSound ==
    ASSUME InvocationAssumption, \A s \in Setups : s.atomicTake \/ ~s.concurrent
    PROVE  Spec => []ApprovalsSound
<1>1. Init => ApprovalInv
  BY InitApprovals
<1>2. ApprovalInv /\ [Next]_vars => ApprovalInv'
  <2>. SUFFICES ASSUME ApprovalInv, [Next]_vars PROVE ApprovalInv'
    OBVIOUS
  <2>1. OneTaker
    BY DEF ApprovalInv, Shape, OneTaker
  <2>2. Shape' /\ Gate' /\ Roots' /\ OneActive'
    BY StepCases, GateStep, RootsStep, OneActiveStep DEF ApprovalInv
  <2>3. Tokens'
    BY <2>1, TokensStep
  <2>. QED
    BY <2>2, <2>3 DEF ApprovalInv
<1>3. ApprovalInv => ApprovalsSound
  BY ShapeTypes DEF ApprovalInv, Gate, Tokens, ApprovalsSound, ApprovalGate
<1>. QED
  BY <1>1, <1>2, <1>3, PTL DEF Spec

-----------------------------------------------------------------------------
(* Turns without approvals, whose requests do not overlap. *)

Performing(i) == inv[i].pc \in {"save", "model", "delete", "tools"}

\* All requests share the checkpoint id of the first; a stored checkpoint and
\* a request that may go on to run tools know all that was performed; and no
\* checkpoint is stored while a wave with side effects runs.
Resumed ==
    /\ \A i \in Slots : /\ inv[i].kind # "approve"
                        /\ inv[i].pc \notin {"pauseSave", "pauseDelete", "paused"}
    /\ \A i, j \in Slots : inv[i].pc # "unused" /\ inv[j].pc # "unused"
                              => inv[i].key = inv[j].key
    /\ \A i, j \in Slots : inv[i].kind = "fresh" /\ Active(i) /\ j # i => inv[j].pc = "unused"
    /\ \A k \in Slots : ckpt[k] # None =>
          /\ performed \subseteq ckpt[k].known
          /\ \E i \in Slots : inv[i].pc # "unused" /\ inv[i].key = k
    /\ \A i \in Slots : Performing(i) => performed \subseteq inv[i].known
    /\ \A i \in Slots : inv[i].pc = "tools" /\ ~ReplaySafe(inv[i].wave)
                           => ckpt[inv[i].key] = None
    /\ blind = {}

\* What a step of request i has to show; no other request is active.
LEMMA ResumedMoves ==
    ASSUME Shape, OneActive, Resumed, ~setup.concurrent,
           NEW i \in Slots, Moves(i), Keeps(i),
           inv'[i].pc \notin {"pauseSave", "pauseDelete", "paused"},
           \A k \in Slots : ckpt'[k] # None =>
               /\ performed' \subseteq ckpt'[k].known
               /\ k = inv[i].key \/ ckpt[k] # None,
           Performing(i)' => performed' \subseteq inv'[i].known,
           inv'[i].pc = "tools" /\ ~ReplaySafe(inv'[i].wave) => ckpt'[inv[i].key] = None,
           blind' = {}
    PROVE  Resumed'
<1>0. /\ \A j \in Slots \ {i} : inv'[j] = inv[j] /\ ~Active(j)
      /\ inv[i].pc # "unused" /\ inv'[i].pc # "unused"
      /\ inv'[i].key = inv[i].key /\ inv'[i].kind = inv[i].kind
      /\ Active(i)
  BY DEF Moves, Keeps, OneActive
<1>1. \A j \in Slots : /\ inv'[j].kind # "approve"
                       /\ inv'[j].pc \notin {"pauseSave", "pauseDelete", "paused"}
  BY <1>0 DEF Resumed
<1>2. \A k, j \in Slots : inv'[k].pc # "unused" /\ inv'[j].pc # "unused"
                              => inv'[k].key = inv'[j].key
  BY <1>0 DEF Resumed
<1>3. \A k, j \in Slots : inv'[k].kind = "fresh" /\ Active(k)' /\ j # k => inv'[j].pc = "unused"
  BY <1>0 DEF Resumed, Active
<1>4. \A k \in Slots : ckpt'[k] # None =>
          /\ performed' \subseteq ckpt'[k].known
          /\ \E j \in Slots : inv'[j].pc # "unused" /\ inv'[j].key = k
  BY <1>0 DEF Resumed
<1>5. \A j \in Slots : Performing(j)' => performed' \subseteq inv'[j].known
  BY <1>0 DEF Performing, Active, Ended
<1>6. \A j \in Slots : inv'[j].pc = "tools" /\ ~ReplaySafe(inv'[j].wave)
                           => ckpt'[inv'[j].key] = None
  BY <1>0 DEF Active, Ended
<1>. QED
  BY <1>1, <1>2, <1>3, <1>4, <1>5, <1>6 DEF Resumed

\* A request that is retried from the start has nothing to know.
LEMMA NothingPerformed ==
    ASSUME Shape, Gate, Resumed, NEW i \in Slots, inv[i].kind = "fresh", Active(i),
           ~inv[i].attempted
    PROVE  performed = {}
<1>1. \A e \in performed : e[1] \in Slots /\ inv[e[1]].attempted
  BY DEF Shape, Effects, Gate
<1>2. \A j \in Slots : inv[j].attempted => inv[j].pc # "unused"
  BY DEF Shape, Requests, Sound
<1>. QED
  BY <1>1, <1>2 DEF Resumed

\* A retry or a failure of a resumed turn: a fresh request is retried only
\* before anything was performed.
LEMMA ResumedThrow ==
    ASSUME InvocationAssumption, Shape, Gate, OneActive, Resumed, ~setup.concurrent,
           NEW i \in Slots, Active(i), NEW b \in BOOLEAN, Throw(i, b), Moves(i), Keeps(i),
           UNCHANGED <<ckpt, performed, blind>>
    PROVE  Resumed'
<1>0. inv \in [Slots -> Rec] /\ inv[i] \in Rec /\ inv[i].kind \in {"fresh", "resume"}
  BY RecTypes DEF Shape, Requests, Resumed
<1>1. \A k \in Slots : ckpt'[k] # None =>
               /\ performed' \subseteq ckpt'[k].known
               /\ k = inv[i].key \/ ckpt[k] # None
  BY DEF Resumed
<1>2. CASE b /\ MayRetry(i)
  <2>1. inv'[i] = Retried(i) /\ ~inv[i].attempted
    BY <1>0, <1>2 DEF Throw, MayRetry
  <2>2. Retried(i).pc = IF inv[i].kind = "fresh" THEN "save" ELSE "load"
    BY <1>0 DEF Retried, Request
  <2>3. inv[i].kind = "fresh" => performed = {}
    BY <2>1, NothingPerformed
  <2>. QED
    BY <1>1, <2>1, <2>2, <2>3, ResumedMoves DEF Resumed, Performing
<1>3. CASE ~(b /\ MayRetry(i))
  <2>1. inv'[i].pc = "failed"
    BY <1>0, <1>3 DEF Throw, Rec
  <2>. QED
    BY <1>1, <2>1, ResumedMoves DEF Resumed, Performing
<1>. QED
  BY <1>2, <1>3

\* The first request, or a resume with the checkpoint id of an earlier one.
LEMMA ResumedSend ==
    ASSUME InvocationAssumption, Shape, Gate, Resumed, ~setup.concurrent, NEW i \in Slots,
           ClientStep(i), Moves(i)
    PROVE  Resumed'
<1>0. /\ \A j \in Slots \ {i} : inv'[j] = inv[j]
      /\ \A j \in Slots : ~Active(j)
      /\ inv[i].pc = "unused" /\ inv \in [Slots -> Rec]
      /\ ckpt' = ckpt /\ performed' = performed /\ blind' = blind
  BY SendMoves DEF Moves, Shape, Requests, ClientStep, FreshRequest, ResumeRequest, ApproveRequest, Sendable
<1>1. CASE FreshRequest(i)
  <2>1. \A j \in Slots : inv[j].pc = "unused"
    BY <1>1 DEF FreshRequest
  <2>2. performed = {}
    BY <2>1 DEF Gate, Shape, Effects, Requests, Sound
  <2>3. \A k \in Slots : ckpt[k] = None
    BY <2>1 DEF Resumed
  <2>4. inv'[i].kind = "fresh" /\ inv'[i].pc = "save"
    BY <1>0, <1>1 DEF FreshRequest, Request
  <2>5. \A j \in Slots \ {i} : inv'[j].pc = "unused" /\ inv'[j].kind # "approve"
    BY <1>0, <2>1 DEF Resumed
  <2>6. /\ performed' = {} /\ blind' = {} /\ \A k \in Slots : ckpt'[k] = None
    BY <1>0, <2>2, <2>3 DEF Resumed
  <2>. QED
    BY <2>4, <2>5, <2>6 DEF Resumed, Performing, Active, Ended
<1>2. ASSUME NEW j \in Slots, ResumeRequest(i, j) PROVE Resumed'
  <2>1. inv[j].pc # "unused" /\ j # i
    BY <1>0, <1>2 DEF ResumeRequest
  <2>2. inv'[i].kind = "resume" /\ inv'[i].pc = "load" /\ inv'[i].key = inv[j].key
    BY <1>0, <1>2 DEF ResumeRequest, Request
  <2>3. \A k \in Slots : inv'[k].kind # "approve" /\ inv'[k].pc \notin {"pauseSave", "pauseDelete", "paused"}
    BY <1>0, <2>2 DEF Resumed
  <2>4. \A k, l \in Slots : inv'[k].pc # "unused" /\ inv'[l].pc # "unused" => inv'[k].key = inv'[l].key
    BY <1>0, <2>1, <2>2 DEF Resumed
  <2>5. \A k \in Slots : ~Active(k)' \/ k = i
    BY <1>0 DEF Active
  <2>6. \A k \in Slots : ckpt'[k] # None =>
          /\ performed' \subseteq ckpt'[k].known
          /\ \E l \in Slots : inv'[l].pc # "unused" /\ inv'[l].key = k
    BY <1>0 DEF Resumed
  <2>. QED
    BY <1>0, <2>2, <2>3, <2>4, <2>5, <2>6 DEF Resumed, Performing, Active, Ended
<1>3. ASSUME NEW j \in Slots, NEW d \in BOOLEAN, ApproveRequest(i, j, d) PROVE FALSE
  BY <1>3 DEF ApproveRequest, Resumed
<1>. QED
  BY <1>1, <1>2, <1>3 DEF ClientStep

\* The loop of a turn without approvals, await by await.
LEMMA ResumedRuntime ==
    ASSUME InvocationAssumption, Shape, Gate, OneActive, Resumed, ~setup.concurrent,
           ~setup.approval, NEW i \in Slots, RuntimeStep(i), Moves(i), Keeps(i)
    PROVE  Resumed'
<1>. DEFINE r == inv[i]
<1>0. /\ inv \in [Slots -> Rec] /\ r \in Rec /\ Sound(r) /\ r.key \in Slots /\ r.kind # "approve"
      /\ ckpt \in [Slots -> {None} \cup Checkpoint] /\ blind = {}
      /\ Performing(i) => performed \subseteq r.known
      /\ \A k \in Slots : ckpt[k] # None => performed \subseteq ckpt[k].known
  BY RecTypes DEF Shape, Requests, Stores, Resumed
<1>1. ASSUME inv'[i].pc \notin {"pauseSave", "pauseDelete", "paused"},
             UNCHANGED <<performed, blind>>,
             Performing(i)' => performed \subseteq inv'[i].known,
             inv'[i].pc = "tools" /\ ~ReplaySafe(inv'[i].wave) => ckpt'[r.key] = None,
             ckpt' = ckpt \/ ckpt' = [ckpt EXCEPT ![r.key] = None]
      PROVE  Resumed'
  <2>1. \A k \in Slots : ckpt'[k] # None =>
               /\ performed' \subseteq ckpt'[k].known
               /\ k = r.key \/ ckpt[k] # None
    BY <1>0, <1>1
  <2>. QED
    BY <1>0, <1>1, <2>1, ResumedMoves
<1>2. CASE Load(i)
  <2>1. CASE ckpt[r.key] = None
    BY <1>2, <2>1, ResumedThrow DEF Load, Keeps
  <2>2. CASE ckpt[r.key] # None
    <3>1. inv'[i].pc = "save" /\ inv'[i].known = ckpt[r.key].known /\ UNCHANGED <<ckpt, performed, blind>>
      BY <1>0, <1>2, <2>2 DEF Load, Rec
    <3>. QED
      BY <1>0, <1>1, <2>2, <3>1
  <2>. QED
    BY <2>1, <2>2
<1>3. CASE Take(i) \/ Consume(i) \/ PauseSave(i) \/ PauseDelete(i)
  BY <1>0, <1>3 DEF Take, Consume, PauseSave, PauseDelete, Sound, Resumed
<1>4. CASE Save(i)
  <2>1. inv'[i].pc = "model" /\ inv'[i].known = r.known /\ UNCHANGED <<performed, blind>>
    BY <1>0, <1>4 DEF Save, Goto, Rec
  <2>2. performed \subseteq r.known
    BY <1>0, <1>4 DEF Save, Performing
  <2>3. \A k \in Slots : ckpt'[k] # None =>
               /\ performed' \subseteq ckpt'[k].known
               /\ k = r.key \/ ckpt[k] # None
    BY <1>0, <1>4, <2>1, <2>2 DEF Save
  <2>. QED
    BY <1>0, <2>1, <2>2, <2>3, ResumedMoves
<1>5. CASE Emit(i) \/ ModelFinal(i) \/ Persist(i) \/ Finish(i)
  <2>1. inv'[i].pc \in {"model", "persist", "finish", "done"} /\ inv'[i].known = r.known
    BY <1>0, <1>5 DEF Emit, ModelFinal, Persist, Finish, Goto, Rec
  <2>2. inv'[i].pc = "model" => performed \subseteq r.known
    BY <1>0, <1>5 DEF Emit, ModelFinal, Persist, Finish, Performing, Goto, Rec
  <2>3. UNCHANGED <<performed, blind>> /\ (ckpt' = ckpt \/ ckpt' = [ckpt EXCEPT ![r.key] = None])
    BY <1>5 DEF Emit, ModelFinal, Persist, Finish
  <2>. QED
    BY <1>1, <2>1, <2>2, <2>3 DEF Performing
<1>6. ASSUME NEW w \in Waves, ModelTools(i, w) PROVE Resumed'
  <2>1. /\ inv'[i].known = r.known /\ inv'[i].wave = w
        /\ inv'[i].pc \in {"persist", "tools", "delete"}
        /\ inv'[i].pc = "tools" => ReplaySafe(w)
    BY <1>0, <1>6 DEF ModelTools, ApprovalNeeded, Rec
  <2>2. performed \subseteq r.known /\ UNCHANGED <<performed, blind, ckpt>>
    BY <1>0, <1>6 DEF ModelTools, Performing
  <2>. QED
    BY <1>1, <2>1, <2>2
<1>7. CASE UnsafeDelete(i)
  <2>1. inv'[i].pc = "tools" /\ inv'[i].known = r.known /\ ckpt' = [ckpt EXCEPT ![r.key] = None]
    BY <1>0, <1>7 DEF UnsafeDelete, Goto, Rec
  <2>2. performed \subseteq r.known /\ UNCHANGED <<performed, blind>> /\ ckpt'[r.key] = None
    BY <1>0, <1>7, <2>1 DEF UnsafeDelete, Performing
  <2>. QED
    BY <1>1, <2>1, <2>2
<1>8. CASE ToolWithoutEffect(i)
  <2>1. /\ inv'[i].known = r.known /\ inv'[i].pc \in {"tools", "save"}
        /\ inv'[i].pc = "tools" => inv'[i].wave = r.wave
    BY <1>0, <1>8 DEF ToolWithoutEffect, Advance, Rec
  <2>2. /\ performed \subseteq r.known /\ UNCHANGED <<performed, blind, ckpt>>
        /\ ~ReplaySafe(r.wave) => ckpt[r.key] = None
    BY <1>0, <1>8 DEF ToolWithoutEffect, Performing, Resumed
  <2>. QED
    BY <1>1, <2>1, <2>2
<1>9. CASE ToolWithEffect(i)
  <2>. DEFINE e == <<i, r.iter, r.at>>
  <2>1. /\ inv'[i].known = r.known \cup {e} /\ inv'[i].pc \in {"tools", "save"}
    BY <1>0, <1>9 DEF ToolWithEffect, Advance, Rec
  <2>2. performed \subseteq r.known /\ performed' = performed \cup {e} /\ ckpt' = ckpt /\ blind' = {}
    BY <1>0, <1>9 DEF ToolWithEffect, Performing
  <2>3. ~ReplaySafe(r.wave)
    <3>1. r.wave \in Waves /\ r.at \in 1..WaveMax /\ r.at <= Len(r.wave) /\ r.wave[r.at] = "write"
      BY <1>0, <1>9 DEF ToolWithEffect, Sound, Rec
    <3>2. r.at \in DOMAIN r.wave
      BY <3>1, WaveFacts
    <3>. QED
      BY <3>1, <3>2 DEF ReplaySafe
  <2>4. ckpt[r.key] = None
    BY <1>9, <2>3 DEF ToolWithEffect, Resumed
  <2>5. \A k \in Slots : ckpt[k] = None
    BY <2>4 DEF Resumed, Keeps
  <2>. QED
    BY <1>0, <2>1, <2>2, <2>4, <2>5, ResumedMoves
<1>. QED
  BY <1>2, <1>3, <1>4, <1>5, <1>6, <1>7, <1>8, <1>9 DEF RuntimeStep

\* Resumed is inductive for requests that do not overlap.
LEMMA ResumedStep ==
    ASSUME InvocationAssumption, Shape, Gate, OneActive, Resumed, ~setup.concurrent,
           ~setup.approval, [Next]_vars
    PROVE  Resumed'
<1>1. ASSUME NEW i \in Slots, ClientStep(i), Moves(i) PROVE Resumed'
  BY <1>1, ResumedSend
<1>2. ASSUME NEW i \in Slots, RuntimeStep(i), Moves(i), Keeps(i) PROVE Resumed'
  BY <1>2, ResumedRuntime
<1>3. ASSUME NEW i \in Slots, NEW f \in {"retryable", "final"}, Raise(i, f), Moves(i), Keeps(i)
      PROVE  Resumed'
  BY <1>3, ResumedThrow DEF Raise
<1>4. CASE UNCHANGED <<inv, ckpt, performed, blind>>
  BY <1>4 DEF Resumed, Active, Performing
<1>. QED
  BY <1>1, <1>2, <1>3, <1>4, StepCases DEF ExpireApproval, vars

\* The inductive invariant of the checkpoints.
ResumeInv == Shape /\ Gate /\ OneActive /\ (~setup.approval => Resumed)

\* Without approvals and with one request at a time, whatever fails, retries or
\* resumes, a stored checkpoint knows every side effect attempted so far: the
\* docstring of _tool_wave_is_replay_safe, for any number of resumes.
THEOREM CheckpointsAreComplete ==
    ASSUME InvocationAssumption, \A s \in Setups : ~s.approval => ~s.concurrent
    PROVE  Spec => []CheckpointsComplete
<1>1. Init => ResumeInv
  <2>. SUFFICES ASSUME Init PROVE ResumeInv
    OBVIOUS
  <2>1. Shape /\ Gate /\ OneActive
    BY InitApprovals DEF ApprovalInv
  <2>2. \A i \in Slots : inv[i].pc = "unused" /\ inv[i].kind = "fresh" /\ ckpt[i] = None
    BY DEF Init, Request
  <2>3. Resumed
    BY <2>2 DEF Init, Resumed, Performing, Active
  <2>. QED
    BY <2>1, <2>3 DEF ResumeInv
<1>2. ResumeInv /\ [Next]_vars => ResumeInv'
  <2>. SUFFICES ASSUME ResumeInv, [Next]_vars PROVE ResumeInv'
    OBVIOUS
  <2>0. Shape /\ Gate /\ OneActive /\ setup' = setup
    BY StepCases DEF ResumeInv
  <2>1. Shape' /\ Gate' /\ OneActive'
    BY <2>0, StepCases, GateStep, OneActiveStep
  <2>2. ASSUME ~setup.approval PROVE Resumed'
    <3>1. Resumed /\ ~setup.concurrent
      BY <2>2 DEF ResumeInv, Shape
    <3>. QED
      BY <2>0, <2>2, <3>1, ResumedStep
  <2>. QED
    BY <2>0, <2>1, <2>2 DEF ResumeInv
<1>3. ResumeInv => CheckpointsComplete
  BY DEF ResumeInv, Resumed, CheckpointsComplete
<1>. QED
  BY <1>1, <1>2, <1>3, PTL DEF Spec

-----------------------------------------------------------------------------
(* Turns under approval_required that go on only by answers. *)

\* All requests share the continuation id of the first; the stored
\* continuation and the request that holds it know all that was performed.
Answered ==
    /\ \A i \in Slots : inv[i].kind # "resume"
    /\ \A i, j \in Slots : inv[i].pc # "unused" /\ inv[j].pc # "unused"
                              => inv[i].cid = inv[j].cid
    /\ \A c \in Slots : pend[c] # None =>
          /\ performed \subseteq pend[c].known
          /\ \E i \in Slots : inv[i].pc # "unused" /\ inv[i].cid = c
    /\ \A i \in Slots : Holds(i) => performed \subseteq inv[i].known
    /\ blind = {}

\* What a step of request i has to show.
LEMMA AnsweredMoves ==
    ASSUME Answered, NEW i \in Slots, Moves(i), Keeps(i), blind' = {},
           \A c \in Slots : pend'[c] # None =>
               /\ performed' \subseteq pend'[c].known
               /\ c = inv[i].cid \/ pend[c] # None,
           \A j \in Slots \ {i} : Holds(j) => performed' \subseteq inv[j].known,
           Holds(i)' => performed' \subseteq inv'[i].known
    PROVE  Answered'
<1>0. /\ \A j \in Slots \ {i} : inv'[j] = inv[j] /\ (Holds(j)' <=> Holds(j))
      /\ inv[i].pc # "unused" /\ inv'[i].pc # "unused"
      /\ inv'[i].cid = inv[i].cid /\ inv'[i].kind = inv[i].kind
  BY DEF Moves, Keeps, Holds
<1>1. \A j \in Slots : inv'[j].kind # "resume"
  BY <1>0 DEF Answered
<1>2. \A k, j \in Slots : inv'[k].pc # "unused" /\ inv'[j].pc # "unused"
                              => inv'[k].cid = inv'[j].cid
  BY <1>0 DEF Answered
<1>3. \A c \in Slots : pend'[c] # None =>
          /\ performed' \subseteq pend'[c].known
          /\ \E j \in Slots : inv'[j].pc # "unused" /\ inv'[j].cid = c
  BY <1>0 DEF Answered
<1>4. \A j \in Slots : Holds(j)' => performed' \subseteq inv'[j].known
  BY <1>0
<1>. QED
  BY <1>1, <1>2, <1>3, <1>4 DEF Answered

\* Before the first answer nothing was performed.
LEMMA NothingBeforeAnswers ==
    ASSUME Shape, Gate, Roots, Answered, setup.approval, NEW i \in Slots, Active(i),
           inv[i].kind # "approve"
    PROVE  performed = {}
<1>. SUFFICES ASSUME NEW e \in performed PROVE FALSE
  OBVIOUS
<1>. DEFINE j == e[1]
<1>1. j \in Slots /\ inv[j].kind = "approve" /\ inv[j].attempted
  BY DEF Shape, Effects, Gate
<1>2. inv[j].pc # "unused"
  BY <1>1 DEF Shape, Requests, Sound
<1>3. inv[j].cid = i
  BY <1>1, <1>2 DEF Answered, Roots, Active
<1>. QED
  BY <1>1, <1>3 DEF Roots, Active, Ended

\* An exception ends the hold on a continuation.
LEMMA ThrowLetsGo ==
    ASSUME Shape, NEW i \in Slots, NEW b \in BOOLEAN, Throw(i, b)
    PROVE  ~Holds(i)'
<1>0. inv[i] \in Rec /\ inv \in [Slots -> Rec]
  BY DEF Shape, Requests
<1>1. CASE b /\ MayRetry(i)
  <2>1. inv'[i] = Retried(i) /\ inv[i].kind \in {"fresh", "resume", "approve"}
    BY <1>0, <1>1, RecTypes DEF Throw
  <2>2. Retried(i).kind = inv[i].kind /\ (inv[i].kind = "approve" => Retried(i).pc = "take")
    BY <2>1 DEF Retried, Request
  <2>. QED
    BY <2>1, <2>2 DEF Holds, Held
<1>2. CASE ~(b /\ MayRetry(i))
  BY <1>0, <1>2 DEF Throw, Rec, Holds, Held
<1>. QED
  BY <1>1, <1>2

\* The loop of a turn under approvals, await by await.
LEMMA AnsweredRuntime ==
    ASSUME InvocationAssumption, ApprovalInv, Answered, setup.approval,
           NEW i \in Slots, RuntimeStep(i), Moves(i), Keeps(i)
    PROVE  Answered'
<1>. DEFINE r == inv[i]
<1>0. /\ inv \in [Slots -> Rec] /\ r \in Rec /\ Sound(r) /\ r.cid \in Slots
      /\ pend \in [Slots -> {None} \cup Pending] /\ blind = {}
      /\ Holds(i) => performed \subseteq r.known
      /\ \A j \in Slots : Holds(j) => performed \subseteq inv[j].known
      /\ \A c \in Slots : pend[c] # None => performed \subseteq pend[c].known
  BY RecTypes DEF ApprovalInv, Shape, Requests, Stores, Answered
<1>1. ASSUME pend' = pend \/ pend' = [pend EXCEPT ![r.cid] = None],
             UNCHANGED <<performed, blind>>,
             Holds(i)' => performed \subseteq inv'[i].known
      PROVE  Answered'
  <2>1. \A c \in Slots : pend'[c] # None =>
               /\ performed' \subseteq pend'[c].known
               /\ c = r.cid \/ pend[c] # None
    BY <1>0, <1>1
  <2>. QED
    BY <1>0, <1>1, <2>1, AnsweredMoves
<1>2. CASE Load(i)
  BY <1>0, <1>2 DEF Load, Sound, Answered
<1>3. CASE Take(i)
  <2>1. CASE pend[r.cid] = None
    <3>1. Throw(i, FALSE) /\ UNCHANGED <<pend, performed, blind>>
      BY <1>3, <2>1 DEF Take
    <3>2. inv'[i].pc = "failed"
      BY <1>0, <3>1 DEF Throw, Rec
    <3>. QED
      BY <1>1, <3>1, <3>2 DEF Holds, Held
  <2>2. CASE pend[r.cid] # None
    <3>1. PICK place, granted : Snapshot(i, place, granted)
      BY <1>3, <2>2 DEF Take
    <3>2. inv'[i].known = pend[r.cid].known
      BY <1>0, <3>1 DEF Snapshot, Rec
    <3>3. UNCHANGED <<performed, blind>> /\ (pend' = pend \/ pend' = [pend EXCEPT ![r.cid] = None])
      BY <1>3, <2>2 DEF Take
    <3>. QED
      BY <1>0, <1>1, <2>2, <3>2, <3>3
  <2>. QED
    BY <2>1, <2>2
<1>4. CASE Consume(i)
  <2>1. inv'[i].known = r.known /\ Holds(i)
    BY <1>0, <1>4 DEF Consume, Rec, Holds, Held, Sound
  <2>2. UNCHANGED <<performed, blind>> /\ pend' = [pend EXCEPT ![r.cid] = None]
    BY <1>4 DEF Consume
  <2>. QED
    BY <1>0, <1>1, <2>1, <2>2
<1>5. CASE PauseSave(i)
  <2>1. inv'[i].pc = "pauseDelete" /\ UNCHANGED <<performed, blind>>
    BY <1>0, <1>5 DEF PauseSave, Goto, Rec
  <2>2. performed \subseteq r.known
    <3>1. CASE r.kind = "approve"
      BY <1>0, <1>5, <3>1 DEF PauseSave, Holds, Held
    <3>2. CASE r.kind # "approve"
      BY <3>2, NothingBeforeAnswers DEF ApprovalInv, Keeps
    <3>. QED
      BY <3>1, <3>2
  <2>3. \A c \in Slots : pend'[c] # None =>
               /\ performed' \subseteq pend'[c].known
               /\ c = r.cid \/ pend[c] # None
    BY <1>0, <1>5, <2>1, <2>2 DEF PauseSave
  <2>. QED
    BY <1>0, <2>1, <2>3, AnsweredMoves DEF Holds, Held
<1>6. CASE Save(i) \/ Emit(i) \/ ModelFinal(i) \/ PauseDelete(i) \/ UnsafeDelete(i)
           \/ Persist(i) \/ Finish(i)
  <2>1. inv'[i].known = r.known /\ UNCHANGED <<performed, blind, pend>>
    BY <1>0, <1>6 DEF Save, Emit, ModelFinal, PauseDelete, UnsafeDelete, Persist, Finish, Goto, Rec
  <2>2. Holds(i)' => Holds(i)
    BY <1>0, <1>6 DEF Save, Emit, ModelFinal, PauseDelete, UnsafeDelete, Persist, Finish, Goto, Rec,
                      Holds, Held
  <2>. QED
    BY <1>0, <1>1, <2>1, <2>2
<1>7. ASSUME NEW w \in Waves, ModelTools(i, w) PROVE Answered'
  <2>1. inv'[i].known = r.known /\ UNCHANGED <<performed, blind, pend>>
    BY <1>0, <1>7 DEF ModelTools, Rec
  <2>2. Holds(i)' => Holds(i)
    BY <1>0, <1>7 DEF ModelTools, Keeps, Holds, Held
  <2>. QED
    BY <1>0, <1>1, <2>1, <2>2
<1>8. CASE ToolWithoutEffect(i)
  <2>1. inv'[i].known = r.known /\ UNCHANGED <<performed, blind, pend>>
    BY <1>0, <1>8 DEF ToolWithoutEffect, Advance, Rec
  <2>2. Holds(i)' => Holds(i)
    BY <1>0, <1>8 DEF ToolWithoutEffect, Keeps, Holds, Held
  <2>. QED
    BY <1>0, <1>1, <2>1, <2>2
<1>9. CASE ToolWithEffect(i)
  <2>. DEFINE e == <<i, r.iter, r.at>>
  <2>1. Holds(i) /\ r.pc = "tools"
    BY <1>0, <1>9 DEF ToolWithEffect, PolicyAllows, Sound, Holds, Held
  <2>2. inv'[i].known = r.known \cup {e} /\ performed' = performed \cup {e} /\ blind' = {} /\ pend' = pend
    BY <1>0, <1>9, <2>1 DEF ToolWithEffect, Advance, Rec
  <2>3. \A j \in Slots \ {i} : ~Holds(j)
    <3>1. \A j \in Slots : Holds(j) => inv[j].cid = r.cid
      <4>1. \A j \in Slots : Holds(j) => inv[j].pc # "unused"
        BY DEF Holds, Held
      <4>. QED
        BY <2>1, <4>1 DEF Answered
    <3>. QED
      BY <2>1, <3>1 DEF ApprovalInv, Tokens
  <2>4. pend[r.cid] = None
    BY <2>1 DEF ApprovalInv, Tokens
  <2>5. \A c \in Slots : pend[c] = None
    <3>1. \A k \in Slots : inv[k].pc # "unused" => inv[k].cid = r.cid
      BY <2>1 DEF Answered
    <3>2. \A c \in Slots : pend[c] # None => \E k \in Slots : inv[k].pc # "unused" /\ inv[k].cid = c
      BY DEF Answered
    <3>. QED
      BY <2>4, <3>1, <3>2
  <2>6. performed' \subseteq inv'[i].known
    BY <1>0, <2>1, <2>2
  <2>. QED
    BY <2>2, <2>3, <2>5, <2>6, AnsweredMoves
<1>. QED
  BY <1>2, <1>3, <1>4, <1>5, <1>6, <1>7, <1>8, <1>9 DEF RuntimeStep

\* The first request, or an answer to a pause.
LEMMA AnsweredSend ==
    ASSUME InvocationAssumption, ApprovalInv, Answered, setup.approval,
           "resume" \notin setup.followups, NEW i \in Slots, ClientStep(i), Moves(i)
    PROVE  Answered'
<1>0. /\ \A j \in Slots \ {i} : inv'[j] = inv[j] /\ (Holds(j)' <=> Holds(j))
      /\ inv[i].pc = "unused" /\ inv \in [Slots -> Rec] /\ ~Holds(i)'
      /\ UNCHANGED <<pend, performed, blind>>
  BY SendMoves, SentRequest DEF ApprovalInv, Moves, Shape, Requests, Holds, Held
<1>1. CASE FreshRequest(i)
  <2>1. \A j \in Slots : inv[j].pc = "unused"
    BY <1>1 DEF FreshRequest
  <2>2. \A j \in Slots \ {i} : inv'[j].pc = "unused" /\ inv'[j].kind # "resume" /\ ~Holds(j)'
    BY <1>0, <2>1 DEF Answered, Holds, Held
  <2>3. \A c \in Slots : pend'[c] = None
    BY <1>0, <2>1 DEF Answered
  <2>4. inv'[i].kind # "resume" /\ blind' = {}
    BY <1>0, <1>1 DEF FreshRequest, Request, Answered
  <2>. QED
    BY <1>0, <2>2, <2>3, <2>4 DEF Answered
<1>2. ASSUME NEW j \in Slots, NEW d \in BOOLEAN, ApproveRequest(i, j, d) PROVE Answered'
  <2>1. inv[j].pc # "unused" /\ inv'[i].kind = "approve" /\ inv'[i].cid = inv[j].cid
    BY <1>0, <1>2 DEF ApproveRequest, Request
  <2>2. \A k \in Slots : inv'[k].kind # "resume" /\ (Holds(k)' => performed' \subseteq inv'[k].known)
    BY <1>0, <2>1 DEF Answered
  <2>3. \A k, l \in Slots : inv'[k].pc # "unused" /\ inv'[l].pc # "unused"
                                => inv'[k].cid = inv'[l].cid
    BY <1>0, <2>1 DEF Answered
  <2>4. \A c \in Slots : pend'[c] # None =>
          /\ performed' \subseteq pend'[c].known
          /\ \E k \in Slots : inv'[k].pc # "unused" /\ inv'[k].cid = c
    <3>. SUFFICES ASSUME NEW c \in Slots, pend[c] # None
                  PROVE  /\ performed \subseteq pend[c].known
                         /\ \E k \in Slots : inv'[k].pc # "unused" /\ inv'[k].cid = c
      BY <1>0
    <3>1. PICK k \in Slots : inv[k].pc # "unused" /\ inv[k].cid = c
      BY DEF Answered
    <3>2. inv'[k] = inv[k]
      BY <1>0, <3>1
    <3>. QED
      BY <3>1, <3>2 DEF Answered
  <2>. QED
    BY <1>0, <2>2, <2>3, <2>4 DEF Answered
<1>. QED
  BY <1>1, <1>2 DEF ClientStep, ResumeRequest

\* Both, each where it applies.
ReplayInv == ApprovalInv /\ (~setup.approval => Resumed) /\ (setup.approval => Answered)

\* No side effect is asked for by a request whose transcript misses one that was
\* attempted before: for sequential turns that are resumed, and for turns under
\* approval_required that go on by answers, of which one takes the continuation.
\* A checkpoint that a failed pause left behind is why resumes and approvals are
\* not mixed here.
THEOREM NothingIsReplayedUnsafely ==
    ASSUME InvocationAssumption,
           \A s \in Setups : IF s.approval
                              THEN /\ "resume" \notin s.followups
                                   /\ s.atomicTake \/ ~s.concurrent
                              ELSE ~s.concurrent
    PROVE  Spec => []NoUnsafeReplay
<1>1. Init => ReplayInv
  <2>. SUFFICES ASSUME Init PROVE ReplayInv
    OBVIOUS
  <2>1. ApprovalInv
    BY InitApprovals
  <2>2. \A i \in Slots : /\ inv[i].pc = "unused" /\ inv[i].kind = "fresh" /\ ckpt[i] = None
                         /\ pend[i] = None
    BY DEF Init, Request
  <2>3. Resumed
    BY <2>2 DEF Init, Resumed, Performing, Active
  <2>4. Answered
    BY <2>2 DEF Init, Answered, Holds
  <2>. QED
    BY <2>1, <2>3, <2>4 DEF ReplayInv
<1>2. ReplayInv /\ [Next]_vars => ReplayInv'
  <2>. SUFFICES ASSUME ReplayInv, [Next]_vars PROVE ReplayInv'
    OBVIOUS
  <2>0. ApprovalInv /\ Shape /\ Gate /\ OneActive /\ setup' = setup
    BY StepCases DEF ReplayInv, ApprovalInv
  <2>1. ApprovalInv'
    <3>1. OneTaker
      BY <2>0 DEF Shape, OneTaker
    <3>2. Shape' /\ Gate' /\ Roots' /\ OneActive'
      BY <2>0, StepCases, GateStep, RootsStep, OneActiveStep DEF ApprovalInv
    <3>3. Tokens'
      BY <2>0, <3>1, TokensStep
    <3>. QED
      BY <3>2, <3>3 DEF ApprovalInv
  <2>2. ASSUME ~setup.approval PROVE Resumed'
    <3>1. Resumed /\ ~setup.concurrent
      BY <2>0, <2>2 DEF ReplayInv, Shape
    <3>. QED
      BY <2>0, <2>2, <3>1, ResumedStep
  <2>3. ASSUME setup.approval PROVE Answered'
    <3>0. Answered /\ "resume" \notin setup.followups
      BY <2>0, <2>3 DEF ReplayInv, Shape
    <3>1. ASSUME NEW i \in Slots, ClientStep(i), Moves(i) PROVE Answered'
      BY <2>0, <2>3, <3>0, <3>1, AnsweredSend
    <3>2. ASSUME NEW i \in Slots, RuntimeStep(i), Moves(i), Keeps(i) PROVE Answered'
      BY <2>0, <2>3, <3>0, <3>2, AnsweredRuntime
    <3>3. ASSUME NEW i \in Slots, NEW f \in {"retryable", "final"}, Raise(i, f), Moves(i), Keeps(i)
          PROVE  Answered'
      <4>1. Active(i) /\ Throw(i, f = "retryable") /\ UNCHANGED <<pend, performed, blind>>
        BY <3>3 DEF Raise
      <4>2. ~Holds(i)'
        BY <2>0, <4>1, ThrowLetsGo
      <4>. QED
        BY <3>0, <3>3, <4>1, <4>2, AnsweredMoves DEF Answered
    <3>4. ASSUME NEW c \in Slots, ExpireApproval(c) PROVE Answered'
      <4>1. inv' = inv /\ UNCHANGED <<performed, blind>>
        BY <3>4 DEF ExpireApproval
      <4>2. \A d \in Slots : pend'[d] \in {None, pend[d]}
        BY <2>0, <3>4 DEF ExpireApproval, Shape, Stores
      <4>. QED
        <5>1. \A d \in Slots : pend'[d] # None => pend'[d] = pend[d]
          BY <4>2
        <5>2. /\ \A d \in Slots : pend'[d] # None =>
                    /\ performed \subseteq pend'[d].known
                    /\ \E k \in Slots : inv[k].pc # "unused" /\ inv[k].cid = d
          BY <3>0, <5>1 DEF Answered
        <5>3. /\ \A k \in Slots : Holds(k)' => performed' \subseteq inv'[k].known
              /\ blind' = {} /\ performed' = performed
          BY <3>0, <4>1 DEF Answered, Holds
        <5>4. /\ \A k \in Slots : inv'[k].kind # "resume"
              /\ \A k, l \in Slots : inv'[k].pc # "unused" /\ inv'[l].pc # "unused"
                                         => inv'[k].cid = inv'[l].cid
          BY <3>0, <4>1 DEF Answered
        <5>5. \A d \in Slots : pend'[d] # None =>
                    /\ performed' \subseteq pend'[d].known
                    /\ \E k \in Slots : inv'[k].pc # "unused" /\ inv'[k].cid = d
          BY <4>1, <5>2
        <5>. QED
          BY <5>3, <5>4, <5>5 DEF Answered
    <3>5. CASE UNCHANGED vars
      BY <3>0, <3>5 DEF vars, Answered, Holds
    <3>. QED
      BY <2>0, <3>1, <3>2, <3>3, <3>4, <3>5, StepCases
  <2>. QED
    BY <2>0, <2>1, <2>2, <2>3 DEF ReplayInv
<1>3. ReplayInv => NoUnsafeReplay
  BY DEF ReplayInv, Resumed, Answered, NoUnsafeReplay
<1>. QED
  BY <1>1, <1>2, <1>3, PTL DEF Spec

\* After output of the first attempt reached the client, the error policy of
\* _invoke starts no second attempt, whatever fails.
THEOREM OutputOfTheFirstAttemptStands ==
    ASSUME InvocationAssumption
    PROVE  Spec => FirstOutputNotReplayed
<1>. DEFINE Stands == \A i \in Slots : inv[i].emitted /\ inv[i].tries = 0 => inv'[i].tries = 0
<1>1. Init => Shape
  BY InitShape
<1>2. Shape /\ [Next]_vars => Shape'
  BY ShapeStep
<1>3. Shape /\ [Next]_vars => [Stands]_vars
  <2>. SUFFICES ASSUME Shape, [Next]_vars PROVE Stands
    OBVIOUS
  <2>0. inv \in [Slots -> Rec]
    BY DEF Shape, Requests
  <2>1. ASSUME NEW i \in Slots, inv[i].emitted, inv[i].tries = 0, NEW b \in BOOLEAN, Throw(i, b)
        PROVE  inv'[i].tries = 0
    BY <2>0, <2>1 DEF Throw, MayRetry, Rec
  <2>2. ASSUME NEW i \in Slots, NEW j \in Slots, j # i, Moves(i), inv[j].tries = 0
        PROVE  inv'[j].tries = 0
    BY <2>2 DEF Moves
  <2>3. ASSUME NEW i \in Slots, ClientStep(i) PROVE inv'[i].tries = 0
    <3>1. PICK kind \in {"fresh", "resume", "approve"}, key \in Slots, cid \in Slots,
               approve \in BOOLEAN : inv'[i] = Request(i, kind, key, cid, approve)
      BY <2>0, <2>3, ClientSends DEF Sends, Shape
    <3>. QED
      BY <3>1 DEF Request
  <2>4. ASSUME NEW i \in Slots, RuntimeStep(i), inv[i].emitted, inv[i].tries = 0
        PROVE  inv'[i].tries = 0
    <3>1. CASE Load(i)
      <4>1. CASE ckpt[inv[i].key] = None
        BY <2>1, <2>4, <3>1, <4>1 DEF Load
      <4>2. CASE ckpt[inv[i].key] # None
        BY <2>0, <2>4, <3>1, <4>2 DEF Load, Rec
      <4>. QED
        BY <4>1, <4>2
    <3>2. CASE Take(i)
      <4>1. CASE pend[inv[i].cid] = None
        BY <2>1, <2>4, <3>2, <4>1 DEF Take
      <4>2. CASE pend[inv[i].cid] # None
        <5>1. PICK place, granted : Snapshot(i, place, granted)
          BY <3>2, <4>2 DEF Take
        <5>. QED
          BY <2>0, <2>4, <5>1 DEF Snapshot, Rec
      <4>. QED
        BY <4>1, <4>2
    <3>3. CASE Save(i) \/ PauseSave(i) \/ PauseDelete(i) \/ UnsafeDelete(i) \/ Persist(i) \/ Finish(i)
      BY <2>0, <2>4, <3>3 DEF Save, PauseSave, PauseDelete, UnsafeDelete, Persist, Finish, Goto, Rec
    <3>4. CASE Emit(i) \/ ModelFinal(i) \/ Consume(i)
      BY <2>0, <2>4, <3>4 DEF Emit, ModelFinal, Consume, Rec
    <3>5. ASSUME NEW w \in Waves, ModelTools(i, w) PROVE inv'[i].tries = 0
      BY <2>0, <2>4, <3>5 DEF ModelTools, Rec
    <3>6. CASE ToolWithoutEffect(i)
      BY <2>0, <2>4, <3>6 DEF ToolWithoutEffect, Advance, Rec
    <3>7. CASE ToolWithEffect(i)
      BY <2>0, <2>4, <3>7 DEF ToolWithEffect, Advance, Rec
    <3>. QED
      BY <2>4, <3>1, <3>2, <3>3, <3>4, <3>5, <3>6, <3>7 DEF RuntimeStep
  <2>5. ASSUME NEW i \in Slots, NEW f \in {"retryable", "final"}, Raise(i, f), inv[i].emitted,
               inv[i].tries = 0
        PROVE  inv'[i].tries = 0
    BY <2>1, <2>5 DEF Raise
  <2>. QED
    BY <2>2, <2>3, <2>4, <2>5, StepCases DEF ExpireApproval, vars
<1>. QED
  BY <1>1, <1>2, <1>3, PTL DEF Spec, FirstOutputNotReplayed

-----------------------------------------------------------------------------
(* The circuit breaker, for every threshold and any number of concurrent   *)
(* invocations.                                                           *)

\* Both counters stay within the threshold when they are bumped.
LEMMA BumpType ==
    ASSUME NEW n \in 0..Threshold
    PROVE  Bump(n) \in 0..Threshold
  BY BreakerAssumption DEF Bump, BreakerAssumption

\* record_failure keeps the breaker's part of the invariant: it never leaves
\* a closed circuit at the threshold.
LEMMA FailureHolds ==
    ASSUME BreakerInv, record_failure
    PROVE  /\ failures' \in 0..Threshold
           /\ opened' \in {"none", "cooling", "elapsed"}
           /\ halfOpen' \in BOOLEAN
           /\ halfOpen' => opened' = "elapsed"
           /\ failures' >= Threshold => opened' # "none"
<1>. USE DEF BreakerInv, BreakerTypeOK, HalfOpenOnlyAfterCooldown
<1>1. failures' \in 0..Threshold /\ failures' = Bump(failures)
  BY BumpType DEF record_failure
<1>2. CASE halfOpen \/ (Bump(failures) >= Threshold /\ opened = "none")
  <2>1. opened' = "cooling" /\ ~halfOpen' /\ halfOpen' \in BOOLEAN
    BY <1>2, Zenon DEF record_failure
  <2>. QED
    BY <1>1, <2>1
<1>3. CASE ~(halfOpen \/ (Bump(failures) >= Threshold /\ opened = "none"))
  BY <1>1, <1>3 DEF record_failure
<1>. QED
  BY <1>2, <1>3

\* record_success closes the circuit and forgets the count.
LEMMA SuccessHolds ==
    ASSUME record_success
    PROVE  /\ failures' = 0
           /\ opened' = "none"
           /\ halfOpen' \in BOOLEAN
           /\ ~halfOpen'
  BY Zenon DEF record_success

\* The parts of the state that a leaving call touches keep their types.
LEMMA LeaveHolds ==
    ASSUME BreakerInv, NEW c \in Calls, Leave(c)
    PROVE  /\ pc' \in [Calls -> CallPc]
           /\ healthy' \in BOOLEAN
           /\ stale' \in SUBSET Calls
           /\ policy' = policy
  BY DEF Leave, BreakerInv, BreakerTypeOK, CallPc

\* The breaker's state is consistent at every await of _invoke.
THEOREM BreakerInvariant == BreakerSpec => []BreakerInv
<1>1. BreakerInit => BreakerInv
  <2>. SUFFICES ASSUME BreakerInit PROVE BreakerInv
    OBVIOUS
  <2>1. halfOpen \in BOOLEAN /\ ~halfOpen /\ healthy \in BOOLEAN
    BY Zenon DEF BreakerInit
  <2>. QED
    BY <2>1, BreakerAssumption
    DEF BreakerInit, BreakerInv, BreakerTypeOK, HalfOpenOnlyAfterCooldown, CallPc, BreakerAssumption
<1>2. BreakerInv /\ [BreakerNext]_breakerVars => BreakerInv'
  <2>. SUFFICES ASSUME BreakerInv, [BreakerNext]_breakerVars PROVE BreakerInv'
    OBVIOUS
  <2>1. CASE UNCHANGED breakerVars
    BY <2>1 DEF breakerVars, BreakerInv, BreakerTypeOK, HalfOpenOnlyAfterCooldown
  <2>2. CASE CooldownElapses
    BY <2>2 DEF CooldownElapses, BreakerInv, BreakerTypeOK, HalfOpenOnlyAfterCooldown
  <2>3. CASE Recover
    <3>1. healthy' \in BOOLEAN
      BY <2>3, Zenon DEF Recover
    <3>2. stale' \in SUBSET Calls /\ UNCHANGED <<failures, opened, halfOpen, pc, streak, policy>>
      BY <2>3 DEF Recover
    <3>. QED
      BY <3>1, <3>2 DEF BreakerInv, BreakerTypeOK, HalfOpenOnlyAfterCooldown
  <2>4. ASSUME NEW c \in Calls, Check(c) PROVE BreakerInv'
    <3>1. halfOpen' \in BOOLEAN /\ (halfOpen' => opened = "elapsed")
      BY <2>4, Zenon DEF Check, BreakerInv, BreakerTypeOK, HalfOpenOnlyAfterCooldown
    <3>2. /\ pc' \in [Calls -> CallPc]
          /\ UNCHANGED <<failures, opened, healthy, stale, streak, policy>>
      BY <2>4 DEF Check, BreakerInv, BreakerTypeOK, CallPc
    <3>. QED
      BY <3>1, <3>2 DEF BreakerInv, BreakerTypeOK, HalfOpenOnlyAfterCooldown
  <2>5. ASSUME record_failure, streak' = Bump(streak),
               pc' \in [Calls -> CallPc], healthy' \in BOOLEAN,
               stale' \in SUBSET Calls, policy' = policy
        PROVE  BreakerInv'
    <3>1. failures' <= streak' /\ (policy' # "fallback" => failures' = streak')
      BY <2>5, BreakerAssumption DEF BreakerInv, BreakerTypeOK, record_failure, Bump, BreakerAssumption
    <3>2. streak' \in 0..Threshold
      BY <2>5, BumpType DEF BreakerInv, BreakerTypeOK
    <3>. QED
      BY <2>5, <3>1, <3>2, FailureHolds DEF BreakerInv, BreakerTypeOK, HalfOpenOnlyAfterCooldown
  <2>6. ASSUME record_success, streak' \in 0..Threshold,
               policy # "fallback" => streak' = 0,
               pc' \in [Calls -> CallPc], healthy' \in BOOLEAN,
               stale' \in SUBSET Calls, policy' = policy
        PROVE  BreakerInv'
    BY <2>6, SuccessHolds, BreakerAssumption
    DEF BreakerInv, BreakerTypeOK, HalfOpenOnlyAfterCooldown, BreakerAssumption
  <2>7. ASSUME UNCHANGED <<failures, opened, halfOpen, streak>>,
               pc' \in [Calls -> CallPc], healthy' \in BOOLEAN,
               stale' \in SUBSET Calls, policy' = policy
        PROVE  BreakerInv'
    BY <2>7 DEF BreakerInv, BreakerTypeOK, HalfOpenOnlyAfterCooldown
  <2>8. ASSUME NEW c \in Calls, Outcome(c) PROVE BreakerInv'
    <3>1. CASE Succeed(c)
      <4>1. streak' = 0 /\ 0 \in 0..Threshold /\ record_success /\ Leave(c)
        BY <3>1, BreakerAssumption DEF Succeed, BreakerAssumption
      <4>. QED
        BY <2>6, <4>1, LeaveHolds
    <3>2. CASE TimeOut(c)
      BY <2>5, <3>2, LeaveHolds DEF TimeOut
    <3>3. CASE EndUnrecorded(c) \/ GiveUp(c)
      BY <2>7, <3>3, LeaveHolds DEF EndUnrecorded, GiveUp
    <3>4. CASE Fail(c)
      <4>1. streak' = Bump(streak) /\ streak' \in 0..Threshold
        BY <3>4, BumpType DEF Fail, BreakerInv, BreakerTypeOK
      <4>2. CASE policy = "fallback" /\ record_success /\ Leave(c)
        BY <2>6, <4>1, <4>2, LeaveHolds
      <4>3. CASE record_failure /\ Leave(c)
        BY <2>5, <4>1, <4>3, LeaveHolds
      <4>4. CASE /\ record_failure
                 /\ pc' = [pc EXCEPT ![c] = "retrying"]
                 /\ UNCHANGED <<healthy, stale, policy>>
        <5>1. /\ pc' \in [Calls -> CallPc] /\ healthy' \in BOOLEAN
              /\ stale' \in SUBSET Calls /\ policy' = policy
          BY <4>4 DEF BreakerInv, BreakerTypeOK, CallPc
        <5>. QED
          BY <2>5, <4>1, <4>4, <5>1
      <4>. QED
        BY <3>4, <4>2, <4>3, <4>4 DEF Fail
    <3>. QED
      BY <2>8, <3>1, <3>2, <3>3, <3>4 DEF Outcome
  <2>. QED
    BY <2>1, <2>2, <2>3, <2>4, <2>8 DEF BreakerNext
<1>. QED
  BY <1>1, <1>2, PTL DEF BreakerSpec

\* Unless the fallback policy is used, `threshold` consecutive failed
\* invocations leave the circuit open, however they interleave.
THEOREM OpensCorrect == BreakerSpec => []OpensUnlessFallback
<1>1. BreakerInv => OpensUnlessFallback
  BY DEF BreakerInv, OpensUnlessFallback
<1>. QED
  BY <1>1, BreakerInvariant, PTL

\* A probe is under way only after the cooldown of an opened circuit: neither a
\* late success nor a late failure leaves a closed circuit half open.
THEOREM HalfOpenCorrect == BreakerSpec => []HalfOpenOnlyAfterCooldown
<1>1. BreakerInv => HalfOpenOnlyAfterCooldown
  BY DEF BreakerInv
<1>. QED
  BY <1>1, BreakerInvariant, PTL

\* Under every policy a closed circuit opens only at the threshold-th
\* consecutive failure.
THEOREM TripsCorrect == BreakerSpec => TripsOnlyAtThreshold
<1>1. BreakerInv /\ BreakerInv' /\ [BreakerNext]_breakerVars =>
          [opened = "none" /\ opened' # "none" => streak' >= Threshold]_breakerVars
  <2>. SUFFICES ASSUME BreakerInv, BreakerInv', BreakerNext, opened = "none", opened' # "none"
                PROVE  streak' >= Threshold
    BY DEF breakerVars
  <2>1. record_failure
    BY DEF BreakerNext, CooldownElapses, Recover, Check, Outcome, Succeed, TimeOut, EndUnrecorded,
           Fail, GiveUp, record_success
  <2>2. ~halfOpen
    BY DEF BreakerInv, HalfOpenOnlyAfterCooldown
  <2>3. failures' >= Threshold
    BY <2>1, <2>2 DEF record_failure
  <2>. QED
    BY <2>3, BreakerAssumption DEF BreakerInv, BreakerTypeOK, BreakerAssumption
<1>. QED
  BY <1>1, BreakerInvariant, PTL DEF BreakerSpec, TripsOnlyAtThreshold
=============================================================================
