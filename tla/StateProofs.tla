----------------------------- MODULE StateProofs -----------------------------
(***************************************************************************)
(* Proofs about the session and memory providers.                          *)
(***************************************************************************)
EXTENDS Sessions, MemoryStore, FiniteSetTheorems, FunctionTheorems, TLAPS

-----------------------------------------------------------------------------
(* Sessions: the types, and what a caller's copy says of the stored row. *)

Row == [ver : Nat, msgs : Seq(Workers), born : Nat, exp : BOOLEAN, acked : SUBSET Workers]

SessionShape ==
    /\ backend \in Backends /\ ttl \in Ttls /\ cast \in Casts
    /\ row \in Row
    /\ index \in BOOLEAN /\ writes \in 0..MaxWrites
    /\ wk \in [Workers -> Local]
    /\ lister \in {"idle", "stale"}
    /\ ckpt \in [Workers -> {"none", "empty", "saved"}]
    /\ stored \in [Workers -> BOOLEAN]

\* Before its turn is part of any copy.
Before == {"get", "zrem", "remove", "select", "create", "save", "saveUpdate", "work"}

\* The row: its incarnation is in the past, nothing is left of one that is gone,
\* and it holds the turns acknowledged in it.
RowSound ==
    /\ row.born <= writes
    /\ Present => row.born > 0
    /\ ~Present => row = NoRow
    /\ AckedTurnsKept

\* A caller in state x: a copy read by get() is of no later version than the row of
\* the same incarnation, and one of the same version holds every turn acknowledged
\* in it; what a version check established still holds when the write follows.
Holds(x) == x.pc \in {"save", "saveUpdate", "work", "update", "exec"}
Sound(w, x) ==
    /\ x.pc = "idle" => x.ver = 0 /\ x.from = "none" /\ x.runs = 0
    /\ x.pc \in Before => w \in Invocations \cup Events /\ x.runs > 0
    /\ x.pc = "failed" => w \in Invocations
    /\ x.born <= writes
    /\ Holds(x) /\ x.from = "get" =>
        /\ x.ver > 0 /\ x.born > 0
        /\ x.born = row.born =>
            /\ x.ver <= row.ver
            /\ x.ver = row.ver => \A y \in row.acked : InSeq(y, x.msgs)
    /\ x.pc \in {"update", "exec"} => InSeq(w, x.msgs)
    /\ x.pc = "exec" /\ backend = "redis" =>
        x.seen <= writes /\ (x.seen = writes => x.ver \in {0, row.ver})
    /\ x.pc = "exec" /\ backend = "postgres" => x.ver \in {0, x.seen}

SessionInv == SessionShape /\ RowSound /\ \A w \in Workers : Sound(w, wk[w])

\* The initial states.
LEMMA SessionStart ==
    ASSUME SessionsAssumption, Init
    PROVE  SessionInv
<1>0. [pc |-> "idle", ver |-> 0, msgs |-> <<>>, from |-> "none", born |-> 0, seen |-> 0,
       tries |-> 0, runs |-> 0] \in Local
  BY DEF Local, Attempts
<1>1. row \in Row /\ writes \in 0..MaxWrites
  BY DEF SessionsAssumption, Init, Row, NoRow
<1>1a. SessionShape
  BY <1>0, <1>1 DEF Init, SessionShape
<1>2. RowSound
  BY DEF SessionsAssumption, Init, RowSound, NoRow, Present, AckedTurnsKept
<1>3. \A w \in Workers : Sound(w, wk[w])
  BY DEF SessionsAssumption, Init, Sound, Before, Holds
<1>. QED
  BY <1>1a, <1>2, <1>3 DEF SessionInv

\* The rows a write leaves.
LEMMA RowsWritten ==
    ASSUME SessionsAssumption, SessionShape, NEW w \in Workers
    PROVE  /\ NoRow \in Row /\ Fresh \in Row /\ Updated(w) \in Row /\ Inserted(w) \in Row
           /\ [row EXCEPT !.exp = TRUE] \in Row
           /\ [row EXCEPT !.exp = ~ttl /\ row.exp] \in Row
           /\ [row EXCEPT !.msgs = Append(row.msgs, w)] \in Row
<1>1. writes \in Nat /\ row \in Row /\ wk[w].msgs \in Seq(Workers) /\ ttl \in BOOLEAN
  BY DEF SessionsAssumption, SessionShape, Local
<1>2. NoRow \in Row /\ Fresh \in Row
  BY <1>1 DEF NoRow, Fresh, Row
<1>3. Inserted(w) \in Row
  BY <1>1 DEF Inserted, Row
<1>4. Updated(w) \in Row
  BY <1>1 DEF Updated, Row
<1>5. [row EXCEPT !.exp = TRUE] \in Row /\ [row EXCEPT !.exp = ~ttl /\ row.exp] \in Row
  BY <1>1 DEF Row
<1>6. Append(row.msgs, w) \in Seq(Workers)
  BY <1>1 DEF Row
<1>7. [row EXCEPT !.msgs = Append(row.msgs, w)] \in Row
  BY <1>1, <1>6 DEF Row
<1>. QED
  BY <1>2, <1>3, <1>4, <1>5, <1>7

\* What a step may do to the row: it stays in its version, begins a new incarnation,
\* goes away, or gets the next version; every change of the version is counted.
RowMoves ==
    /\ row' \in Row /\ writes' \in 0..MaxWrites
    /\ RowSound'
    /\ \/ /\ row'.ver = row.ver /\ row'.born = row.born /\ row'.acked = row.acked
          /\ writes' \in {writes, writes + 1}
       \/ /\ writes' = writes + 1
          /\ \/ row'.born = writes + 1
             \/ row' = NoRow
             \/ row'.born = row.born /\ row'.ver = row.ver + 1

\* What every step keeps of the other variables.
Frame ==
    /\ UNCHANGED fixed
    /\ index' \in BOOLEAN /\ lister' \in {"idle", "stale"}
    /\ ckpt' \in [Workers -> {"none", "empty", "saved"}]
    /\ stored' \in [Workers -> BOOLEAN]

\* A caller that does not move stays sound.
LEMMA OthersSound ==
    ASSUME SessionsAssumption, SessionInv, RowMoves, backend' = backend,
           NEW w \in Workers, NEW x \in Local, Sound(w, x)
    PROVE  Sound(w, x)'
<1>1. /\ writes \in Nat /\ row.ver \in Nat /\ row.born \in Nat /\ row.born <= writes
      /\ x.ver \in Nat /\ x.born \in Nat /\ x.seen \in Nat
  BY DEF SessionsAssumption, SessionInv, SessionShape, RowSound, Row, Local
<1>2. NoRow.born = 0
  BY DEF NoRow
<1>3. CASE row'.ver = row.ver /\ row'.born = row.born /\ row'.acked = row.acked
            /\ writes' \in {writes, writes + 1}
  BY <1>1, <1>3 DEF Sound
<1>4. CASE writes' = writes + 1 /\ (row'.born = writes + 1 \/ row' = NoRow)
  BY <1>1, <1>2, <1>4 DEF Sound
<1>5. CASE writes' = writes + 1 /\ row'.born = row.born /\ row'.ver = row.ver + 1
  BY <1>1, <1>5 DEF Sound
<1>. QED
  BY <1>3, <1>4, <1>5 DEF RowMoves

\* The step of one caller.
LEMMA CallerMoves ==
    ASSUME SessionsAssumption, SessionInv, RowMoves, Frame, NEW w \in Workers, NEW x \in Local,
           wk' = [wk EXCEPT ![w] = x], Sound(w, x)'
    PROVE  SessionInv'
<1>1. /\ wk' \in [Workers -> Local] /\ wk'[w] = x /\ \A v \in Workers \ {w} : wk'[v] = wk[v]
      /\ wk \in [Workers -> Local] /\ \A v \in Workers : Sound(v, wk[v])
  BY DEF SessionInv, SessionShape
<1>2. SessionShape'
  BY <1>1 DEF SessionInv, SessionShape, RowMoves, Frame, fixed
<1>3. ASSUME NEW v \in Workers PROVE Sound(v, wk[v])'
  <2>1. CASE v = w
    BY <1>1, <2>1 DEF Sound
  <2>2. CASE v # w
    <3>1. Sound(v, wk[v]) /\ wk[v] \in Local /\ wk'[v] = wk[v] /\ backend' = backend
      BY <1>1, <2>2 DEF Frame, fixed
    <3>. DEFINE y == wk[v]
    <3>. HIDE DEF y
    <3>. QED
      BY <3>1, OthersSound DEF y
  <2>. QED
    BY <2>1, <2>2
<1>. QED
  BY <1>2, <1>3 DEF SessionInv, RowMoves

\* A step of no caller.
LEMMA NobodyMoves ==
    ASSUME SessionsAssumption, SessionInv, RowMoves, Frame, wk' = wk
    PROVE  SessionInv'
<1>1. SessionShape'
  BY DEF SessionInv, SessionShape, RowMoves, Frame, fixed
<1>2. ASSUME NEW v \in Workers PROVE Sound(v, wk[v])'
  <2>1. Sound(v, wk[v]) /\ wk[v] \in Local /\ wk'[v] = wk[v] /\ backend' = backend
    BY DEF SessionInv, SessionShape, Frame, fixed
  <2>. QED
    BY <2>1, OthersSound
<1>. QED
  BY <1>1, <1>2 DEF SessionInv, RowMoves

\* The rows that are written: nothing, a fresh one, one for a caller's copy.
LEMMA RowKept ==
    ASSUME SessionsAssumption, SessionInv, UNCHANGED <<row, writes>>
    PROVE  RowMoves
<1>1. writes \in Nat
  BY DEF SessionsAssumption, SessionInv, SessionShape
<1>. QED
  BY <1>1 DEF SessionInv, SessionShape, RowMoves, RowSound, Present, AckedTurnsKept

\* Writing over the row, or removing it.
LEMMA RowReplaced ==
    ASSUME SessionsAssumption, SessionInv, writes < MaxWrites, writes' = writes + 1,
           row' \in {NoRow, Fresh}
    PROVE  RowMoves
<1>1. writes \in Nat /\ writes' \in 0..MaxWrites /\ MaxWrites \in Nat
  BY DEF SessionsAssumption, SessionInv, SessionShape
<1>2. NoRow \in Row /\ Fresh \in Row
  BY <1>1 DEF NoRow, Fresh, Row
<1>3. RowSound'
  BY <1>1 DEF RowSound, Present, AckedTurnsKept, NoRow, Fresh
<1>4. row'.born = writes + 1 \/ row' = NoRow
  BY DEF Fresh
<1>. QED
  BY <1>1, <1>2, <1>3, <1>4 DEF RowMoves

\* Inserting a caller's copy.
LEMMA RowInserted ==
    ASSUME SessionsAssumption, SessionInv, writes < MaxWrites, writes' = writes + 1,
           NEW w \in Workers, wk[w].pc \in {"update", "exec"}, row' = Inserted(w)
    PROVE  RowMoves
<1>1. /\ writes \in Nat /\ writes' \in 0..MaxWrites /\ MaxWrites \in Nat
      /\ InSeq(w, wk[w].msgs) /\ SessionShape
  BY DEF SessionsAssumption, SessionInv, SessionShape, Sound
<1>2. row' \in Row
  BY <1>1, RowsWritten
<1>3. RowSound'
  BY <1>1 DEF RowSound, Present, AckedTurnsKept, Inserted
<1>4. row'.born = writes + 1
  BY DEF Inserted
<1>. QED
  BY <1>1, <1>2, <1>3, <1>4 DEF RowMoves

\* Updating the row with a copy that passed the version check: a copy read by get()
\* from the same incarnation holds every turn acknowledged in it.
LEMMA RowUpdated ==
    ASSUME SessionsAssumption, SessionInv, writes < MaxWrites, writes' = writes + 1,
           NEW w \in Workers, wk[w].pc \in {"update", "exec"}, Present, Matches(w, row.ver),
           row' = Updated(w)
    PROVE  RowMoves
<1>1. /\ writes \in Nat /\ writes' \in 0..MaxWrites /\ MaxWrites \in Nat
      /\ InSeq(w, wk[w].msgs) /\ SessionShape /\ row.ver \in Nat /\ row.born \in Nat
      /\ row.ver > 0 /\ row.born <= writes /\ row.born > 0
  BY DEF SessionsAssumption, SessionInv, SessionShape, Sound, Row, RowSound, Present
<1>2. row' \in Row
  BY <1>1, RowsWritten
<1>3. Current(w) => \A y \in row.acked : InSeq(y, wk[w].msgs)
  BY <1>1 DEF SessionInv, Sound, Current, Matches, Holds
<1>4. /\ row'.ver = row.ver + 1 /\ row'.born = row.born /\ row'.msgs = wk[w].msgs
      /\ row'.acked = (IF Current(w) THEN row.acked ELSE {}) \cup {w}
  BY DEF Updated
<1>5. AckedTurnsKept'
  BY <1>1, <1>3, <1>4 DEF AckedTurnsKept
<1>6. RowSound'
  BY <1>1, <1>4, <1>5 DEF RowSound, Present
<1>. QED
  BY <1>1, <1>2, <1>4, <1>6 DEF RowMoves

\* A change of the expiry, or a turn appended in place.
LEMMA RowTouched ==
    ASSUME SessionsAssumption, SessionInv, Present, row' \in Row,
           row'.ver = row.ver, row'.born = row.born, row'.acked = row.acked,
           \A y \in row.acked : InSeq(y, row.msgs) => InSeq(y, row'.msgs),
           writes' \in {writes, writes + 1}, writes' <= MaxWrites
    PROVE  RowMoves
<1>1. writes \in Nat /\ MaxWrites \in Nat /\ writes' \in 0..MaxWrites /\ row.born <= writes'
  BY DEF SessionsAssumption, SessionInv, SessionShape, RowSound, Row
<1>2. RowSound'
  BY <1>1 DEF SessionInv, RowSound, Present, AckedTurnsKept
<1>. QED
  BY <1>1, <1>2 DEF RowMoves

\* Appending keeps what a sequence holds.
LEMMA AppendKeeps ==
    ASSUME NEW s \in Seq(Workers), NEW w \in Workers
    PROVE  /\ InSeq(w, Append(s, w))
           /\ \A y : InSeq(y, s) => InSeq(y, Append(s, w))
<1>1. DOMAIN Append(s, w) = 1..Len(s) + 1 /\ DOMAIN s = 1..Len(s) /\ Len(s) \in Nat
  OBVIOUS
<1>2. Append(s, w)[Len(s) + 1] = w /\ \A i \in 1..Len(s) : Append(s, w)[i] = s[i]
  OBVIOUS
<1>. QED
  BY <1>1, <1>2 DEF InSeq

Places == {"idle", "get", "zrem", "remove", "select", "create", "save", "saveUpdate",
           "work", "update", "exec", "memory", "cleanup", "done", "dropped", "conflict", "failed"}

\* A caller goes on with the copy it has, or without one.
LEMMA Goes ==
    ASSUME SessionsAssumption, SessionInv, RowMoves, Frame, NEW w \in Workers,
           NEW p \in Places \ {"idle", "exec"}, Goto(w, p),
           p \in Before => wk[w].pc \in Before, p = "failed" => w \in Invocations,
           p \in {"save", "saveUpdate", "work", "update"} => Holds(wk[w]),
           p = "update" => wk[w].pc = "exec"
    PROVE  SessionInv'
<1>0. PICK y \in Local : y = wk[w]
  BY DEF SessionInv, SessionShape
<1>. DEFINE x == [y EXCEPT !.pc = p]
<1>1. Sound(w, y) /\ backend' = backend
  BY <1>0 DEF SessionInv, Frame, fixed
<1>2. x \in Local
  BY DEF Local, Places
<1>3. /\ x.pc = p /\ x.ver = y.ver /\ x.msgs = y.msgs /\ x.from = y.from /\ x.born = y.born
      /\ x.seen = y.seen /\ x.runs = y.runs
  BY DEF Local
<1>4. wk' = [wk EXCEPT ![w] = x]
  BY <1>0 DEF Goto, SessionInv, SessionShape
<1>. HIDE DEF x
<1>5. Sound(w, y)'
  BY <1>1, OthersSound
<1>6. Sound(w, x)'
  BY <1>0, <1>3, <1>5 DEF Sound, Holds, Before
<1>. QED
  BY <1>2, <1>4, <1>6, CallerMoves

\* The start of an invocation or event, and the resumption of a failed one.
LEMMA Starts ==
    ASSUME SessionsAssumption, SessionInv, NEW w \in Workers, Begin(w) \/ Resume(w)
    PROVE  SessionInv'
<1>0. PICK y \in Local : y = wk[w]
  BY DEF SessionInv, SessionShape
<1>1. Sound(w, y)
  BY <1>0 DEF SessionInv
<1>2. RowMoves
  BY RowKept DEF Begin, Resume
<1>3. Frame /\ backend' = backend
  BY DEF SessionInv, SessionShape, Begin, Resume, Frame, tail, fixed
<1>4. Sound(w, y)'
  BY <1>1, <1>2, <1>3, OthersSound
<1>5. w \in Invocations \cup Events
  BY <1>0, <1>1 DEF Begin, Resume, At, Sound
<1>6. PICK n \in Nat, t \in 0..Attempts :
        n > 0 /\ wk' = [wk EXCEPT ![w] = [y EXCEPT !.pc = "get", !.runs = n, !.tries = t]]
  <2>1. y.tries \in 0..Attempts /\ y.runs + 1 \in Nat /\ y.runs + 1 > 0 /\ 0 \in 0..Attempts
    BY DEF Local, Attempts
  <2>2. CASE Begin(w)
    <3>1. wk' = [wk EXCEPT ![w] = [y EXCEPT !.pc = "get", !.runs = 1, !.tries = y.tries]]
      BY <1>0, <2>2 DEF Begin, SessionInv, SessionShape, Local
    <3>2. PICK t \in 0..Attempts : t = y.tries
      BY <2>1
    <3>3. 1 \in Nat /\ 1 > 0
      OBVIOUS
    <3>. QED
      BY <3>1, <3>2, <3>3, Zenon
  <2>3. CASE Resume(w)
    <3>1. wk' = [wk EXCEPT ![w] = [y EXCEPT !.pc = "get", !.runs = y.runs + 1, !.tries = 0]]
      BY <1>0, <2>3 DEF Resume, SessionInv, SessionShape, Local
    <3>. QED
      BY <2>1, <3>1
  <2>. QED
    BY <2>2, <2>3
<1>. DEFINE x == [y EXCEPT !.pc = "get", !.runs = n, !.tries = t]
<1>8. x \in Local /\ wk' = [wk EXCEPT ![w] = x]
  BY <1>6 DEF Local
<1>9. x.pc = "get" /\ x.born = y.born /\ x.runs = n
  BY DEF Local
<1>. HIDE DEF x
<1>10. Sound(w, x)'
  BY <1>4, <1>5, <1>6, <1>9 DEF Sound, Holds
<1>. QED
  BY <1>2, <1>3, <1>8, <1>10, CallerMoves

\* get() finds the session.
LEMMA Reads ==
    ASSUME SessionsAssumption, SessionInv, Frame, NEW w \in Workers, wk[w].pc \in {"get", "select"},
           Present, Copied(w), UNCHANGED <<row, writes>>
    PROVE  SessionInv'
<1>0. PICK y \in Local : y = wk[w]
  BY DEF SessionInv, SessionShape
<1>1. PICK r \in Row : r = row
  BY DEF SessionInv, SessionShape
<1>2. Sound(w, y)
  BY <1>0 DEF SessionInv
<1>3. RowMoves
  BY RowKept
<1>4. /\ r.ver > 0 /\ r.born > 0 /\ r.born <= writes /\ \A u \in r.acked : InSeq(u, r.msgs)
      /\ r.ver \in Nat
  BY <1>1 DEF SessionInv, RowSound, Present, AckedTurnsKept, Row
<1>5. w \in Invocations \cup Events /\ y.runs > 0
  BY <1>0, <1>2 DEF Sound, Before
<1>. DEFINE p == IF w \in Events THEN "work" ELSE "save"
            x == [y EXCEPT !.pc = p, !.ver = r.ver, !.msgs = r.msgs, !.from = "get", !.born = r.born]
<1>6. p \in {"work", "save"}
  OBVIOUS
<1>7. wk' = [wk EXCEPT ![w] = x]
  BY <1>0, <1>1 DEF Copied, SessionInv, SessionShape, Local
<1>. HIDE DEF p
<1>8. x \in Local
  BY <1>6 DEF Local, Row
<1>9. /\ x.pc = p /\ x.ver = r.ver /\ x.msgs = r.msgs /\ x.from = "get" /\ x.born = r.born
      /\ x.runs = y.runs
  BY DEF Local
<1>. HIDE DEF x
<1>10. Sound(w, x)'
  BY <1>1, <1>4, <1>5, <1>6, <1>9 DEF Sound, Holds
<1>. QED
  BY <1>3, <1>7, <1>8, <1>10, CallerMoves

\* create() returns.
LEMMA Creates ==
    ASSUME SessionsAssumption, SessionInv, Frame, RowMoves, NEW w \in Workers, At(w, "create"),
           NEW v \in Nat, NEW b \in Nat, Created(w, v, b), b <= writes'
    PROVE  SessionInv'
<1>0. PICK y \in Local : y = wk[w]
  BY DEF SessionInv, SessionShape
<1>1. w \in Invocations \cup Events /\ y.runs > 0
  BY <1>0 DEF SessionInv, Sound, Before, At
<1>. DEFINE x == [y EXCEPT !.pc = "save", !.ver = v, !.msgs = <<>>, !.from = "create", !.born = b]
<1>2. wk' = [wk EXCEPT ![w] = x]
  BY <1>0 DEF Created, SessionInv, SessionShape, Local
<1>3. x \in Local
  <2>1. <<>> \in Seq(Workers)
    OBVIOUS
  <2>. QED
    BY <2>1 DEF Local
<1>4. x.pc = "save" /\ x.from = "create" /\ x.born = b /\ x.runs = y.runs
  BY DEF Local
<1>. HIDE DEF x
<1>5. Sound(w, x)'
  BY <1>1, <1>4 DEF Sound
<1>. QED
  BY <1>2, <1>3, <1>5, CallerMoves

\* The version check of Redis or PostgreSQL succeeds.
LEMMA Checks ==
    ASSUME SessionsAssumption, SessionInv, Frame, UNCHANGED <<row, writes>>, NEW w \in Workers,
           At(w, "update"), NEW n \in Nat, NEW t \in 0..Attempts,
           wk' = [wk EXCEPT ![w] = [wk[w] EXCEPT !.pc = "exec", !.seen = n, !.tries = t]],
           Matches(w, row.ver),
           backend = "redis" => n = writes, backend = "postgres" => n = row.ver
    PROVE  SessionInv'
<1>0. PICK y \in Local : y = wk[w]
  BY DEF SessionInv, SessionShape
<1>1. Sound(w, y) /\ writes \in Nat /\ backend' = backend
  BY <1>0 DEF SessionInv, SessionShape, SessionsAssumption, Frame, fixed
<1>2. RowMoves
  BY RowKept
<1>. DEFINE x == [y EXCEPT !.pc = "exec", !.seen = n, !.tries = t]
<1>3. wk' = [wk EXCEPT ![w] = x]
  BY <1>0
<1>4. x \in Local
  BY DEF Local
<1>5. /\ x.pc = "exec" /\ x.from = y.from /\ x.born = y.born /\ x.runs = y.runs /\ x.ver = y.ver
      /\ x.seen = n /\ x.msgs = y.msgs
  BY DEF Local
<1>. HIDE DEF x
<1>6. Sound(w, x)'
  BY <1>0, <1>1, <1>5 DEF Sound, Holds, Before, At, Matches
<1>. QED
  BY <1>2, <1>3, <1>4, <1>6, CallerMoves

\* The turn is appended, in place when create() returned the stored object itself.
LEMMA Extends ==
    ASSUME SessionsAssumption, SessionInv, NEW w \in Workers, Extend(w)
    PROVE  SessionInv'
<1>0. PICK y \in Local : y = wk[w]
  BY DEF SessionInv, SessionShape
<1>1. PICK m \in Seq(Workers) : m = IF Aliased(w) THEN row.msgs ELSE wk[w].msgs
  BY DEF SessionInv, SessionShape, Row, Local
<1>2. /\ wk' = [wk EXCEPT ![w].pc = "update", ![w].msgs = Append(m, w)]
      /\ row' = IF Aliased(w) THEN [row EXCEPT !.msgs = Append(m, w)] ELSE row
      /\ writes' = writes /\ UNCHANGED <<fixed, index, lister, tail>>
  BY <1>1 DEF Extend
<1>3. Append(m, w) \in Seq(Workers) /\ InSeq(w, Append(m, w))
      /\ \A u : InSeq(u, m) => InSeq(u, Append(m, w))
  BY AppendKeeps
<1>4. RowMoves
  <2>1. CASE Aliased(w)
    <3>1. row \in Row /\ m = row.msgs /\ row' = [row EXCEPT !.msgs = Append(m, w)] /\ Present
      BY <1>1, <1>2, <2>1 DEF SessionInv, SessionShape, Aliased
    <3>2. row' \in Row
      BY <1>3, <3>1 DEF Row
    <3>3. row'.ver = row.ver /\ row'.born = row.born /\ row'.acked = row.acked
          /\ row'.msgs = Append(m, w)
      BY <3>1 DEF Row
    <3>4. writes' \in {writes, writes + 1} /\ writes' <= MaxWrites
      BY <1>2 DEF SessionInv, SessionShape, SessionsAssumption
    <3>. QED
      BY <1>3, <3>1, <3>2, <3>3, <3>4, RowTouched
  <2>2. CASE ~Aliased(w)
    BY <1>2, <2>2, RowKept
  <2>. QED
    BY <2>1, <2>2
<1>5. Frame /\ backend' = backend
  BY <1>2 DEF SessionInv, SessionShape, Frame, tail, fixed
<1>6. Sound(w, y) /\ Sound(w, y)'
  BY <1>0, <1>4, <1>5, OthersSound DEF SessionInv
<1>7. y.pc \in {"work", "idle"} /\ (y.pc = "idle" => y.from = "none")
      /\ (y.from = "get" => m = y.msgs)
  BY <1>0, <1>1, <1>6 DEF Extend, At, Sound, Aliased
<1>. DEFINE x == [y EXCEPT !.pc = "update", !.msgs = Append(m, w)]
<1>8. wk' = [wk EXCEPT ![w] = x]
  BY <1>0, <1>2 DEF SessionInv, SessionShape, Local
<1>9. x \in Local
  BY <1>3 DEF Local
<1>10. x.pc = "update" /\ x.ver = y.ver /\ x.msgs = Append(m, w) /\ x.from = y.from
       /\ x.born = y.born
  BY DEF Local
<1>. HIDE DEF x
<1>11. Sound(w, x)'
  BY <1>3, <1>6, <1>7, <1>10 DEF Sound, Holds, Before
<1>. QED
  BY <1>4, <1>5, <1>8, <1>9, <1>11, CallerMoves

\* A removal counts as a replacement.
LEMMA Removed ==
    ASSUME SessionsAssumption, SessionInv, Write(NoRow)
    PROVE  RowMoves /\ index' \in BOOLEAN
<1>1. writes < MaxWrites /\ writes' = writes + 1 /\ row' \in {NoRow, Fresh} /\ index' \in BOOLEAN
  BY DEF Write
<1>. QED
  BY <1>1, RowReplaced

\* get() of the four providers.
LEMMA GetSteps ==
    ASSUME SessionsAssumption, SessionInv, NEW w \in Workers,
           \/ MemoryGet(w) \/ SqliteGet(w) \/ RedisGet(w) \/ RedisZrem(w)
           \/ RedisRemove(w) \/ PostgresPurge(w) \/ PostgresSelect(w)
    PROVE  SessionInv'
<1>0. wk[w].pc \in Before /\ UNCHANGED <<fixed, lister, tail>>
  BY DEF MemoryGet, SqliteGet, LocalGet, RedisGet, RedisZrem, RedisRemove, PostgresPurge,
         PostgresSelect, At, Before
<1>1. index' \in BOOLEAN => Frame
  BY <1>0 DEF SessionInv, SessionShape, Frame, tail, fixed
<1>2. index \in BOOLEAN
  BY DEF SessionInv, SessionShape
<1>3. Missed(w) \in {"dropped", "create"}
  BY DEF Missed
<1>4. CASE /\ wk[w].pc \in {"get", "select"} /\ Present /\ Copied(w) /\ UNCHANGED <<row, index, writes>>
  BY <1>1, <1>2, <1>4, Reads
<1>5. ASSUME Write(NoRow), Goto(w, Missed(w)) PROVE SessionInv'
  <2>1. RowMoves /\ Frame
    BY <1>1, <1>5, Removed
  <2>2. PICK p \in {"dropped", "create"} : p = Missed(w)
    BY <1>3
  <2>. QED
    BY <1>0, <1>5, <2>1, <2>2, Goes DEF Places, Before
<1>6. ASSUME NEW p \in {"dropped", "create", "remove", "zrem", "select"}, Goto(w, p),
             UNCHANGED <<row, writes>>, index' \in BOOLEAN
      PROVE  SessionInv'
  <2>1. RowMoves /\ Frame
    BY <1>1, <1>6, RowKept
  <2>. QED
    BY <1>0, <1>6, <2>1, Goes DEF Places, Before
<1>7. CASE LocalGet(w)
  BY <1>2, <1>3, <1>4, <1>5, <1>6, <1>7 DEF LocalGet, At
<1>8. CASE RedisGet(w)
  BY <1>2, <1>4, <1>6, <1>8 DEF RedisGet, At
<1>9. CASE RedisZrem(w)
  BY <1>3, <1>6, <1>9 DEF RedisZrem
<1>10. CASE RedisRemove(w)
  BY <1>5, <1>10 DEF RedisRemove
<1>11. CASE PostgresPurge(w)
  BY <1>2, <1>5, <1>6, <1>11 DEF PostgresPurge
<1>12. CASE PostgresSelect(w)
  BY <1>2, <1>3, <1>4, <1>6, <1>12 DEF PostgresSelect, At
<1>. QED
  BY <1>7, <1>8, <1>9, <1>10, <1>11, <1>12 DEF MemoryGet, SqliteGet

\* create() of the four providers.
LEMMA CreateSteps ==
    ASSUME SessionsAssumption, SessionInv, NEW w \in Workers,
           MemoryCreate(w) \/ SqliteCreate(w) \/ RedisCreate(w) \/ PostgresCreate(w)
    PROVE  SessionInv'
<1>1. At(w, "create") /\ UNCHANGED <<fixed, lister, tail>>
  BY DEF MemoryCreate, SqliteCreate, RedisCreate, PostgresCreate, Overwrite
<1>2. \A new : Write(new) => writes < MaxWrites /\ writes' = writes + 1 /\ row' = new /\ Frame
  BY <1>1 DEF Write, SessionInv, SessionShape, Frame, tail, fixed
<1>3. /\ writes \in Nat /\ MaxWrites \in Nat /\ writes + 1 \in Nat
      /\ row.ver \in Nat /\ row.born \in Nat /\ row.born <= writes /\ row \in Row /\ SessionShape
  BY DEF SessionsAssumption, SessionInv, SessionShape, RowSound, Row
<1>4. CASE Write(Fresh) /\ Created(w, 1, writes + 1)
  <2>1. RowMoves /\ Frame /\ writes + 1 <= writes'
    BY <1>2, <1>3, <1>4, RowReplaced
  <2>. QED
    BY <1>1, <1>3, <1>4, <2>1, Creates
<1>5. CASE Present /\ Write([row EXCEPT !.exp = ~ttl /\ row.exp]) /\ Created(w, row.ver, row.born)
  <2>1. row' = [row EXCEPT !.exp = ~ttl /\ row.exp] /\ writes < MaxWrites /\ writes' = writes + 1 /\ Frame
    BY <1>2, <1>5
  <2>2. row' \in Row
    BY <1>3, <2>1, RowsWritten
  <2>3. row'.ver = row.ver /\ row'.born = row.born /\ row'.acked = row.acked /\ row'.msgs = row.msgs
    BY <1>3, <2>1 DEF Row
  <2>4. writes' \in {writes, writes + 1} /\ writes' <= MaxWrites
    BY <1>3, <2>1
  <2>5. RowMoves
    BY <1>5, <2>2, <2>3, <2>4, RowTouched
  <2>6. row.born <= writes'
    BY <1>3, <2>1
  <2>7. Created(w, row.ver, row.born)
    BY <1>5
  <2>. QED
    BY <1>1, <1>3, <2>1, <2>3, <2>5, <2>6, <2>7, Creates
<1>. QED
  BY <1>4, <1>5 DEF MemoryCreate, SqliteCreate, RedisCreate, PostgresCreate, Overwrite

\* The steps of an invocation around its session.
LEMMA RestSteps ==
    ASSUME SessionsAssumption, SessionInv, NEW w \in Workers,
           SaveCreate(w) \/ SaveUpdate(w) \/ StoreMemory(w) \/ DropCheckpoint(w) \/ Fails(w)
    PROVE  SessionInv'
<1>1. RowMoves
  BY RowKept DEF SaveCreate, SaveUpdate, StoreMemory, DropCheckpoint, Fails
<1>2. ckpt' \in [Workers -> {"none", "empty", "saved"}] /\ stored' \in [Workers -> BOOLEAN]
  <2>1. ckpt \in [Workers -> {"none", "empty", "saved"}] /\ stored \in [Workers -> BOOLEAN]
    BY DEF SessionInv, SessionShape
  <2>2. CASE SaveCreate(w) \/ SaveUpdate(w) \/ Fails(w)
    BY <2>1, <2>2 DEF SaveCreate, SaveUpdate, Fails, tail
  <2>3. CASE StoreMemory(w) \/ DropCheckpoint(w)
    BY <2>1, <2>3 DEF StoreMemory, DropCheckpoint, tail
  <2>. QED
    BY <2>2, <2>3
<1>3. Frame
  BY <1>2 DEF SaveCreate, SaveUpdate, StoreMemory, DropCheckpoint, Fails, Frame, SessionInv,
              SessionShape
<1>4. PICK p \in {"saveUpdate", "work", "cleanup", "done", "failed"} :
        /\ Goto(w, p) /\ (p = "failed" => w \in Invocations)
        /\ p = "saveUpdate" => wk[w].pc = "save"
        /\ p = "work" => wk[w].pc = "saveUpdate"
  BY DEF SaveCreate, SaveUpdate, StoreMemory, DropCheckpoint, Fails, At
<1>. QED
  BY <1>1, <1>3, <1>4, Goes DEF Places, Before, Holds

\* update() of the four providers.
LEMMA UpdateSteps ==
    ASSUME SessionsAssumption, SessionInv, NEW w \in Workers,
           \/ MemoryUpdate(w) \/ SqliteUpdate(w) \/ RedisWatch(w) \/ RedisExec(w)
           \/ PostgresCheck(w) \/ PostgresWrite(w)
    PROVE  SessionInv'
<1>1. wk[w].pc \in {"update", "exec"} /\ UNCHANGED <<fixed, lister, tail>>
  BY DEF MemoryUpdate, SqliteUpdate, RedisWatch, RedisExec, PostgresCheck, PostgresWrite, At
<1>2. index' \in BOOLEAN => Frame
  BY <1>1 DEF SessionInv, SessionShape, Frame, tail, fixed
<1>3. /\ index \in BOOLEAN /\ writes \in Nat /\ row.ver \in Nat /\ wk[w] \in Local
      /\ wk \in [Workers -> Local] /\ Sound(w, wk[w]) /\ wk[w].seen \in Nat
  BY DEF SessionsAssumption, SessionInv, SessionShape, Row, Local
<1>4. ASSUME NEW new, Accept(w, new),
             new \in {NoRow, Inserted(w)} \/ (new = Updated(w) /\ Present /\ Matches(w, row.ver))
      PROVE  SessionInv'
  <2>1. writes < MaxWrites /\ writes' = writes + 1 /\ row' = new /\ Frame
    BY <1>2, <1>4 DEF Accept, Write
  <2>2. RowMoves
    BY <1>1, <1>4, <2>1, RowReplaced, RowInserted, RowUpdated
  <2>3. PICK p \in {"memory", "done"} : Goto(w, p)
    BY <1>4 DEF Accept, Stored
  <2>. QED
    BY <2>1, <2>2, <2>3, Goes DEF Places, Before
<1>5. ASSUME NEW p \in {"conflict", "update"}, Goto(w, p), UNCHANGED <<row, index, writes>>,
             p = "update" => wk[w].pc = "exec"
      PROVE  SessionInv'
  <2>1. RowMoves /\ Frame
    BY <1>2, <1>3, <1>5, RowKept
  <2>. QED
    BY <1>5, <2>1, Goes DEF Places, Before, Holds
<1>6. CASE MemoryUpdate(w)
  BY <1>4, <1>5, <1>6 DEF MemoryUpdate, Conflict
<1>7. CASE SqliteUpdate(w)
  BY <1>4, <1>5, <1>7 DEF SqliteUpdate, Conflict
<1>8. CASE RedisWatch(w)
  <2>1. CASE Matches(w, row.ver) /\ wk[w].tries < Attempts
    <3>1. wk[w].tries + 1 \in 0..Attempts
      BY <1>3, <2>1 DEF Local, Attempts
    <3>2. /\ wk' = [wk EXCEPT ![w].pc = "exec", ![w].seen = writes, ![w].tries = wk[w].tries + 1]
          /\ UNCHANGED <<row, index, writes>> /\ backend = "redis" /\ At(w, "update")
      BY <1>8, <2>1 DEF RedisWatch
    <3>3. wk' = [wk EXCEPT ![w] = [wk[w] EXCEPT !.pc = "exec", !.seen = writes, !.tries = wk[w].tries + 1]]
      BY <1>3, <3>2 DEF Local
    <3>4. Frame
      BY <1>2, <1>3, <3>2
    <3>5. PICK t \in 0..Attempts : t = wk[w].tries + 1
      BY <3>1
    <3>6. PICK n \in Nat : n = writes
      BY <1>3
    <3>7. /\ wk' = [wk EXCEPT ![w] = [wk[w] EXCEPT !.pc = "exec", !.seen = n, !.tries = t]]
          /\ UNCHANGED <<row, writes>> /\ backend # "postgres"
      BY <3>2, <3>3, <3>5, <3>6
    <3>. QED
      BY <2>1, <3>2, <3>4, <3>6, <3>7, Checks
  <2>2. CASE ~(Matches(w, row.ver) /\ wk[w].tries < Attempts)
    BY <1>5, <1>8, <2>2 DEF RedisWatch
  <2>. QED
    BY <2>1, <2>2
<1>9. CASE RedisExec(w)
  <2>1. wk[w].seen = writes => Matches(w, row.ver)
    BY <1>3, <1>9 DEF RedisExec, At, Sound, Matches
  <2>. QED
    BY <1>4, <1>5, <1>9, <2>1 DEF RedisExec, At
<1>10. CASE PostgresCheck(w)
  <2>1. CASE Matches(w, row.ver)
    <3>2. /\ wk' = [wk EXCEPT ![w].pc = "exec", ![w].seen = row.ver]
          /\ UNCHANGED <<row, index, writes>> /\ backend = "postgres" /\ At(w, "update")
      BY <1>10, <2>1 DEF PostgresCheck
    <3>3. wk' = [wk EXCEPT ![w] = [wk[w] EXCEPT !.pc = "exec", !.seen = row.ver, !.tries = wk[w].tries]]
      BY <1>3, <3>2 DEF Local
    <3>4. Frame
      BY <1>2, <1>3, <3>2
    <3>5. PICK t \in 0..Attempts : t = wk[w].tries
      BY <1>3 DEF Local
    <3>6. PICK n \in Nat : n = row.ver
      BY <1>3
    <3>7. /\ wk' = [wk EXCEPT ![w] = [wk[w] EXCEPT !.pc = "exec", !.seen = n, !.tries = t]]
          /\ UNCHANGED <<row, writes>> /\ backend # "redis"
      BY <3>2, <3>3, <3>5, <3>6
    <3>. QED
      BY <2>1, <3>2, <3>4, <3>6, <3>7, Checks
  <2>2. CASE ~Matches(w, row.ver)
    BY <1>5, <1>10, <2>2 DEF PostgresCheck
  <2>. QED
    BY <2>1, <2>2
<1>11. CASE PostgresWrite(w)
  <2>1. Matches(w, wk[w].seen)
    BY <1>3, <1>11 DEF PostgresWrite, At, Sound, Matches
  <2>2. /\ wk[w].seen = 0 => Matches(w, row.ver)
        /\ wk[w].seen > 0 /\ row.ver = wk[w].seen => Present /\ Matches(w, row.ver)
    BY <1>3, <2>1 DEF Matches, Present
  <2>3. CASE wk[w].seen = 0
    <3>1. Accept(w, IF Present THEN Updated(w) ELSE Inserted(w))
      BY <1>3, <1>11, <2>3 DEF PostgresWrite
    <3>. QED
      BY <1>4, <2>2, <2>3, <3>1
  <2>4. CASE wk[w].seen > 0
    BY <1>3, <1>4, <1>5, <1>11, <2>2, <2>4 DEF PostgresWrite, Conflict
  <2>. QED
    BY <1>3, <2>3, <2>4
<1>. QED
  BY <1>6, <1>7, <1>8, <1>9, <1>10, <1>11

\* Time, deletion and listing.
LEMMA TimeSteps ==
    ASSUME SessionsAssumption, SessionInv,
           \/ Expire \/ RedisEvict \/ Delete \/ MemoryList \/ SqliteList \/ PostgresList
           \/ RedisScan \/ RedisPrune
    PROVE  SessionInv'
<1>1. UNCHANGED <<fixed, wk, tail>>
  BY DEF Expire, RedisEvict, Delete, MemoryList, SqliteList, PostgresList, Prune, RedisScan, RedisPrune
<1>2. index' \in BOOLEAN /\ lister' \in {"idle", "stale"} => Frame
  BY <1>1 DEF SessionInv, SessionShape, Frame, tail, fixed
<1>3. index \in BOOLEAN /\ lister \in {"idle", "stale"}
  BY DEF SessionInv, SessionShape
<1>4. CASE Expire
  <2>1. row \in Row /\ row' = [row EXCEPT !.exp = TRUE] /\ Present /\ writes' = writes /\ Frame
    BY <1>2, <1>3, <1>4 DEF Expire, SessionInv, SessionShape
  <2>2. row' \in Row /\ row'.ver = row.ver /\ row'.born = row.born /\ row'.acked = row.acked
        /\ row'.msgs = row.msgs
    BY <2>1 DEF Row
  <2>3. writes' \in {writes, writes + 1} /\ writes' <= MaxWrites
    BY <2>1 DEF SessionInv, SessionShape, SessionsAssumption
  <2>. QED
    BY <1>1, <2>1, <2>2, <2>3, RowTouched, NobodyMoves
<1>5. CASE RedisEvict
  <2>1. Frame /\ RowMoves
    BY <1>2, <1>3, <1>5, RowReplaced DEF RedisEvict
  <2>. QED
    BY <1>1, <2>1, NobodyMoves
<1>6. CASE Write(NoRow) /\ lister' \in {"idle", "stale"}
  BY <1>1, <1>2, <1>6, Removed, NobodyMoves
<1>7. CASE RedisScan
  BY <1>1, <1>2, <1>3, <1>7, RowKept, NobodyMoves DEF RedisScan
<1>. QED
  BY <1>3, <1>4, <1>5, <1>6, <1>7 DEF Delete, MemoryList, SqliteList, PostgresList, Prune, RedisPrune

\* The copies the callers hold stay sound, whatever the providers interleave.
THEOREM SessionInvariant == Spec => []SessionInv
<1>1. Init => SessionInv
  BY SessionStart, SessionsAssumption
<1>2. SessionInv /\ [Next]_vars => SessionInv'
  <2>. SUFFICES ASSUME SessionInv, [Next]_vars PROVE SessionInv'
    OBVIOUS
  <2>1. CASE UNCHANGED vars
    <3>1. RowMoves
      BY <2>1, RowKept, SessionsAssumption DEF vars
    <3>2. Frame /\ wk' = wk
      BY <2>1 DEF vars, Frame, fixed, SessionInv, SessionShape
    <3>. QED
      BY <3>1, <3>2, NobodyMoves, SessionsAssumption
  <2>2. ASSUME NEW w \in cast, Step(w) PROVE SessionInv'
    <3>1. w \in Workers
      BY SessionsAssumption DEF SessionInv, SessionShape, SessionsAssumption
    <3>. QED
      BY <2>2, <3>1, Starts, GetSteps, CreateSteps, Extends, UpdateSteps, RestSteps,
         SessionsAssumption DEF Step
  <2>. QED
    BY <2>1, <2>2, TimeSteps, SessionsAssumption DEF Next
<1>. QED
  BY <1>1, <1>2, PTL DEF Spec

-----------------------------------------------------------------------------
(* The providers implement the versioned document. *)

Held == [w \in Workers |-> IF Holding(w) THEN {wk[w].ver} ELSE {}]

\* The forms a caller's step takes in the abstract specification: it ends up holding
\* nothing; goes on holding; takes the current version or none; loses the document;
\* creates it; commits to it; or inserts it.
Abstractly(w) ==
    \/ row'.ver = row.ver /\ ~Holding(w)'
    \/ row'.ver = row.ver /\ Holding(w) /\ Holding(w)' /\ wk'[w].ver = wk[w].ver
    \/ row'.ver = row.ver /\ Holding(w)' /\ wk'[w].ver \in {0, row.ver}
    \/ row'.ver = 0 /\ ~Holding(w) /\ ~Holding(w)'
    \/ row'.ver \in {1, row.ver} /\ row'.ver # 0 /\ Holding(w)' /\ wk'[w].ver = row'.ver
    \/ /\ row.ver # 0 /\ Holding(w) /\ wk[w].ver \in {0, row.ver}
       /\ row'.ver \in {row.ver + 1, 0} /\ ~Holding(w)'
    \/ row.ver = 0 /\ Holding(w) /\ wk[w].ver \in {0, 1} /\ row'.ver = 1 /\ ~Holding(w)'

\* Each of them is a step of the abstract specification, or a stutter.
LEMMA AbstractSteps ==
    ASSUME NEW w \in Workers, wk \in [Workers -> Local], wk' \in [Workers -> Local],
           \A v \in Workers \ {w} : wk'[v] = wk[v], Abstractly(w)
    PROVE  VS!VNext \/ UNCHANGED VS!vvars
<1>. DEFINE h == IF Holding(w)' THEN {wk'[w].ver} ELSE {}
<1>1. Held' = [Held EXCEPT ![w] = h]
  BY DEF Held, Holding
<1>2. Held[w] = IF Holding(w) THEN {wk[w].ver} ELSE {}
  BY DEF Held
<1>3. (Holding(w) /\ Holding(w)' /\ wk'[w].ver = wk[w].ver) \/ (~Holding(w) /\ ~Holding(w)') => Held' = Held
  BY DEF Held, Holding
<1>4. CASE row'.ver = row.ver /\ (~Holding(w)' \/ (Holding(w)' /\ wk'[w].ver \in {0, row.ver}))
  <2>1. h \in {{row.ver}, {0}, {}}
    BY <1>4
  <2>2. VS!Take(w)
    BY <1>1, <1>4, <2>1 DEF VS!Take, Held
  <2>. QED
    BY <2>2 DEF VS!VNext
<1>5. CASE row'.ver = row.ver /\ Holding(w) /\ Holding(w)' /\ wk'[w].ver = wk[w].ver
  BY <1>3, <1>5 DEF VS!vvars, Held
<1>6. CASE row'.ver = 0 /\ ~Holding(w) /\ ~Holding(w)'
  BY <1>3, <1>6 DEF VS!VNext, VS!Remove, Held
<1>7. CASE row'.ver \in {1, row.ver} /\ row'.ver # 0 /\ Holding(w)' /\ wk'[w].ver = row'.ver
  <2>1. h = {row'.ver}
    BY <1>7
  <2>2. VS!Create(w)
    BY <1>1, <1>7, <2>1 DEF VS!Create, Held
  <2>. QED
    BY <2>2 DEF VS!VNext
<1>8. CASE /\ row.ver # 0 /\ Holding(w) /\ wk[w].ver \in {0, row.ver}
           /\ row'.ver \in {row.ver + 1, 0} /\ ~Holding(w)'
  <2>1. h = {} /\ Held[w] \cap {0, row.ver} # {}
    BY <1>2, <1>8
  <2>2. VS!Commit(w)
    BY <1>1, <1>8, <2>1 DEF VS!Commit, Held
  <2>. QED
    BY <2>2 DEF VS!VNext
<1>9. CASE row.ver = 0 /\ Holding(w) /\ wk[w].ver \in {0, 1} /\ row'.ver = 1 /\ ~Holding(w)'
  <2>1. h = {} /\ Held[w] \cap {0, 1} # {}
    BY <1>2, <1>9
  <2>2. VS!Insert(w)
    BY <1>1, <1>9, <2>1 DEF VS!Insert, Held
  <2>. QED
    BY <2>2 DEF VS!VNext
<1>. QED
  BY <1>4, <1>5, <1>6, <1>7, <1>8, <1>9 DEF Abstractly

\* Every step of a caller has one of these forms.
LEMMA CallerAbstractly ==
    ASSUME SessionsAssumption, SessionInv, NEW w \in Workers, Step(w)
    PROVE  Abstractly(w) /\ \A v \in Workers \ {w} : wk'[v] = wk[v]
<1>1. /\ wk \in [Workers -> Local] /\ wk[w] \in Local /\ row.ver \in Nat /\ wk[w].ver \in Nat
      /\ wk[w].seen \in Nat /\ writes \in Nat /\ Sound(w, wk[w])
  BY DEF SessionsAssumption, SessionInv, SessionShape, Row, Local
<1>2. ASSUME NEW p, Goto(w, p)
      PROVE  wk'[w].pc = p /\ wk'[w].ver = wk[w].ver /\ \A v \in Workers \ {w} : wk'[v] = wk[v]
  BY <1>1, <1>2 DEF Goto, Local
<1>3. NoRow.ver = 0 /\ Fresh.ver = 1 /\ Inserted(w).ver = 1 /\ Updated(w).ver = row.ver + 1
      /\ [row EXCEPT !.exp = ~ttl /\ row.exp].ver = row.ver
  BY DEF NoRow, Fresh, Inserted, Updated, SessionInv, SessionShape, Row
<1>4. \A new : Write(new) => row' = new
  BY DEF Write
<1>5. Missed(w) \in {"dropped", "create"} /\ Stored(w) \in {"memory", "done"}
  BY DEF Missed, Stored
<1>6. CASE Begin(w) \/ Resume(w)
  <2>1. wk'[w].pc = "get" /\ row' = row /\ \A v \in Workers \ {w} : wk'[v] = wk[v]
    BY <1>1, <1>6 DEF Begin, Resume, Local
  <2>. QED
    BY <2>1 DEF Abstractly, Holding
<1>7. ASSUME Copied(w), row' = row
      PROVE  Abstractly(w) /\ \A v \in Workers \ {w} : wk'[v] = wk[v]
  <2>1. /\ wk'[w].pc \in {"work", "save"} /\ wk'[w].ver = row.ver
        /\ \A v \in Workers \ {w} : wk'[v] = wk[v]
    BY <1>1, <1>7 DEF Copied, Local
  <2>. QED
    BY <1>7, <2>1 DEF Abstractly, Holding
<1>8. CASE LocalGet(w) \/ RedisGet(w) \/ RedisZrem(w) \/ RedisRemove(w) \/ PostgresPurge(w)
            \/ PostgresSelect(w)
  <2>1. wk[w].pc \in {"get", "zrem", "remove", "select"}
    BY <1>8 DEF LocalGet, RedisGet, RedisZrem, RedisRemove, PostgresPurge, PostgresSelect, At
  <2>2. \/ Copied(w) /\ row' = row
        \/ \E p \in {"dropped", "create", "remove", "zrem", "select"} :
             Goto(w, p) /\ (row' = row \/ row' = NoRow)
    BY <1>4, <1>5, <1>8 DEF LocalGet, RedisGet, RedisZrem, RedisRemove, PostgresPurge, PostgresSelect
  <2>. QED
    BY <1>2, <1>3, <1>7, <2>1, <2>2 DEF Abstractly, Holding
<1>9. CASE MemoryCreate(w) \/ SqliteCreate(w) \/ RedisCreate(w) \/ PostgresCreate(w)
  <2>1. PICK n, b : /\ Created(w, n, b) /\ row'.ver = n /\ n \in {1, row.ver} /\ n # 0
    <3>1. \/ Write(Fresh) /\ Created(w, 1, writes + 1)
          \/ Present /\ Write([row EXCEPT !.exp = ~ttl /\ row.exp]) /\ Created(w, row.ver, row.born)
      BY <1>9 DEF MemoryCreate, SqliteCreate, RedisCreate, PostgresCreate, Overwrite
    <3>2. CASE Write(Fresh) /\ Created(w, 1, writes + 1)
      <4>1. row'.ver = 1 /\ 1 # 0 /\ 1 \in {1, row.ver}
        BY <1>3, <1>4, <3>2
      <4>. QED
        BY <3>2, <4>1, Zenon
    <3>3. CASE Present /\ Write([row EXCEPT !.exp = ~ttl /\ row.exp]) /\ Created(w, row.ver, row.born)
      <4>0. row \in Row /\ row' = [row EXCEPT !.exp = ~ttl /\ row.exp]
        BY <3>3 DEF Write, SessionInv, SessionShape
      <4>1. row'.ver = row.ver /\ row.ver # 0 /\ row.ver \in {1, row.ver}
        BY <1>1, <3>3, <4>0 DEF Present, Row
      <4>. QED
        BY <3>3, <4>1, Zenon
    <3>. QED
      BY <3>1, <3>2, <3>3
  <2>2. wk'[w].pc = "save" /\ wk'[w].ver = n /\ \A v \in Workers \ {w} : wk'[v] = wk[v]
    BY <1>1, <2>1 DEF Created, Local
  <2>. QED
    BY <2>1, <2>2 DEF Abstractly, Holding
<1>10. CASE SaveCreate(w) \/ SaveUpdate(w) \/ StoreMemory(w) \/ DropCheckpoint(w) \/ Fails(w)
  <2>1. /\ row' = row
        /\ \/ \E p \in {"cleanup", "done", "failed"} : Goto(w, p)
           \/ wk[w].pc \in {"save", "saveUpdate"} /\ \E p \in {"saveUpdate", "work"} : Goto(w, p)
    BY <1>10 DEF SaveCreate, SaveUpdate, StoreMemory, DropCheckpoint, Fails, At
  <2>. QED
    BY <1>2, <2>1 DEF Abstractly, Holding
<1>11. CASE Extend(w)
  <2>1. row'.ver = row.ver
    BY <1>11 DEF Extend, SessionInv, SessionShape, Row
  <2>2. /\ wk'[w].pc = "update" /\ wk'[w].ver = wk[w].ver
        /\ \A v \in Workers \ {w} : wk'[v] = wk[v]
    BY <1>1, <1>11 DEF Extend, Local
  <2>3. wk[w].pc = "work" \/ wk[w].ver = 0
    BY <1>1, <1>11 DEF Extend, At, Sound
  <2>. QED
    BY <2>1, <2>2, <2>3 DEF Abstractly, Holding
<1>12. ASSUME NEW new, Accept(w, new), wk[w].pc \in {"update", "exec"},
              \/ new = Inserted(w) /\ row.ver = 0 /\ wk[w].ver \in {0, 1}
              \/ new \in {Updated(w), NoRow} /\ Present /\ Matches(w, row.ver)
       PROVE  Abstractly(w) /\ \A v \in Workers \ {w} : wk'[v] = wk[v]
  <2>1. row' = new /\ wk'[w].pc \in {"memory", "done"} /\ \A v \in Workers \ {w} : wk'[v] = wk[v]
    BY <1>2, <1>4, <1>5, <1>12 DEF Accept
  <2>2. Holding(w) /\ ~Holding(w)'
    BY <1>12, <2>1 DEF Holding
  <2>. QED
    BY <1>1, <1>3, <1>12, <2>1, <2>2 DEF Abstractly, Present, Matches
<1>13. ASSUME Goto(w, "conflict") \/ (Goto(w, "update") /\ wk[w].pc = "exec"), row' = row
       PROVE  Abstractly(w) /\ \A v \in Workers \ {w} : wk'[v] = wk[v]
  BY <1>2, <1>13 DEF Abstractly, Holding
<1>14. CASE MemoryUpdate(w)
  BY <1>1, <1>12, <1>13, <1>14 DEF MemoryUpdate, Conflict, At, Present
<1>15. CASE SqliteUpdate(w)
  BY <1>1, <1>12, <1>13, <1>15 DEF SqliteUpdate, Conflict, At, Present
<1>16. CASE RedisWatch(w) \/ PostgresCheck(w)
  <2>1. row' = row /\ wk[w].pc = "update"
    BY <1>16 DEF RedisWatch, PostgresCheck, At
  <2>2. CASE Goto(w, "conflict")
    BY <1>13, <2>1, <2>2
  <2>3. CASE ~Goto(w, "conflict")
    <3>1. /\ wk'[w].pc = "exec" /\ wk'[w].ver = wk[w].ver
          /\ \A v \in Workers \ {w} : wk'[v] = wk[v]
      <4>1. CASE RedisWatch(w)
        BY <1>1, <2>3, <4>1 DEF RedisWatch, Local
      <4>2. CASE PostgresCheck(w)
        BY <1>1, <2>3, <4>2 DEF PostgresCheck, Local
      <4>. QED
        BY <1>16, <4>1, <4>2
    <3>. QED
      BY <2>1, <3>1 DEF Abstractly, Holding
  <2>. QED
    BY <2>2, <2>3
<1>17. CASE RedisExec(w)
  <2>1. wk[w].seen = writes => Matches(w, row.ver)
    BY <1>1, <1>17 DEF RedisExec, At, Sound, Matches
  <2>2. ~Present => row.ver = 0
    BY <1>1 DEF Present
  <2>3. CASE wk[w].seen # writes
    BY <1>13, <1>17, <2>3 DEF RedisExec, At
  <2>4. CASE wk[w].seen = writes
    BY <1>12, <1>17, <2>1, <2>2, <2>4 DEF RedisExec, At, Matches
  <2>. QED
    BY <2>3, <2>4
<1>18. CASE PostgresWrite(w)
  <2>1. wk[w].ver \in {0, wk[w].seen} /\ wk[w].pc = "exec"
    BY <1>1, <1>18 DEF PostgresWrite, At, Sound
  <2>2. CASE wk[w].seen = 0
    <3>1. Accept(w, IF Present THEN Updated(w) ELSE Inserted(w))
      BY <1>1, <1>18, <2>2 DEF PostgresWrite
    <3>2. wk[w].ver = 0 /\ (~Present => row.ver = 0)
      BY <1>1, <2>1, <2>2 DEF Present
    <3>. QED
      BY <1>12, <2>1, <3>1, <3>2 DEF Matches
  <2>3. CASE wk[w].seen > 0 /\ row.ver = wk[w].seen
    <3>1. Accept(w, Updated(w)) /\ Present /\ Matches(w, row.ver)
      BY <1>1, <1>18, <2>1, <2>3 DEF PostgresWrite, Present, Matches
    <3>. QED
      BY <1>12, <2>1, <3>1
  <2>4. CASE wk[w].seen > 0 /\ row.ver # wk[w].seen
    BY <1>1, <1>13, <1>18, <2>4 DEF PostgresWrite, Conflict
  <2>. QED
    BY <1>1, <2>2, <2>3, <2>4
<1>. QED
  BY <1>6, <1>8, <1>9, <1>10, <1>11, <1>14, <1>15, <1>16, <1>17, <1>18
     DEF Step, MemoryGet, SqliteGet

\* Under every provider the session is one versioned document: however many commands
\* an update takes and whatever runs in between, each accepted write states the
\* current version or none (update(), create(), get(), list_active()).
THEOREM ProvidersAreVersioned == Spec => ImplementsVersionedStore
<1>1. Init => VS!VInit
  BY DEF Init, VS!VInit, NoRow, Holding
<1>2. SessionInv /\ SessionInv' /\ [Next]_vars => [VS!VNext]_(VS!vvars)
  <2>. SUFFICES ASSUME SessionInv, SessionInv', [Next]_vars
                PROVE  VS!VNext \/ UNCHANGED VS!vvars
    BY DEF VS!vvars
  <2>0. wk \in [Workers -> Local] /\ wk' \in [Workers -> Local]
    BY DEF SessionInv, SessionShape
  <2>1. CASE UNCHANGED vars
    BY <2>1 DEF vars, VS!vvars, Holding
  <2>2. ASSUME NEW w \in cast, Step(w) PROVE VS!VNext \/ UNCHANGED VS!vvars
    <3>1. w \in Workers
      BY SessionsAssumption DEF SessionInv, SessionShape, SessionsAssumption
    <3>. QED
      BY <2>0, <2>2, <3>1, CallerAbstractly, AbstractSteps, SessionsAssumption
  <2>3. CASE \/ Expire \/ RedisEvict \/ Delete \/ MemoryList \/ SqliteList \/ PostgresList
              \/ RedisScan \/ RedisPrune
    <3>1. wk' = wk /\ (row'.ver = row.ver \/ row'.ver = 0)
      BY <2>3 DEF Expire, RedisEvict, Delete, MemoryList, SqliteList, PostgresList, Prune, RedisScan,
                  RedisPrune, Write, NoRow, SessionInv, SessionShape, Row
    <3>2. Held' = Held
      BY <3>1 DEF Held, Holding
    <3>. QED
      BY <3>1, <3>2 DEF VS!vvars, VS!VNext, VS!Remove, Held
  <2>. QED
    BY <2>1, <2>2, <2>3 DEF Next
<1>. QED
  BY <1>1, <1>2, SessionInvariant, PTL DEF Spec, ImplementsVersionedStore, VS!VSpec

-----------------------------------------------------------------------------
(* A failed invocation can be resumed. *)

Recorded(w) ==
    /\ wk[w].pc \in {"work", "update", "exec", "conflict", "memory", "cleanup"} => ckpt[w] = "saved"
    /\ wk[w].pc \in {"cleanup", "done"} => stored[w]

\* What a step of w leaves alone of every other caller.
LEMMA OthersAlone ==
    ASSUME SessionsAssumption, SessionInv, NEW w \in Workers, Step(w), NEW v \in Workers \ {w}
    PROVE  wk'[v] = wk[v] /\ ckpt'[v] = ckpt[v] /\ stored'[v] = stored[v]
<1>1. wk'[v] = wk[v]
  BY CallerAbstractly
<1>2. /\ \/ ckpt' = ckpt \/ \E c : ckpt' = [ckpt EXCEPT ![w] = c]
      /\ \/ stored' = stored \/ stored' = [stored EXCEPT ![w] = TRUE]
  <2>1. CASE SaveCreate(w)
    BY <2>1 DEF SaveCreate
  <2>2. CASE SaveUpdate(w)
    BY <2>2 DEF SaveUpdate
  <2>3. CASE StoreMemory(w)
    BY <2>3 DEF StoreMemory
  <2>4. CASE DropCheckpoint(w)
    BY <2>4 DEF DropCheckpoint
  <2>5. CASE ~(SaveCreate(w) \/ SaveUpdate(w) \/ StoreMemory(w) \/ DropCheckpoint(w))
    BY <2>5 DEF Step, Begin, Resume, MemoryGet, SqliteGet, LocalGet, RedisGet, RedisZrem, RedisRemove,
         PostgresPurge, PostgresSelect, MemoryCreate, SqliteCreate, RedisCreate, Overwrite,
         PostgresCreate, Extend, MemoryUpdate, SqliteUpdate, RedisWatch, RedisExec, PostgresCheck,
         PostgresWrite, Fails, tail
  <2>. QED
    BY <2>1, <2>2, <2>3, <2>4, <2>5
<1>3. ckpt \in [Workers -> {"none", "empty", "saved"}] /\ stored \in [Workers -> BOOLEAN]
  BY DEF SessionInv, SessionShape
<1>. QED
  BY <1>1, <1>2, <1>3

\* The steps of an invocation keep its own record.
LEMMA RecordKept ==
    ASSUME SessionsAssumption, SessionInv, NEW w \in Invocations, Recorded(w), Step(w)
    PROVE  Recorded(w)'
<1>1. /\ w \in Workers /\ w \notin Events /\ wk \in [Workers -> Local] /\ wk[w] \in Local
      /\ ckpt \in [Workers -> {"none", "empty", "saved"}] /\ stored \in [Workers -> BOOLEAN]
  BY DEF SessionsAssumption, SessionInv, SessionShape
<1>2. ASSUME NEW p, Goto(w, p) PROVE wk'[w].pc = p
  BY <1>1, <1>2 DEF Goto, Local
<1>3. ASSUME wk'[w].pc \in {"get", "zrem", "remove", "select", "create", "save", "saveUpdate",
                            "dropped", "failed"}
      PROVE  Recorded(w)'
  BY <1>3 DEF Recorded
<1>4. CASE Begin(w) \/ Resume(w) \/ Fails(w) \/ SaveCreate(w)
  <2>1. wk'[w].pc \in {"get", "failed", "saveUpdate"}
    BY <1>1, <1>2, <1>4 DEF Begin, Resume, Fails, SaveCreate, Local
  <2>. QED
    BY <1>3, <2>1
<1>5. CASE LocalGet(w) \/ RedisGet(w) \/ RedisZrem(w) \/ RedisRemove(w) \/ PostgresPurge(w)
            \/ PostgresSelect(w)
  <2>1. Copied(w) => wk'[w].pc = "save"
    BY <1>1 DEF Copied, Local
  <2>2. Copied(w) \/ \E p \in {"dropped", "create", "remove", "zrem", "select"} : Goto(w, p)
    BY <1>5 DEF LocalGet, RedisGet, RedisZrem, RedisRemove, PostgresPurge, PostgresSelect, Missed
  <2>. QED
    BY <1>2, <1>3, <2>1, <2>2
<1>6. CASE MemoryCreate(w) \/ SqliteCreate(w) \/ RedisCreate(w) \/ PostgresCreate(w)
  <2>1. \E n, b : Created(w, n, b)
    BY <1>6 DEF MemoryCreate, SqliteCreate, RedisCreate, PostgresCreate, Overwrite
  <2>2. wk'[w].pc = "save"
    BY <1>1, <2>1 DEF Created, Local
  <2>. QED
    BY <1>3, <2>2
<1>7. CASE SaveUpdate(w)
  <2>1. wk'[w].pc = "work" /\ ckpt'[w] = "saved"
    BY <1>1, <1>2, <1>7 DEF SaveUpdate
  <2>. QED
    BY <2>1 DEF Recorded
<1>8. CASE StoreMemory(w)
  <2>1. wk'[w].pc = "cleanup" /\ ckpt'[w] = ckpt[w] /\ stored'[w] = TRUE /\ wk[w].pc = "memory"
    BY <1>1, <1>2, <1>8 DEF StoreMemory, At
  <2>. QED
    BY <2>1 DEF Recorded
<1>9. CASE DropCheckpoint(w)
  <2>1. wk'[w].pc = "done" /\ stored' = stored /\ wk[w].pc = "cleanup"
    BY <1>1, <1>2, <1>9 DEF DropCheckpoint, At
  <2>. QED
    BY <2>1 DEF Recorded
<1>10. CASE Extend(w)
  <2>1. wk'[w].pc = "update" /\ wk[w].pc = "work" /\ ckpt' = ckpt
    BY <1>1, <1>10 DEF Extend, At, Local, tail
  <2>. QED
    BY <2>1 DEF Recorded
<1>11. CASE \/ MemoryUpdate(w) \/ SqliteUpdate(w) \/ RedisWatch(w) \/ RedisExec(w)
            \/ PostgresCheck(w) \/ PostgresWrite(w)
  <2>1. wk[w].pc \in {"update", "exec"} /\ ckpt' = ckpt
    BY <1>11 DEF MemoryUpdate, SqliteUpdate, RedisWatch, RedisExec, PostgresCheck, PostgresWrite, At, tail
  <2>2. wk'[w].pc \in {"memory", "conflict", "exec", "update"}
    <3>1. \A new : Accept(w, new) => Goto(w, "memory")
      BY DEF Accept, Stored
    <3>2. CASE \E p \in {"memory", "conflict", "update"} : Goto(w, p)
      BY <1>2, <3>2
    <3>3. CASE wk'[w].pc = "exec"
      BY <3>3
    <3>4. RedisWatch(w) \/ PostgresCheck(w) => wk'[w].pc = "exec" \/ Goto(w, "conflict")
      BY <1>1 DEF RedisWatch, PostgresCheck, Local
    <3>. QED
      BY <1>11, <3>1, <3>2, <3>3, <3>4 DEF MemoryUpdate, SqliteUpdate, RedisExec, PostgresWrite, Conflict
  <2>. QED
    BY <2>1, <2>2 DEF Recorded
<1>. QED
  BY <1>4, <1>5, <1>6, <1>7, <1>8, <1>9, <1>10, <1>11 DEF Step, MemoryGet, SqliteGet

\* Wherever an invocation fails after its first checkpoint, it can be resumed until
\* its turn and its memory entry are written (runtime.py: session, memory, cleanup).
THEOREM FailuresAreResumable == Spec => []RecordedOrResumable
<1>1. Init => \A w \in Invocations : Recorded(w)
  BY SessionsAssumption DEF SessionsAssumption, Init, Recorded
<1>2. SessionInv /\ (\A w \in Invocations : Recorded(w)) /\ [Next]_vars
        => (\A w \in Invocations : Recorded(w))'
  <2>. SUFFICES ASSUME SessionInv, \A w \in Invocations : Recorded(w), [Next]_vars,
                       NEW w \in Invocations
                PROVE  Recorded(w)'
    OBVIOUS
  <2>1. CASE UNCHANGED <<wk, ckpt, stored>>
    BY <2>1 DEF Recorded
  <2>2. ASSUME NEW v \in cast, Step(v) PROVE Recorded(w)'
    <3>1. v \in Workers /\ w \in Workers
      BY SessionsAssumption DEF SessionInv, SessionShape, SessionsAssumption
    <3>2. CASE v = w
      BY <2>2, <3>2, RecordKept, SessionsAssumption
    <3>3. CASE v # w
      <4>1. wk'[w] = wk[w] /\ ckpt'[w] = ckpt[w] /\ stored'[w] = stored[w]
        BY <2>2, <3>1, <3>3, OthersAlone, SessionsAssumption
      <4>. QED
        BY <4>1 DEF Recorded
    <3>. QED
      BY <3>2, <3>3
  <2>. QED
    BY <2>1, <2>2 DEF Next, vars, Expire, RedisEvict, Delete, MemoryList, SqliteList, PostgresList,
                      Prune, RedisScan, RedisPrune, tail
<1>3. (\A w \in Invocations : Recorded(w)) => RecordedOrResumable
  BY DEF Recorded, RecordedOrResumable, At
<1>. QED
  BY <1>1, <1>2, <1>3, SessionInvariant, PTL DEF Spec

-----------------------------------------------------------------------------
(* No turn is lost, and none is repeated. *)

Times(x, s) == Cardinality({i \in DOMAIN s : s[i] = x})

\* How often a worker's turn can be in a sequence: once for every run that got to
\* append it.
Bound(x) ==
    IF x \in Invocations \cup Events
      THEN IF wk[x].pc \in Before THEN wk[x].runs - 1 ELSE wk[x].runs
      ELSE IF wk[x].pc = "idle" THEN 0 ELSE 1

Counted(s) == \A x \in Workers : Times(x, s) <= Bound(x)
TurnInv == Counted(row.msgs) /\ \A v \in Workers : Counted(wk[v].msgs)

\* Appending a turn adds one of it, and nothing else.
LEMMA TimesAppend ==
    ASSUME NEW s \in Seq(Workers), NEW w \in Workers, NEW x \in Workers
    PROVE  /\ Times(x, s) \in Nat /\ Times(x, <<>>) = 0
           /\ Times(x, Append(s, w)) = IF x = w THEN Times(x, s) + 1 ELSE Times(x, s)
<1>. DEFINE n == Len(s)
            I == {i \in DOMAIN s : s[i] = x}
            J == {i \in DOMAIN Append(s, w) : Append(s, w)[i] = x}
<1>1. n \in Nat /\ DOMAIN s = 1..n /\ DOMAIN Append(s, w) = 1..(n + 1)
  OBVIOUS
<1>2. Append(s, w)[n + 1] = w /\ \A i \in 1..n : Append(s, w)[i] = s[i]
  OBVIOUS
<1>3. IsFiniteSet(I) /\ n + 1 \notin I
  <2>1. I \subseteq 1..n /\ IsFiniteSet(1..n)
    BY <1>1, FS_Interval
  <2>. QED
    BY <1>1, <2>1, FS_Subset
<1>4. J = IF x = w THEN I \cup {n + 1} ELSE I
  BY <1>1, <1>2
<1>5. Cardinality(I) \in Nat
  BY <1>3, FS_CardinalityType
<1>6. Cardinality(I \cup {n + 1}) = Cardinality(I) + 1
  BY <1>3, FS_AddElement
<1>7. {i \in DOMAIN <<>> : <<>>[i] = x} = {}
  OBVIOUS
<1>8. Times(x, s) = Cardinality(I) /\ Times(x, Append(s, w)) = Cardinality(J) /\ Times(x, <<>>) = 0
  BY <1>7, FS_EmptySet DEF Times
<1>. HIDE DEF I, J
<1>. QED
  BY <1>4, <1>5, <1>6, <1>8

\* A step that only moves sequences between the row and a copy, and gives no run
\* its turn back.
LEMMA TurnsMoved ==
    ASSUME SessionsAssumption, SessionInv, SessionInv', TurnInv, NEW w \in Workers,
           \A v \in Workers \ {w} : wk'[v] = wk[v], Bound(w) <= Bound(w)',
           row'.msgs \in {row.msgs, <<>>, wk[w].msgs},
           wk'[w].msgs \in {wk[w].msgs, row.msgs, <<>>}
    PROVE  TurnInv'
<1>1. /\ wk \in [Workers -> Local] /\ wk' \in [Workers -> Local]
      /\ row.msgs \in Seq(Workers) /\ \A v \in Workers : wk[v].msgs \in Seq(Workers)
  BY DEF SessionInv, SessionShape, Row, Local
<1>2. \A x \in Workers : Bound(x) \in Int /\ Bound(x)' \in Int
  <2>1. \A x \in Workers : wk[x].runs \in Nat /\ wk'[x].runs \in Nat
    BY <1>1 DEF Local
  <2>. QED
    BY <2>1 DEF Bound
<1>3. \A x \in Workers : Bound(x) <= Bound(x)'
  BY <1>2 DEF Bound
<1>4. \A m \in Seq(Workers), x \in Workers : Times(x, m) \in Nat /\ Times(x, <<>>) = 0
  BY TimesAppend
<1>5. \A x \in Workers : 0 <= Bound(x)
  BY <1>1, <1>2, <1>4 DEF TurnInv, Counted
<1>6. ASSUME NEW m \in Seq(Workers), Counted(m) PROVE Counted(m)'
  <2>. SUFFICES ASSUME NEW x \in Workers PROVE Times(x, m) <= Bound(x)'
    BY DEF Counted
  <2>. QED
    BY <1>2, <1>3, <1>4, <1>6 DEF Counted
<1>7. Counted(<<>>)'
  <2>. SUFFICES ASSUME NEW x \in Workers PROVE Times(x, <<>>) <= Bound(x)'
    BY DEF Counted
  <2>1. <<>> \in Seq(Workers)
    OBVIOUS
  <2>2. Times(x, <<>>) = 0
    BY <1>4, <2>1
  <2>. QED
    BY <1>2, <1>3, <1>5, <2>2
<1>8. ASSUME NEW m \in Seq(Workers), m \in {row.msgs, <<>>, wk[w].msgs} PROVE Counted(m)'
  BY <1>6, <1>7, <1>8 DEF TurnInv
<1>9. PICK m \in Seq(Workers) : m = row'.msgs
  BY DEF SessionInv, SessionShape, Row
<1>10. Counted(row.msgs)'
  BY <1>8, <1>9
<1>11. ASSUME NEW v \in Workers PROVE Counted(wk[v].msgs)'
  <2>1. PICK k \in Seq(Workers) : k = wk'[v].msgs
    BY <1>1 DEF Local
  <2>2. CASE v = w
    BY <1>8, <2>1, <2>2
  <2>3. CASE v # w
    <3>1. k = wk[v].msgs /\ Counted(k)
      BY <2>1, <2>3 DEF TurnInv
    <3>. QED
      BY <1>6, <2>1, <3>1
  <2>. QED
    BY <2>2, <2>3
<1>. QED
  BY <1>10, <1>11 DEF TurnInv

\* The step that appends the turn.
LEMMA TurnAppended ==
    ASSUME SessionsAssumption, SessionInv, SessionInv', TurnInv, NEW w \in Workers, Extend(w)
    PROVE  TurnInv'
<1>1. /\ wk \in [Workers -> Local] /\ wk' \in [Workers -> Local] /\ wk[w] \in Local
      /\ row.msgs \in Seq(Workers) /\ \A v \in Workers : wk[v].msgs \in Seq(Workers)
      /\ Sound(w, wk[w]) /\ row \in Row
  BY DEF SessionInv, SessionShape, Row, Local
<1>2. PICK m \in Seq(Workers) : m = IF Aliased(w) THEN row.msgs ELSE wk[w].msgs
  BY <1>1
<1>3. /\ wk' = [wk EXCEPT ![w].pc = "update", ![w].msgs = Append(m, w)]
      /\ row' = IF Aliased(w) THEN [row EXCEPT !.msgs = Append(m, w)] ELSE row
  BY <1>2 DEF Extend
<1>4. /\ wk'[w].pc = "update" /\ wk'[w].msgs = Append(m, w) /\ wk'[w].runs = wk[w].runs
      /\ \A v \in Workers \ {w} : wk'[v] = wk[v]
  BY <1>1, <1>3 DEF Local
<1>5. row'.msgs \in {row.msgs, Append(m, w)}
  BY <1>1, <1>3 DEF Row
<1>6. Bound(w)' = Bound(w) + 1 /\ \A x \in Workers \ {w} : Bound(x)' = Bound(x)
  <2>1. wk[w].runs \in Nat
    BY <1>1 DEF Local
  <2>2. (wk[w].pc = "work" /\ w \in Invocations \cup Events) \/ (wk[w].pc = "idle" /\ w \notin Invocations \cup Events)
    BY <1>1 DEF Extend, At, Sound, Before
  <2>3. Bound(w)' = Bound(w) + 1
    BY <1>4, <2>1, <2>2 DEF Bound, Before
  <2>. QED
    BY <1>4, <2>3 DEF Bound
<1>7. \A x \in Workers : Bound(x) \in Int
  <2>1. \A x \in Workers : wk[x].runs \in Nat
    BY <1>1 DEF Local
  <2>. QED
    BY <2>1 DEF Bound
<1>8. ASSUME NEW k \in Seq(Workers), Counted(k) PROVE Counted(k)' /\ Counted(Append(k, w))'
  <2>. SUFFICES ASSUME NEW x \in Workers
                PROVE  Times(x, k) <= Bound(x)' /\ Times(x, Append(k, w)) <= Bound(x)'
    BY DEF Counted
  <2>1. Times(x, k) <= Bound(x)
    BY <1>8 DEF Counted
  <2>2. /\ Times(x, k) \in Nat
        /\ Times(x, Append(k, w)) = IF x = w THEN Times(x, k) + 1 ELSE Times(x, k)
    BY TimesAppend
  <2>3. CASE x = w
    BY <1>6, <1>7, <2>1, <2>2, <2>3
  <2>4. CASE x # w
    BY <1>6, <1>7, <2>1, <2>2, <2>4
  <2>. QED
    BY <2>3, <2>4
<1>9. Counted(m) /\ Counted(row.msgs)
  BY <1>2 DEF TurnInv
<1>10. Counted(m)' /\ Counted(Append(m, w))'
  BY <1>8, <1>9
<1>11. Counted(row.msgs)'
  <2>1. PICK k \in Seq(Workers) : k = row.msgs
    BY <1>1
  <2>2. Counted(k)'
    BY <1>8, <1>9, <2>1
  <2>. QED
    BY <1>5, <1>10, <2>1, <2>2 DEF Counted
<1>12. ASSUME NEW v \in Workers PROVE Counted(wk[v].msgs)'
  <2>1. CASE v = w
    BY <1>4, <1>10, <2>1 DEF Counted
  <2>2. CASE v # w
    <3>1. PICK k \in Seq(Workers) : k = wk[v].msgs
      BY <1>1
    <3>2. Counted(k)'
      BY <1>8, <3>1 DEF TurnInv
    <3>. QED
      BY <1>4, <2>2, <3>1, <3>2 DEF Counted
  <2>. QED
    BY <2>1, <2>2
<1>. QED
  BY <1>11, <1>12 DEF TurnInv

\* Every other step of a caller moves sequences.
LEMMA CallerMovesTurns ==
    ASSUME SessionsAssumption, SessionInv, NEW w \in Workers, Step(w), ~Extend(w)
    PROVE  /\ Bound(w) <= Bound(w)'
           /\ row'.msgs \in {row.msgs, <<>>, wk[w].msgs}
           /\ wk'[w].msgs \in {wk[w].msgs, row.msgs, <<>>}
<1>1. /\ wk \in [Workers -> Local] /\ wk[w] \in Local /\ wk[w].runs \in Nat /\ row \in Row
      /\ Sound(w, wk[w])
  BY DEF SessionInv, SessionShape, Local
<1>2. ASSUME NEW p, Goto(w, p)
      PROVE  wk'[w].pc = p /\ wk'[w].runs = wk[w].runs /\ wk'[w].msgs = wk[w].msgs
  BY <1>1, <1>2 DEF Goto, Local
<1>3. NoRow.msgs = <<>> /\ Fresh.msgs = <<>> /\ Inserted(w).msgs = wk[w].msgs
      /\ Updated(w).msgs = wk[w].msgs
  BY DEF NoRow, Fresh, Inserted, Updated
<1>4. ASSUME wk'[w].runs = wk[w].runs, wk[w].pc # "idle", wk'[w].pc # "idle",
             wk'[w].pc \in Before => wk[w].pc \in Before
      PROVE  Bound(w) <= Bound(w)'
  BY <1>1, <1>4 DEF Bound
<1>5. CASE Begin(w)
  <2>1. wk'[w].pc = "get" /\ wk'[w].runs = 1 /\ wk'[w].msgs = wk[w].msgs /\ row' = row
        /\ wk[w].pc = "idle"
    BY <1>1, <1>5 DEF Begin, Local, At
  <2>2. wk[w].runs = 0 /\ w \in Invocations \cup Events
    BY <1>1, <1>5, <2>1 DEF Begin, Sound
  <2>. QED
    BY <2>1, <2>2 DEF Bound, Before
<1>6. CASE Resume(w)
  <2>1. wk'[w].pc = "get" /\ wk'[w].runs = wk[w].runs + 1 /\ wk'[w].msgs = wk[w].msgs /\ row' = row
        /\ wk[w].pc = "failed"
    BY <1>1, <1>6 DEF Resume, Local, At
  <2>2. w \in Invocations \cup Events
    BY <1>1, <2>1 DEF Sound
  <2>. QED
    BY <1>1, <2>1, <2>2 DEF Bound, Before
<1>7. CASE LocalGet(w) \/ RedisGet(w) \/ RedisZrem(w) \/ RedisRemove(w) \/ PostgresPurge(w)
            \/ PostgresSelect(w)
  <2>1. wk[w].pc \in Before
    BY <1>7 DEF LocalGet, RedisGet, RedisZrem, RedisRemove, PostgresPurge, PostgresSelect, At, Before
  <2>2. \/ Copied(w) /\ row' = row
        \/ \E p \in {"dropped", "create", "remove", "zrem", "select"} :
             Goto(w, p) /\ (row' = row \/ row' = NoRow)
    BY <1>7 DEF LocalGet, RedisGet, RedisZrem, RedisRemove, PostgresPurge, PostgresSelect, Missed, Write
  <2>3. CASE Copied(w) /\ row' = row
    <3>1. wk'[w].pc \in {"work", "save"} /\ wk'[w].runs = wk[w].runs /\ wk'[w].msgs = row.msgs
      BY <1>1, <2>3 DEF Copied, Local
    <3>. QED
      BY <1>4, <2>1, <2>3, <3>1 DEF Before
  <2>4. CASE ~(Copied(w) /\ row' = row)
    BY <1>2, <1>3, <1>4, <2>1, <2>2, <2>4 DEF Before
  <2>. QED
    BY <2>3, <2>4
<1>8. CASE MemoryCreate(w) \/ SqliteCreate(w) \/ RedisCreate(w) \/ PostgresCreate(w)
  <2>1. wk[w].pc = "create" /\ \E n, b : Created(w, n, b)
    BY <1>8 DEF MemoryCreate, SqliteCreate, RedisCreate, PostgresCreate, Overwrite, At
  <2>2. wk'[w].pc = "save" /\ wk'[w].runs = wk[w].runs /\ wk'[w].msgs = <<>>
    BY <1>1, <2>1 DEF Created, Local
  <2>3. row' = Fresh \/ row' = [row EXCEPT !.exp = ~ttl /\ row.exp]
    BY <1>8 DEF MemoryCreate, SqliteCreate, RedisCreate, PostgresCreate, Overwrite, Write
  <2>4. row'.msgs \in {row.msgs, <<>>}
    BY <1>1, <1>3, <2>3 DEF Row
  <2>. QED
    BY <1>4, <2>1, <2>2, <2>4 DEF Before
<1>9. CASE SaveCreate(w) \/ SaveUpdate(w) \/ StoreMemory(w) \/ DropCheckpoint(w) \/ Fails(w)
  <2>1. /\ row' = row /\ wk[w].pc # "idle"
        /\ \/ \E p \in {"cleanup", "done", "failed"} : Goto(w, p)
           \/ wk[w].pc \in {"save", "saveUpdate"} /\ \E p \in {"saveUpdate", "work"} : Goto(w, p)
    BY <1>9 DEF SaveCreate, SaveUpdate, StoreMemory, DropCheckpoint, Fails, At
  <2>. QED
    BY <1>2, <1>4, <2>1 DEF Before
<1>10. CASE \/ MemoryUpdate(w) \/ SqliteUpdate(w) \/ RedisWatch(w) \/ RedisExec(w)
            \/ PostgresCheck(w) \/ PostgresWrite(w)
  <2>1. wk[w].pc \in {"update", "exec"}
    BY <1>10 DEF MemoryUpdate, SqliteUpdate, RedisWatch, RedisExec, PostgresCheck, PostgresWrite, At
  <2>2. ASSUME NEW new, Accept(w, new), new \in {NoRow, Inserted(w), Updated(w)}
        PROVE  /\ wk'[w].pc \in {"memory", "done"} /\ wk'[w].runs = wk[w].runs
               /\ wk'[w].msgs = wk[w].msgs /\ row'.msgs \in {<<>>, wk[w].msgs}
    BY <1>2, <1>3, <2>2 DEF Accept, Stored, Write
  <2>3. ASSUME NEW p \in {"conflict", "update"}, Goto(w, p), row' = row
        PROVE  /\ wk'[w].pc \in {"conflict", "update"} /\ wk'[w].runs = wk[w].runs
               /\ wk'[w].msgs = wk[w].msgs /\ row'.msgs = row.msgs
    BY <1>2, <2>3
  <2>4. /\ wk'[w].pc \in {"memory", "done", "conflict", "update", "exec"}
        /\ wk'[w].runs = wk[w].runs /\ wk'[w].msgs = wk[w].msgs
        /\ row'.msgs \in {row.msgs, <<>>, wk[w].msgs}
    <3>1. CASE RedisWatch(w) \/ PostgresCheck(w)
      <4>1. row' = row
        BY <3>1 DEF RedisWatch, PostgresCheck
      <4>2. CASE Goto(w, "conflict")
        BY <2>3, <4>1, <4>2
      <4>3. CASE ~Goto(w, "conflict")
        <5>1. wk'[w].pc = "exec" /\ wk'[w].runs = wk[w].runs /\ wk'[w].msgs = wk[w].msgs
          BY <1>1, <3>1, <4>3 DEF RedisWatch, PostgresCheck, Local
        <5>. QED
          BY <4>1, <5>1
      <4>. QED
        BY <4>2, <4>3
    <3>2. CASE MemoryUpdate(w) \/ SqliteUpdate(w)
      BY <2>2, <2>3, <3>2 DEF MemoryUpdate, SqliteUpdate, Conflict
    <3>3. CASE RedisExec(w)
      BY <2>2, <2>3, <3>3 DEF RedisExec
    <3>4. CASE PostgresWrite(w)
      BY <2>2, <2>3, <3>4 DEF PostgresWrite, Conflict
    <3>. QED
      BY <1>10, <3>1, <3>2, <3>3, <3>4
  <2>. QED
    BY <1>4, <2>1, <2>4 DEF Before
<1>. QED
  BY <1>5, <1>6, <1>7, <1>8, <1>9, <1>10 DEF Step, MemoryGet, SqliteGet

\* What a session keeps (update(), create(), get() of every provider): an acknowledged
\* turn stays as long as later writers read the same incarnation, and no turn is in
\* the session more often than its invocation ran.
THEOREM SessionsKeepTurns == Spec => []SessionTurns
<1>1. Init => TurnInv
  <2>. SUFFICES ASSUME Init PROVE TurnInv
    OBVIOUS
  <2>1. row.msgs = <<>> /\ \A v \in Workers : wk[v].msgs = <<>> /\ wk[v].runs = 0 /\ wk[v].pc = "idle"
    BY DEF Init, NoRow
  <2>2. \A x \in Workers : Bound(x) = 0
    BY <2>1 DEF Bound, Before
  <2>3. ASSUME NEW x \in Workers PROVE Times(x, <<>>) = 0
    <3>1. <<>> \in Seq(Workers)
      OBVIOUS
    <3>. QED
      BY <3>1, TimesAppend
  <2>. QED
    BY <2>1, <2>2, <2>3 DEF TurnInv, Counted
<1>2. SessionInv /\ SessionInv' /\ TurnInv /\ [Next]_vars => TurnInv'
  <2>. SUFFICES ASSUME SessionInv, SessionInv', TurnInv, [Next]_vars PROVE TurnInv'
    OBVIOUS
  <2>0. SessionsAssumption
    BY SessionsAssumption
  <2>1. ASSUME NEW w \in cast, Step(w) PROVE TurnInv'
    <3>1. w \in Workers
      BY SessionsAssumption DEF SessionInv, SessionShape, SessionsAssumption
    <3>2. CASE Extend(w)
      BY <2>0, <3>1, <3>2, TurnAppended
    <3>3. CASE ~Extend(w)
      <4>1. /\ Bound(w) <= Bound(w)' /\ row'.msgs \in {row.msgs, <<>>, wk[w].msgs}
            /\ wk'[w].msgs \in {wk[w].msgs, row.msgs, <<>>}
            /\ \A v \in Workers \ {w} : wk'[v] = wk[v]
        BY <2>0, <2>1, <3>1, <3>3, CallerMovesTurns, CallerAbstractly
      <4>. QED
        BY <2>0, <3>1, <4>1, TurnsMoved
    <3>. QED
      BY <3>2, <3>3
  <2>2. ASSUME wk' = wk, row'.msgs \in {row.msgs, <<>>} PROVE TurnInv'
    <3>1. \A x \in Workers : Bound(x)' = Bound(x)
      BY <2>2 DEF Bound
    <3>2. \A v \in Workers : Counted(wk[v].msgs)'
      BY <2>2, <3>1 DEF TurnInv, Counted
    <3>3. CASE row'.msgs = row.msgs
      BY <3>1, <3>2, <3>3 DEF TurnInv, Counted
    <3>4. CASE row'.msgs = <<>>
      <4>. SUFFICES ASSUME NEW x \in Workers PROVE Times(x, <<>>) <= Bound(x)'
        BY <3>2, <3>4 DEF TurnInv, Counted
      <4>1. row.msgs \in Seq(Workers) /\ <<>> \in Seq(Workers)
        BY DEF SessionInv, SessionShape, Row
      <4>2. Times(x, row.msgs) \in Nat /\ Times(x, <<>>) = 0
        BY <4>1, TimesAppend
      <4>3. Times(x, row.msgs) <= Bound(x) /\ Bound(x) \in Int
        <5>1. wk[x].runs \in Nat
          BY DEF SessionInv, SessionShape, Local
        <5>. QED
          BY <5>1 DEF TurnInv, Counted, Bound
      <4>. QED
        BY <3>1, <4>2, <4>3
    <3>. QED
      BY <2>2, <3>3, <3>4
  <2>3. CASE UNCHANGED vars
    BY <2>2, <2>3 DEF vars
  <2>4. CASE \/ Expire \/ RedisEvict \/ Delete \/ MemoryList \/ SqliteList \/ PostgresList
              \/ RedisScan \/ RedisPrune
    <3>1. wk' = wk /\ row'.msgs \in {row.msgs, <<>>}
      BY <2>4 DEF Expire, RedisEvict, Delete, MemoryList, SqliteList, PostgresList, Prune, RedisScan,
                  RedisPrune, Write, NoRow, SessionInv, SessionShape, Row
    <3>. QED
      BY <2>2, <3>1
  <2>. QED
    BY <2>1, <2>3, <2>4 DEF Next
<1>3. SessionInv /\ TurnInv => SessionTurns
  <2>. SUFFICES ASSUME SessionInv, TurnInv PROVE SessionTurns
    OBVIOUS
  <2>1. TypeOK
    BY DEF SessionInv, SessionShape, TypeOK, Row
  <2>2. AckedTurnsKept
    BY DEF SessionInv, RowSound
  <2>3. OncePerRun
    <3>. SUFFICES ASSUME NEW x \in Workers
                  PROVE  Times(x, row.msgs) <= IF x \in Invocations \cup Events THEN wk[x].runs ELSE 1
      BY DEF OncePerRun, Times
    <3>1. wk[x].runs \in Nat /\ row.msgs \in Seq(Workers)
      BY DEF SessionInv, SessionShape, Local, Row
    <3>2. Times(x, row.msgs) \in Nat
      BY <3>1, TimesAppend
    <3>3. Times(x, row.msgs) <= Bound(x)
      BY DEF TurnInv, Counted
    <3>. QED
      BY <3>1, <3>2, <3>3 DEF Bound
  <2>. QED
    BY <2>1, <2>2, <2>3 DEF SessionTurns
<1>. QED
  BY <1>1, <1>2, <1>3, SessionInvariant, PTL DEF Spec

-----------------------------------------------------------------------------
(* Memory providers: the types, and what a storer's version check established. *)

EntryType == [ver : Nat, at : Nat, first : Nat, old : BOOLEAN]
StorerType == [pc : {"idle", "watch", "purge", "sweep", "card", "unlink", "exec", "trim",
                     "stored", "conflict"},
               key : Keys, ver : Nat, seen : Nat, tries : 0..3, stale : SUBSET Keys]

\* A storer in state x: each place belongs to a provider, one popped member is
\* unlinked at a time, and a write that is still allowed states the right version.
StorerSound(x) ==
    /\ x.pc \in {"purge", "sweep", "card", "unlink"} => mbackend = "redis"
    /\ x.pc = "trim" => mbackend = "postgres"
    /\ x.pc = "exec" => mbackend # "memory"
    /\ x.pc = "unlink" => \E v \in Keys : x.stale = {v}
    /\ mbackend = "redis" => x.seen <= clock
    /\ x.pc = "exec" /\ mbackend = "redis" /\ changed[x.key] = x.seen => x.ver \in {0, entry[x.key].ver}
    /\ x.pc = "exec" /\ mbackend = "postgres" => x.ver \in {0, x.seen}

MemInv ==
    /\ MemTypeOK
    /\ \A k \in Keys : changed[k] <= clock
    /\ sweep # NoSweep => mbackend = "redis"
    /\ \A s \in Storers : StorerSound(st[s])

\* The types once more, with the records named.
LEMMA MemTypes ==
    ASSUME MemoryAssumption, MemInv
    PROVE  /\ entry \in [Keys -> EntryType] /\ st \in [Storers -> StorerType]
           /\ clock \in Nat /\ MaxStores \in Nat /\ score \in [Keys -> Nat] /\ changed \in [Keys -> Nat]
           /\ MaxEntries \in Nat /\ MaxEntries > 0 /\ IsFiniteSet(Storers)
  BY DEF MemoryAssumption, MemInv, MemTypeOK, EntryType, StorerType

\* What a step may do to the entries: a changed version is stamped with a new time.
EntriesMove ==
    /\ entry' \in [Keys -> EntryType] /\ changed' \in [Keys -> Nat] /\ clock' \in 0..MaxStores
    /\ clock' \in {clock, clock + 1}
    /\ \A k \in Keys : \/ changed'[k] = changed[k] /\ entry'[k].ver = entry[k].ver
                       \/ changed'[k] = clock + 1 /\ clock' = clock + 1

\* What every step keeps of the other variables.
MemFrame ==
    /\ mbackend' = mbackend /\ score' \in [Keys -> Nat] /\ lost' \subseteq Keys
    /\ sweep' \in [dels : SUBSET Keys, zrems : SUBSET Keys]
    /\ sweep' # NoSweep => mbackend = "redis"

\* A storer that does not move stays sound.
LEMMA StorersSound ==
    ASSUME MemoryAssumption, MemInv, EntriesMove, mbackend' = mbackend,
           NEW x \in StorerType, StorerSound(x)
    PROVE  StorerSound(x)'
<1>1. /\ clock \in Nat /\ x.seen \in Nat /\ x.key \in Keys /\ changed[x.key] \in Nat
      /\ changed[x.key] <= clock
  BY DEF MemoryAssumption, MemInv, MemTypeOK, StorerType
<1>2. clock' \in {clock, clock + 1}
  BY DEF EntriesMove
<1>3. mbackend = "redis" /\ changed'[x.key] = x.seen
        => changed[x.key] = x.seen /\ entry'[x.key].ver = entry[x.key].ver
  BY <1>1 DEF EntriesMove, StorerSound
<1>4. mbackend = "redis" => x.seen <= clock'
  BY <1>1, <1>2 DEF StorerSound
<1>. QED
  BY <1>3, <1>4 DEF StorerSound

\* The step of one storer.
LEMMA StorerMoves ==
    ASSUME MemoryAssumption, MemInv, EntriesMove, MemFrame, NEW s \in Storers, NEW x \in StorerType,
           st' = [st EXCEPT ![s] = x], StorerSound(x)'
    PROVE  MemInv'
<1>1. /\ st \in [Storers -> StorerType] /\ clock \in Nat /\ \A t \in Storers : StorerSound(st[t])
      /\ changed \in [Keys -> Nat] /\ \A k \in Keys : changed[k] <= clock
  BY MemTypes DEF MemInv
<1>2. st' \in [Storers -> StorerType] /\ st'[s] = x /\ \A t \in Storers \ {s} : st'[t] = st[t]
  BY <1>1
<1>3. MemTypeOK'
  BY <1>2 DEF MemInv, MemTypeOK, EntriesMove, MemFrame, EntryType, StorerType
<1>4. \A k \in Keys : changed'[k] <= clock'
  BY <1>1 DEF EntriesMove
<1>5. ASSUME NEW t \in Storers PROVE StorerSound(st[t])'
  <2>1. CASE t = s
    BY <1>2, <2>1 DEF StorerSound
  <2>2. CASE t # s
    <3>1. PICK y \in StorerType : y = st[t] /\ StorerSound(y)
      BY <1>1
    <3>2. StorerSound(y)'
      BY <3>1, StorersSound DEF MemFrame
    <3>. QED
      BY <1>2, <2>2, <3>1, <3>2 DEF StorerSound
  <2>. QED
    BY <2>1, <2>2
<1>. QED
  BY <1>3, <1>4, <1>5 DEF MemInv, MemFrame

\* A step of no storer.
LEMMA NoStorerMoves ==
    ASSUME MemoryAssumption, MemInv, EntriesMove, MemFrame, st' = st
    PROVE  MemInv'
<1>1. /\ st \in [Storers -> StorerType] /\ clock \in Nat /\ \A t \in Storers : StorerSound(st[t])
      /\ changed \in [Keys -> Nat] /\ \A k \in Keys : changed[k] <= clock
  BY MemTypes DEF MemInv
<1>3. MemTypeOK'
  BY DEF MemInv, MemTypeOK, EntriesMove, MemFrame, EntryType
<1>4. \A k \in Keys : changed'[k] <= clock'
  BY <1>1 DEF EntriesMove
<1>5. ASSUME NEW t \in Storers PROVE StorerSound(st[t])'
  <2>1. PICK y \in StorerType : y = st[t] /\ StorerSound(y)
    BY <1>1
  <2>2. StorerSound(y)'
    BY <2>1, StorersSound DEF MemFrame
  <2>. QED
    BY <2>1, <2>2 DEF StorerSound
<1>. QED
  BY <1>3, <1>4, <1>5 DEF MemInv, MemFrame

\* The writes.
LEMMA Writes ==
    ASSUME MemoryAssumption, MemInv
    PROVE  /\ NoWrite => EntriesMove
           /\ \A K \in SUBSET Keys : \A f \in [Keys -> EntryType] : Put(K, f) => EntriesMove
           /\ \A K \in SUBSET Keys : Drop(K) => EntriesMove
<1>1. /\ entry \in [Keys -> EntryType] /\ clock \in 0..MaxStores /\ MaxStores \in Nat
      /\ changed \in [Keys -> Nat] /\ clock \in Nat
  BY MemTypes DEF MemInv, MemTypeOK
<1>2. NoWrite => EntriesMove
  BY <1>1 DEF NoWrite, EntriesMove
<1>3. ASSUME NEW K \in SUBSET Keys, NEW f \in [Keys -> EntryType], Put(K, f)
      PROVE  EntriesMove
  <2>1. /\ clock < MaxStores /\ clock' = clock + 1
        /\ entry' = [k \in Keys |-> IF k \in K THEN f[k] ELSE entry[k]]
        /\ changed' = [k \in Keys |-> IF k \in K THEN clock + 1 ELSE changed[k]]
    BY <1>3 DEF Put
  <2>2. clock' \in 0..MaxStores /\ clock + 1 \in Nat
    BY <1>1, <2>1
  <2>3. entry' \in [Keys -> EntryType] /\ changed' \in [Keys -> Nat]
    BY <1>1, <2>1, <2>2
  <2>4. \A k \in Keys : \/ changed'[k] = changed[k] /\ entry'[k].ver = entry[k].ver
                        \/ changed'[k] = clock + 1 /\ clock' = clock + 1
    BY <2>1
  <2>. QED
    BY <2>1, <2>2, <2>3, <2>4 DEF EntriesMove
<1>4. Gone \in [Keys -> EntryType]
  BY DEF Gone, NoEntry, EntryType
<1>. QED
  BY <1>2, <1>3, <1>4 DEF Drop

\* The initial states.
LEMMA MemStart ==
    ASSUME MemoryAssumption, MemInit
    PROVE  MemInv
<1>1. NoEntry \in EntryType /\ 0 \in 0..3
  BY DEF NoEntry, EntryType
<1>2. PICK k \in Keys : st = [s \in Storers |-> [pc |-> "idle", key |-> k, ver |-> 0, seen |-> 0,
                                                 tries |-> 0, stale |-> {}]]
  BY DEF MemInit
<1>3. [pc |-> "idle", key |-> k, ver |-> 0, seen |-> 0, tries |-> 0, stale |-> {}] \in StorerType
  BY <1>1 DEF StorerType
<1>4. st \in [Storers -> StorerType] /\ \A s \in Storers : st[s].pc = "idle" /\ st[s].seen = 0
  BY <1>2, <1>3
<1>5. MemTypeOK
  BY <1>1, <1>4 DEF MemInit, MemoryAssumption, MemTypeOK, EntryType, StorerType, NoSweep
<1>. QED
  BY <1>4, <1>5 DEF MemInit, MemInv, StorerSound

\* A storer goes on, keeping its key, version and what it saw.
LEMMA StorerGoes ==
    ASSUME MemoryAssumption, MemInv, EntriesMove, MemFrame, NEW s \in Storers,
           NEW p \in {"watch", "sweep", "card", "unlink", "exec", "trim", "stored", "conflict"},
           NEW K \in SUBSET Keys,
           st' = [st EXCEPT ![s] = [st[s] EXCEPT !.pc = p, !.stale = K]],
           p \in {"sweep", "card", "unlink"} => mbackend = "redis", p = "trim" => mbackend = "postgres",
           p = "unlink" => \E v \in Keys : K = {v},
           p = "exec" => mbackend = "redis" /\ st[s].ver = 0
    PROVE  MemInv'
<1>1. PICK y \in StorerType : y = st[s] /\ StorerSound(y)
  BY MemTypes DEF MemInv
<1>. DEFINE x == [y EXCEPT !.pc = p, !.stale = K]
<1>2. x \in StorerType
  BY DEF StorerType
<1>3. x.pc = p /\ x.key = y.key /\ x.ver = y.ver /\ x.seen = y.seen /\ x.stale = K
  BY DEF StorerType
<1>4. st' = [st EXCEPT ![s] = x]
  BY <1>1
<1>. HIDE DEF x
<1>5. StorerSound(y)'
  BY <1>1, StorersSound DEF MemFrame
<1>6. StorerSound(x)'
  BY <1>1, <1>3, <1>5 DEF StorerSound, MemFrame
<1>. QED
  BY <1>2, <1>4, <1>6, StorerMoves

\* The short form of it: the provider's own set of keys stays.
LEMMA StorerGoto ==
    ASSUME MemoryAssumption, MemInv, EntriesMove, MemFrame, NEW s \in Storers,
           NEW p \in {"watch", "card", "exec", "trim", "stored", "conflict"}, SGoto(s, p),
           p = "card" => mbackend = "redis", p = "trim" => mbackend = "postgres",
           p = "exec" => mbackend = "redis" /\ st[s].ver = 0
    PROVE  MemInv'
<1>1. st \in [Storers -> StorerType] /\ st[s] \in StorerType
  BY MemTypes
<1>2. PICK K \in SUBSET Keys : K = st[s].stale
  BY <1>1 DEF StorerType
<1>3. st' = [st EXCEPT ![s] = [st[s] EXCEPT !.pc = p, !.stale = K]]
  BY <1>1, <1>2 DEF SGoto, StorerType
<1>. QED
  BY <1>3, StorerGoes

\* The entry a store leaves, and the function it is put with.
LEMMA Stores ==
    ASSUME MemoryAssumption, MemInv, NEW k \in Keys, NEW v \in Nat
    PROVE  /\ [Gone EXCEPT ![k] = Successor(k, v)] \in [Keys -> EntryType]
           /\ [Gone EXCEPT ![k] = Successor(k, v)][k] = Successor(k, v)
           /\ \A j \in Keys \ {k} : [Gone EXCEPT ![k] = Successor(k, v)][j] = NoEntry
           /\ Successor(k, v).ver = v + 1 /\ ~Successor(k, v).old
<1>1. clock \in Nat /\ entry[k] \in EntryType /\ entry[k].first \in Nat
  BY MemTypes DEF EntryType
<1>2. Successor(k, v) \in EntryType
  <2>1. (IF v > 0 THEN entry[k].first ELSE clock + 1) \in Nat
    BY <1>1
  <2>. QED
    BY <1>1, <2>1 DEF Successor, EntryType
<1>3. Gone \in [Keys -> EntryType] /\ \A j \in Keys : Gone[j] = NoEntry
  BY DEF Gone, NoEntry, EntryType
<1>4. Successor(k, v).ver = v + 1 /\ ~Successor(k, v).old
  BY DEF Successor
<1>. HIDE DEF Successor
<1>. QED
  BY <1>2, <1>3, <1>4

\* A set of keys that is not empty has one with the smallest number.
LEMMA Smallest ==
    ASSUME NEW S, NEW f \in [S -> Nat], NEW M \in SUBSET S, M # {}
    PROVE  \E x \in M : \A y \in M : f[x] <= f[y]
<1>. DEFINE R == OpToRel(<, Nat)
            T == {f[x] : x \in M}
<1>1. IsWellFoundedOn(R, Nat)
  BY NatLessThanWellFounded
<1>2. \A a, b \in Nat : <<a, b>> \in R <=> a < b
  BY DEF OpToRel
<1>3. T \subseteq Nat /\ T # {}
  OBVIOUS
<1>. HIDE DEF R, T
<1>4. PICK a \in T : \A b \in T : ~(<<b, a>> \in R)
  BY <1>1, <1>3, WFMin
<1>5. PICK x \in M : a = f[x]
  BY DEF T
<1>6. ASSUME NEW y \in M PROVE f[x] <= f[y]
  <2>1. f[y] \in T /\ f[y] \in Nat /\ f[x] \in Nat
    BY DEF T
  <2>2. ~(f[y] < f[x])
    BY <1>2, <1>4, <1>5, <2>1
  <2>. QED
    BY <2>1, <2>2
<1>. QED
  BY <1>5, <1>6

\* ZPOPMIN takes a member of an index that is not empty.
LEMMA Popped ==
    ASSUME MemoryAssumption, MemInv, Cardinality(Members) >= MaxEntries
    PROVE  (CHOOSE k \in Members : \A j \in Members : score[k] <= score[j]) \in Members
<1>1. score \in [Keys -> Nat] /\ MaxEntries \in Nat /\ MaxEntries > 0 /\ Members \in SUBSET Keys
  BY MemTypes DEF Members
<1>2. Members # {}
  BY <1>1, FS_EmptySet
<1>3. \E k \in Members : \A j \in Members : score[k] <= score[j]
  BY <1>1, <1>2, Smallest
<1>. QED
  BY <1>3

\* The steps of the storers.
LEMMA StoreSteps ==
    ASSUME MemoryAssumption, MemInv, NEW s \in Storers,
           \/ \E k \in Keys : MemBegin(s, k)
           \/ InMemoryStore(s) \/ RedisRead(s) \/ RedisPurge(s) \/ RedisSweep(s) \/ RedisCard(s)
           \/ RedisUnlink(s) \/ RedisStore(s) \/ PgRead(s) \/ PgStore(s) \/ PgTrim(s)
    PROVE  MemInv'
<1>0. /\ entry \in [Keys -> EntryType] /\ st \in [Storers -> StorerType] /\ st[s] \in StorerType
      /\ clock \in Nat /\ score \in [Keys -> Nat] /\ changed \in [Keys -> Nat]
      /\ StorerSound(st[s]) /\ \A k \in Keys : changed[k] <= clock /\ changed[k] \in Nat
  BY MemTypes DEF MemInv
<1>1. st[s].key \in Keys /\ entry[st[s].key].ver \in Nat
  BY <1>0 DEF StorerType, EntryType
<1>2. score' \in [Keys -> Nat] /\ UNCHANGED <<mbackend, lost, sweep>> => MemFrame
  BY DEF MemInv, MemTypeOK, MemFrame
<1>3. NoWrite => EntriesMove
  BY Writes
<1>4. ASSUME NEW k \in Keys, MemBegin(s, k) PROVE MemInv'
  <2>1. PICK v \in {0, Visible(k)} :
          st' = [st EXCEPT ![s].pc = "watch", ![s].key = k, ![s].ver = v, ![s].tries = 0]
    BY <1>4 DEF MemBegin
  <2>2. v \in Nat /\ 0 \in 0..3
    BY <1>0 DEF Visible, EntryType
  <2>3. PICK y \in StorerType : y = st[s] /\ StorerSound(y)
    BY <1>0
  <2>. DEFINE x == [y EXCEPT !.pc = "watch", !.key = k, !.ver = v, !.tries = 0]
  <2>4. x \in StorerType
    BY <2>2 DEF StorerType
  <2>5. x.pc = "watch" /\ x.seen = y.seen
    BY DEF StorerType
  <2>6. st' = [st EXCEPT ![s] = x]
    BY <1>0, <2>1, <2>3 DEF StorerType
  <2>7. EntriesMove /\ MemFrame
    BY <1>0, <1>2, <1>3, <1>4 DEF MemBegin
  <2>. HIDE DEF x
  <2>8. StorerSound(y)'
    BY <2>3, <2>7, StorersSound DEF MemFrame
  <2>9. StorerSound(x)'
    BY <2>5, <2>8 DEF StorerSound
  <2>. QED
    BY <2>4, <2>6, <2>7, <2>9, StorerMoves
<1>5. CASE InMemoryStore(s)
  <2>. DEFINE k == st[s].key
              old == {j \in Keys : entry[j].old}
              live == {j \in Keys : Live(j)} \ old
              excess == IF k \in live THEN 0 ELSE Cardinality(live) + 1 - MaxEntries
              evicted == {j \in live : Cardinality({i \in live : entry[i].first < entry[j].first}) < excess}
              f == [Gone EXCEPT ![k] = Successor(k, Visible(k))]
  <2>1. /\ \/ Put(old \cup evicted \cup {k}, f) /\ SGoto(s, "stored")
           \/ Drop(old) /\ SGoto(s, "conflict")
        /\ UNCHANGED <<mbackend, lost, score, sweep>>
    BY <1>5 DEF InMemoryStore
  <2>2. old \cup evicted \cup {k} \in SUBSET Keys /\ old \in SUBSET Keys
    BY <1>1
  <2>3. f \in [Keys -> EntryType]
    <3>1. Visible(k) \in Nat
      BY <1>0, <1>1 DEF Visible, EntryType
    <3>. QED
      BY <1>1, <3>1, Stores
  <2>. HIDE DEF k, old, evicted, f
  <2>4. EntriesMove /\ MemFrame
    BY <1>0, <1>2, <2>1, <2>2, <2>3, Writes
  <2>. QED
    BY <2>1, <2>4, StorerGoto
<1>6. CASE RedisRead(s)
  <2>0. EntriesMove /\ MemFrame /\ mbackend = "redis"
    BY <1>0, <1>2, <1>3, <1>6 DEF RedisRead
  <2>. DEFINE k == st[s].key
  <2>1. CASE st[s].tries = 3 \/ (Live(k) /\ ~Agrees(s, entry[k].ver))
    BY <1>6, <2>0, <2>1, StorerGoto DEF RedisRead
  <2>2. CASE ~(st[s].tries = 3 \/ (Live(k) /\ ~Agrees(s, entry[k].ver)))
    <3>1. PICK p \in {"exec", "purge"} :
            /\ st' = [st EXCEPT ![s].pc = p, ![s].seen = changed[k], ![s].tries = st[s].tries + 1]
            /\ p = "exec" => Live(k)
      BY <1>6, <2>2 DEF RedisRead
    <3>2. PICK y \in StorerType : y = st[s] /\ StorerSound(y)
      BY <1>0
    <3>3. PICK n \in Nat : n = changed[k]
      BY <1>0, <1>1
    <3>4. y.tries + 1 \in 0..3
      BY <2>2, <3>2 DEF StorerType
    <3>. DEFINE x == [y EXCEPT !.pc = p, !.seen = n, !.tries = y.tries + 1]
    <3>5. x \in StorerType
      BY <3>4 DEF StorerType
    <3>6. x.pc = p /\ x.seen = n /\ x.key = y.key /\ x.ver = y.ver
      BY DEF StorerType
    <3>7. st' = [st EXCEPT ![s] = x]
      BY <1>0, <3>1, <3>2, <3>3 DEF StorerType
    <3>. HIDE DEF x
    <3>8. p = "exec" => y.ver \in {0, entry[k].ver}
      BY <2>2, <3>1, <3>2 DEF Agrees
    <3>9. n <= clock /\ UNCHANGED <<entry, changed, clock, mbackend>>
      BY <1>0, <1>1, <1>6, <3>3 DEF RedisRead, NoWrite
    <3>10. StorerSound(x)'
      BY <2>0, <3>2, <3>6, <3>8, <3>9 DEF StorerSound
    <3>. QED
      BY <2>0, <3>5, <3>7, <3>10, StorerMoves
  <2>. QED
    BY <2>1, <2>2
<1>7. CASE RedisPurge(s)
  <2>1. EntriesMove /\ MemFrame /\ mbackend = "redis"
    BY <1>0, <1>2, <1>3, <1>7 DEF RedisPurge, SAt, StorerSound
  <2>2. PICK K \in SUBSET Keys : K = Stale
    BY DEF Stale, Members
  <2>3. PICK p \in {"card", "sweep"} : st' = [st EXCEPT ![s].pc = p, ![s].stale = Stale]
    BY <1>7 DEF RedisPurge
  <2>4. st' = [st EXCEPT ![s] = [st[s] EXCEPT !.pc = p, !.stale = K]]
    BY <1>0, <2>2, <2>3 DEF StorerType
  <2>. QED
    BY <2>1, <2>4, StorerGoes
<1>8. CASE RedisSweep(s) \/ RedisUnlink(s)
  <2>1. st[s].stale \in SUBSET Keys /\ mbackend = "redis"
    BY <1>0, <1>8 DEF StorerType, RedisSweep, RedisUnlink, SAt, StorerSound
  <2>2. Drop(st[s].stale) /\ UNCHANGED <<mbackend, lost, sweep>> /\ score' \in [Keys -> Nat]
    BY <1>0, <1>8 DEF RedisSweep, RedisUnlink
  <2>3. EntriesMove /\ MemFrame
    BY <1>2, <2>1, <2>2, Writes
  <2>4. st' = [st EXCEPT ![s].pc = "card", ![s].stale = {}]
    BY <1>8 DEF RedisSweep, RedisUnlink
  <2>5. st' = [st EXCEPT ![s] = [st[s] EXCEPT !.pc = "card", !.stale = {}]]
    BY <1>0, <2>4 DEF StorerType
  <2>6. {} \in SUBSET Keys
    OBVIOUS
  <2>. QED
    BY <2>1, <2>3, <2>5, <2>6, StorerGoes
<1>9. CASE RedisCard(s)
  <2>1. EntriesMove /\ mbackend = "redis"
    BY <1>0, <1>3, <1>9 DEF RedisCard, SAt, StorerSound
  <2>. DEFINE v == CHOOSE k \in Members : \A j \in Members : score[k] <= score[j]
  <2>2. CASE Cardinality(Members) >= MaxEntries
    <3>1. PICK u \in Keys : u = v
      BY <2>2, Popped DEF Members
    <3>2. score' = [score EXCEPT ![u] = 0] /\ UNCHANGED <<mbackend, lost, sweep>>
      BY <1>9, <2>2, <3>1 DEF RedisCard
    <3>3. MemFrame
      BY <1>0, <1>2, <3>2
    <3>4. st' = [st EXCEPT ![s].pc = "unlink", ![s].stale = {u}]
      BY <1>9, <2>2, <3>1 DEF RedisCard
    <3>5. st' = [st EXCEPT ![s] = [st[s] EXCEPT !.pc = "unlink", !.stale = {u}]]
      BY <1>0, <3>4 DEF StorerType
    <3>6. {u} \in SUBSET Keys
      OBVIOUS
    <3>. QED
      BY <2>1, <3>3, <3>5, <3>6, StorerGoes
  <2>3. CASE ~(Cardinality(Members) >= MaxEntries)
    <3>1. /\ SGoto(s, IF st[s].ver = 0 THEN "exec" ELSE "conflict")
          /\ UNCHANGED <<score, mbackend, sweep>> /\ lost' \subseteq lost
      BY <1>9, <2>3 DEF RedisCard
    <3>2. MemFrame
      BY <1>0, <3>1, MemTypes DEF MemInv, MemTypeOK, MemFrame
    <3>. QED
      BY <2>1, <3>1, <3>2, StorerGoto
  <2>. QED
    BY <2>2, <2>3
<1>10. CASE RedisStore(s)
  <2>. DEFINE k == st[s].key
              f == [Gone EXCEPT ![k] = Successor(k, entry[k].ver)]
  <2>1. UNCHANGED <<mbackend, lost, sweep>>
    BY <1>10 DEF RedisStore
  <2>2. CASE changed[k] = st[s].seen
    <3>1. Put({k}, f) /\ score' = [score EXCEPT ![k] = clock + 1] /\ SGoto(s, "stored")
      BY <1>10, <2>2 DEF RedisStore
    <3>2. f \in [Keys -> EntryType] /\ {k} \in SUBSET Keys /\ score' \in [Keys -> Nat]
      BY <1>0, <1>1, <3>1, Stores
    <3>. HIDE DEF k, f
    <3>3. EntriesMove /\ MemFrame
      BY <1>2, <2>1, <3>1, <3>2, Writes
    <3>. QED
      BY <3>1, <3>3, StorerGoto
  <2>3. CASE changed[k] # st[s].seen
    <3>1. NoWrite /\ UNCHANGED score /\ SGoto(s, "watch")
      BY <1>10, <2>3 DEF RedisStore
    <3>. QED
      BY <1>0, <1>2, <1>3, <2>1, <3>1, StorerGoto
  <2>. QED
    BY <2>2, <2>3
<1>11. CASE PgRead(s)
  <2>1. EntriesMove /\ MemFrame /\ mbackend = "postgres"
    BY <1>0, <1>2, <1>3, <1>11 DEF PgRead
  <2>2. PICK p \in {"exec", "conflict"}, n \in Nat :
          /\ st' = [st EXCEPT ![s].pc = p, ![s].seen = n]
          /\ p = "exec" => st[s].ver \in {0, n}
    BY <1>1, <1>11 DEF PgRead, Agrees
  <2>3. PICK y \in StorerType : y = st[s] /\ StorerSound(y)
    BY <1>0
  <2>. DEFINE x == [y EXCEPT !.pc = p, !.seen = n]
  <2>4. x \in StorerType
    BY DEF StorerType
  <2>5. x.pc = p /\ x.seen = n /\ x.ver = y.ver
    BY DEF StorerType
  <2>6. st' = [st EXCEPT ![s] = x]
    BY <1>0, <2>2, <2>3 DEF StorerType
  <2>. HIDE DEF x
  <2>7. StorerSound(x)'
    BY <2>1, <2>2, <2>3, <2>5 DEF StorerSound, MemFrame
  <2>. QED
    BY <2>1, <2>4, <2>6, <2>7, StorerMoves
<1>12. CASE PgStore(s)
  <2>. DEFINE k == st[s].key
              f == [Gone EXCEPT ![k] = Successor(k, entry[k].ver)]
  <2>1. /\ UNCHANGED <<mbackend, lost, score, sweep>> /\ mbackend = "postgres"
        /\ \/ Put({k}, f) /\ SGoto(s, "trim")
           \/ NoWrite /\ SGoto(s, "conflict")
    BY <1>12 DEF PgStore
  <2>2. f \in [Keys -> EntryType] /\ {k} \in SUBSET Keys
    BY <1>1, Stores
  <2>. HIDE DEF k, f
  <2>3. EntriesMove /\ MemFrame
    BY <1>0, <1>2, <1>3, <2>1, <2>2, Writes
  <2>. QED
    BY <2>1, <2>3, StorerGoto
<1>13. CASE PgTrim(s)
  <2>1. PICK K \in SUBSET Keys : Drop(K)
    <3>. DEFINE rows == {k \in Keys : Live(k)}
                K == {k \in rows : Cardinality({j \in rows : entry[j].at > entry[k].at}) >= MaxEntries}
    <3>1. Drop(K) /\ K \in SUBSET Keys
      BY <1>13 DEF PgTrim
    <3>. HIDE DEF K
    <3>. QED
      BY <3>1
  <2>2. EntriesMove /\ MemFrame /\ SGoto(s, "stored")
    BY <1>0, <1>2, <1>13, <2>1, Writes DEF PgTrim
  <2>. QED
    BY <2>2, StorerGoto
<1>. QED
  BY <1>4, <1>5, <1>6, <1>7, <1>8, <1>9, <1>10, <1>11, <1>12, <1>13

\* The steps of readers, of delete() and of time.
LEMMA OtherSteps ==
    ASSUME MemoryAssumption, MemInv,
           \/ \E k \in Keys : RedisMiss(k) \/ MemDelete(k) \/ MemExpire(k) \/ MemEvict(k)
           \/ RedisList \/ RedisClean \/ InMemoryPurge \/ PgPurge
    PROVE  MemInv'
<1>0. /\ entry \in [Keys -> EntryType] /\ clock \in 0..MaxStores /\ clock \in Nat
      /\ score \in [Keys -> Nat] /\ changed \in [Keys -> Nat] /\ lost \subseteq Keys
      /\ sweep \in [dels : SUBSET Keys, zrems : SUBSET Keys]
  BY MemTypes DEF MemInv, MemTypeOK
<1>1. NoWrite => EntriesMove
  BY Writes
<1>2. UNCHANGED <<mbackend, lost, sweep>> /\ score' \in [Keys -> Nat] => MemFrame
  BY DEF MemInv, MemTypeOK, MemFrame
<1>3. ASSUME NEW k \in Keys, RedisMiss(k) PROVE MemInv'
  <2>1. sweep' \in [dels : SUBSET Keys, zrems : SUBSET Keys]
    BY <1>3 DEF RedisMiss, NoSweep
  <2>. QED
    BY <1>0, <1>1, <1>3, <2>1, NoStorerMoves DEF RedisMiss, MemFrame
<1>4. CASE RedisList
  <2>1. sweep' \in [dels : SUBSET Keys, zrems : SUBSET Keys]
    BY <1>4 DEF RedisList, NoSweep, Stale, Members
  <2>. QED
    BY <1>0, <1>1, <1>4, <2>1, NoStorerMoves DEF RedisList, MemFrame
<1>5. ASSUME NEW k \in Keys, MemDelete(k) PROVE MemInv'
  <2>1. EntriesMove
    BY <1>5, Writes DEF MemDelete
  <2>2. MemFrame
    BY <1>0, <1>2, <1>5 DEF MemDelete
  <2>. QED
    BY <1>5, <2>1, <2>2, NoStorerMoves DEF MemDelete
<1>6. ASSUME NEW k \in Keys, MemExpire(k) PROVE MemInv'
  <2>1. PICK e \in EntryType : e = entry[k]
    BY <1>0
  <2>. DEFINE g == [e EXCEPT !.old = TRUE]
  <2>2. g \in EntryType /\ g.ver = e.ver
    BY DEF EntryType
  <2>3. entry' = [entry EXCEPT ![k] = g]
    BY <1>0, <1>6, <2>1 DEF MemExpire, EntryType
  <2>. HIDE DEF g
  <2>4. entry' \in [Keys -> EntryType] /\ \A j \in Keys : entry'[j].ver = entry[j].ver
    BY <1>0, <2>1, <2>2, <2>3
  <2>5. EntriesMove
    BY <1>0, <1>6, <2>4 DEF MemExpire, EntriesMove
  <2>. QED
    BY <1>0, <1>2, <1>6, <2>5, NoStorerMoves DEF MemExpire
<1>7. ASSUME NEW k \in Keys, MemEvict(k) PROVE MemInv'
  BY <1>0, <1>2, <1>7, Writes, NoStorerMoves DEF MemEvict
<1>8. CASE InMemoryPurge \/ PgPurge
  <2>1. Drop({k \in Keys : entry[k].old}) /\ UNCHANGED <<mbackend, lost, score, st, sweep>>
    BY <1>8 DEF InMemoryPurge, PgPurge, PurgeOld
  <2>2. EntriesMove
    BY <2>1, Writes
  <2>. QED
    BY <1>0, <1>2, <2>1, <2>2, NoStorerMoves
<1>9. CASE RedisClean
  <2>1. sweep.dels \in SUBSET Keys /\ sweep.zrems \in SUBSET Keys
    BY <1>0
  <2>2. EntriesMove
    BY <1>1, <1>9, <2>1, Writes DEF RedisClean
  <2>3. sweep' = NoSweep /\ NoSweep \in [dels : SUBSET Keys, zrems : SUBSET Keys]
    BY <1>9 DEF RedisClean, NoSweep
  <2>4. lost' \subseteq Keys /\ score' \in [Keys -> Nat] /\ mbackend' = mbackend /\ st' = st
    BY <1>0, <1>9, <2>1 DEF RedisClean
  <2>5. MemFrame
    BY <2>3, <2>4 DEF MemFrame
  <2>. QED
    BY <2>2, <2>4, <2>5, NoStorerMoves
<1>. QED
  BY <1>3, <1>4, <1>5, <1>6, <1>7, <1>8, <1>9

\* The types of the memory providers' state, and the soundness of their storers.
THEOREM MemoryInvariant == MemSpec => []MemInv
<1>. USE MemoryAssumption
<1>1. MemInit => MemInv
  BY MemStart
<1>2. MemInv /\ [MemNext]_mvars => MemInv'
  <2>. SUFFICES ASSUME MemInv, [MemNext]_mvars PROVE MemInv'
    OBVIOUS
  <2>1. CASE UNCHANGED mvars
    <3>1. NoWrite /\ UNCHANGED <<mbackend, lost, score, sweep, st>>
      BY <2>1 DEF mvars, NoWrite
    <3>2. EntriesMove /\ MemFrame
      BY <3>1, Writes, MemTypes DEF MemFrame, MemInv, MemTypeOK
    <3>. QED
      BY <3>1, <3>2, NoStorerMoves
  <2>. QED
    BY <2>1, StoreSteps, OtherSteps DEF MemNext
<1>. QED
  BY <1>1, <1>2, PTL DEF MemSpec

-----------------------------------------------------------------------------
(* Memory providers: every entry is a versioned document. *)

StorerHolds(x, k) ==
    IF x.key = k /\ x.pc \in {"watch", "purge", "sweep", "card", "unlink", "exec"} THEN {x.ver} ELSE {}
EntryHeld(k) == [s \in Storers |-> StorerHolds(st[s], k)]
Doc(k) == IF mbackend = "memory" /\ entry[k].old THEN 0 ELSE entry[k].ver

\* The steps of the abstract store that the providers take at one key.
EntryStep(k) ==
    \/ Doc(k)' \in {0, Doc(k)} /\ EntryHeld(k)' = EntryHeld(k)
    \/ \E s \in Storers : \E X \in {{Doc(k)}, {0}, {}} :
         Doc(k)' = Doc(k) /\ EntryHeld(k)' = [EntryHeld(k) EXCEPT ![s] = X]
    \/ \E s \in Storers : \E v \in {0, Doc(k)} :
         /\ EntryHeld(k)[s] = {v} /\ Doc(k)' = Doc(k) + 1
         /\ EntryHeld(k)' = [EntryHeld(k) EXCEPT ![s] = {}]

\* They are steps of VersionedStore.
LEMMA EntryStepAbstract ==
    ASSUME NEW k \in Keys, Doc(k) \in Nat, EntryStep(k)
    PROVE  EntryStore(k)!VNext \/ UNCHANGED EntryStore(k)!vvars
<1>1. EntryHeld(k) = [s \in Storers |-> IF st[s].key = k /\ Storing(s) THEN {st[s].ver} ELSE {}]
  BY DEF EntryHeld, StorerHolds, Storing
<1>2. EntryHeld(k)' = [s \in Storers |-> IF st[s].key = k /\ Storing(s) THEN {st[s].ver} ELSE {}]'
  BY DEF EntryHeld, StorerHolds, Storing
<1>3. CASE Doc(k)' \in {0, Doc(k)} /\ EntryHeld(k)' = EntryHeld(k)
  BY <1>1, <1>2, <1>3 DEF Doc, EntryStore!VNext, EntryStore!Remove, EntryStore!vvars
<1>4. ASSUME NEW s \in Storers, NEW X \in {{Doc(k)}, {0}, {}},
             Doc(k)' = Doc(k), EntryHeld(k)' = [EntryHeld(k) EXCEPT ![s] = X]
      PROVE  EntryStore(k)!VNext
  <2>1. EntryStore(k)!Take(s)
    BY <1>1, <1>2, <1>4 DEF Doc, EntryStore!Take
  <2>. QED
    BY <2>1 DEF EntryStore!VNext
<1>5. ASSUME NEW s \in Storers, NEW v \in {0, Doc(k)},
             EntryHeld(k)[s] = {v}, Doc(k)' = Doc(k) + 1, EntryHeld(k)' = [EntryHeld(k) EXCEPT ![s] = {}]
      PROVE  EntryStore(k)!VNext
  <2>1. CASE Doc(k) = 0
    <3>. HIDE DEF Doc, EntryHeld
    <3>0. v = 0 /\ Doc(k)' = 0 + 1
      BY <1>5, <2>1
    <3>2. 0 \in EntryHeld(k)[s] \cap {0, 1} /\ Doc(k)' = 1
      BY <1>5, <3>0
    <3>1. EntryStore(k)!Insert(s)
      BY <1>1, <1>2, <1>5, <2>1, <3>2 DEF Doc, EntryStore!Insert
    <3>. QED
      BY <3>1 DEF EntryStore!VNext
  <2>2. CASE Doc(k) # 0
    <3>1. EntryStore(k)!Commit(s)
      BY <1>1, <1>2, <1>5, <2>2 DEF Doc, EntryStore!Commit
    <3>. QED
      BY <3>1 DEF EntryStore!VNext
  <2>. QED
    BY <2>1, <2>2
<1>. QED
  BY <1>3, <1>4, <1>5 DEF EntryStep

\* A storer goes to another place and keeps its key and version.
Moves(s, p) ==
    /\ st'[s].pc = p /\ st'[s].key = st[s].key /\ st'[s].ver = st[s].ver
    /\ \A u \in Storers \ {s} : st'[u] = st[u]

\* What it then holds of a key.
LEMMA HeldGoes ==
    ASSUME NEW s \in Storers, NEW k \in Keys,
           NEW p \in {"watch", "purge", "sweep", "card", "unlink", "exec", "trim", "stored", "conflict"},
           Moves(s, p)
    PROVE  /\ k # st[s].key => EntryHeld(k)' = EntryHeld(k)
           /\ st[s].pc \in {"watch", "purge", "sweep", "card", "unlink", "exec"}
                /\ p \in {"watch", "purge", "sweep", "card", "unlink", "exec"} => EntryHeld(k)' = EntryHeld(k)
           /\ st[s].pc \notin {"watch", "purge", "sweep", "card", "unlink", "exec"}
                /\ p \in {"trim", "stored", "conflict"} => EntryHeld(k)' = EntryHeld(k)
           /\ p \in {"trim", "stored", "conflict"} => EntryHeld(k)' = [EntryHeld(k) EXCEPT ![s] = {}]
           /\ st[s].pc \in {"watch", "purge", "sweep", "card", "unlink", "exec"} /\ st[s].key = k
                => EntryHeld(k)[s] = {st[s].ver}
<1>. DEFINE x == StorerHolds(st'[s], k)
<1>1. EntryHeld(k)' = [u \in Storers |-> StorerHolds(st'[u], k)]
  BY DEF EntryHeld, StorerHolds
<1>2. /\ EntryHeld(k)' = [EntryHeld(k) EXCEPT ![s] = x]
      /\ EntryHeld(k)[s] = StorerHolds(st[s], k)
      /\ x = StorerHolds(st[s], k) => EntryHeld(k)' = EntryHeld(k)
  BY <1>1 DEF EntryHeld, Moves
<1>3. /\ k # st[s].key => x = {} /\ StorerHolds(st[s], k) = {}
      /\ k = st[s].key /\ p \in {"watch", "purge", "sweep", "card", "unlink", "exec"} => x = {st[s].ver}
      /\ p \in {"trim", "stored", "conflict"} => x = {}
      /\ k = st[s].key /\ st[s].pc \in {"watch", "purge", "sweep", "card", "unlink", "exec"}
           => StorerHolds(st[s], k) = {st[s].ver}
      /\ st[s].pc \notin {"watch", "purge", "sweep", "card", "unlink", "exec"} => StorerHolds(st[s], k) = {}
  BY DEF Moves, StorerHolds
<1>. HIDE DEF x
<1>. QED
  BY <1>2, <1>3

\* What the writes do to the document of a key.
LEMMA DocMoves ==
    ASSUME MemoryAssumption, MemInv, mbackend' = mbackend, NEW k \in Keys
    PROVE  /\ Doc(k) \in Nat
           /\ NoWrite => Doc(k)' = Doc(k)
           /\ \A K \in SUBSET Keys : Drop(K) => Doc(k)' \in {0, Doc(k)}
           /\ \A K \in SUBSET Keys : Drop(K) /\ k \notin K => Doc(k)' = Doc(k)
<1>1. entry \in [Keys -> EntryType] /\ entry[k].ver \in Nat
  BY MemTypes DEF EntryType
<1>2. Doc(k) \in Nat
  BY <1>1 DEF Doc
<1>3. NoWrite => Doc(k)' = Doc(k)
  BY DEF NoWrite, Doc
<1>4. ASSUME NEW K \in SUBSET Keys, Drop(K)
      PROVE  Doc(k)' \in {0, Doc(k)} /\ (k \notin K => Doc(k)' = Doc(k))
  <2>1. entry'[k] = IF k \in K THEN NoEntry ELSE entry[k]
    BY <1>4 DEF Drop, Put, Gone
  <2>. QED
    BY <2>1 DEF Doc, NoEntry
<1>. QED
  BY <1>2, <1>3, <1>4

\* A store puts the next version at its key; other keys are kept or dropped.
LEMMA StoreMoves ==
    ASSUME MemoryAssumption, MemInv, mbackend' = mbackend, NEW j \in Keys, NEW v \in Nat, NEW k \in Keys,
           NEW K \in SUBSET Keys, j \in K, Put(K, [Gone EXCEPT ![j] = Successor(j, v)])
    PROVE  IF k = j THEN Doc(k)' = v + 1 ELSE Doc(k)' \in {0, Doc(k)}
<1>. DEFINE f == [Gone EXCEPT ![j] = Successor(j, v)]
<1>1. f[j].ver = v + 1 /\ ~f[j].old /\ \A i \in Keys \ {j} : f[i] = NoEntry
  BY Stores
<1>2. entry'[k] = IF k \in K THEN f[k] ELSE entry[k]
  BY DEF Put
<1>. HIDE DEF f
<1>. QED
  BY <1>1, <1>2 DEF Doc, NoEntry

\* The steps of a storer at every key.
LEMMA StorerEntrySteps ==
    ASSUME MemoryAssumption, MemInv, NEW k \in Keys, NEW s \in Storers,
           \/ \E j \in Keys : MemBegin(s, j)
           \/ InMemoryStore(s) \/ RedisRead(s) \/ RedisPurge(s) \/ RedisSweep(s) \/ RedisCard(s)
           \/ RedisUnlink(s) \/ RedisStore(s) \/ PgRead(s) \/ PgStore(s) \/ PgTrim(s)
    PROVE  EntryStep(k)
<1>. DEFINE j == st[s].key
            Busy == {"watch", "purge", "sweep", "card", "unlink", "exec"}
<1>0. /\ entry \in [Keys -> EntryType] /\ st \in [Storers -> StorerType] /\ st[s] \in StorerType
      /\ StorerSound(st[s])
  BY MemTypes DEF MemInv
<1>1. /\ j \in Keys /\ entry[j].ver \in Nat /\ st[s].stale \in SUBSET Keys /\ st[s].seen \in Nat
      /\ st[s].tries \in 0..3 /\ changed[j] \in Nat
  BY <1>0, MemTypes DEF StorerType, EntryType
<1>2. mbackend' = mbackend
  BY DEF MemBegin, InMemoryStore, RedisRead, RedisPurge, RedisSweep, RedisCard, RedisUnlink, RedisStore,
         PgRead, PgStore, PgTrim
<1>3. Doc(k) \in Nat /\ (NoWrite => Doc(k)' = Doc(k))
  BY <1>2, DocMoves
<1>4. ASSUME NEW p \in {"watch", "trim", "stored", "conflict", "exec"}, SGoto(s, p)
      PROVE  Moves(s, p)
  BY <1>0, <1>4 DEF SGoto, StorerType, Moves
<1>5. ASSUME NEW p \in {"watch", "exec"}, SGoto(s, p), st[s].pc \in Busy PROVE EntryHeld(k)' = EntryHeld(k)
  <2>1. p \in {"watch", "purge", "sweep", "card", "unlink", "exec", "trim", "stored", "conflict"}
    OBVIOUS
  <2>2. Moves(s, p)
    BY <1>4, <1>5
  <2>. QED
    BY <1>5, <2>1, <2>2, HeldGoes
<1>6. ASSUME NEW p \in {"trim", "stored", "conflict"}, SGoto(s, p)
      PROVE  /\ EntryHeld(k)' = [EntryHeld(k) EXCEPT ![s] = {}]
             /\ k # j => EntryHeld(k)' = EntryHeld(k)
             /\ st[s].pc \notin Busy => EntryHeld(k)' = EntryHeld(k)
             /\ st[s].pc \in Busy /\ k = j => EntryHeld(k)[s] = {st[s].ver}
  <2>1. p \in {"watch", "purge", "sweep", "card", "unlink", "exec", "trim", "stored", "conflict"}
    OBVIOUS
  <2>2. Moves(s, p)
    BY <1>4, <1>6
  <2>. QED
    BY <2>1, <2>2, HeldGoes
<1>7. ASSUME SGoto(s, "conflict"), Doc(k)' = Doc(k) PROVE EntryStep(k)
  BY <1>6, <1>7 DEF EntryStep
<1>8. ASSUME NEW i \in Keys, MemBegin(s, i) PROVE EntryStep(k)
  <2>1. PICK v \in {0, Visible(i)} :
          st' = [st EXCEPT ![s].pc = "watch", ![s].key = i, ![s].ver = v, ![s].tries = 0]
    BY <1>8 DEF MemBegin
  <2>2. PICK y \in StorerType : y = st[s]
    BY <1>0
  <2>. DEFINE x == [y EXCEPT !.pc = "watch", !.key = i, !.ver = v, !.tries = 0]
  <2>3. x.pc = "watch" /\ x.key = i /\ x.ver = v
    BY DEF StorerType
  <2>4. st' = [st EXCEPT ![s] = x]
    BY <1>0, <2>1, <2>2 DEF StorerType
  <2>. HIDE DEF x
  <2>5. EntryHeld(k)' = [EntryHeld(k) EXCEPT ![s] = StorerHolds(x, k)] /\ EntryHeld(k)[s] = StorerHolds(y, k)
    BY <1>0, <2>2, <2>4 DEF EntryHeld
  <2>6. Doc(k)' = Doc(k) /\ y.pc \in {"idle", "stored", "conflict"}
    BY <1>3, <1>8, <2>2 DEF MemBegin
  <2>7. CASE i = k
    <3>1. v \in {0, Doc(k)}
      BY <2>7 DEF Visible, Doc
    <3>2. StorerHolds(x, k) \in {{Doc(k)}, {0}, {}}
      BY <2>3, <2>7, <3>1 DEF StorerHolds
    <3>. QED
      BY <2>5, <2>6, <3>2 DEF EntryStep
  <2>8. CASE i # k
    <3>1. StorerHolds(x, k) = {} /\ StorerHolds(y, k) = {}
      BY <2>3, <2>6, <2>8 DEF StorerHolds
    <3>. QED
      BY <2>5, <2>6, <3>1 DEF EntryStep
  <2>. QED
    BY <2>7, <2>8
<1>9. CASE InMemoryStore(s)
  <2>. DEFINE old == {i \in Keys : entry[i].old}
              live == {i \in Keys : Live(i)} \ old
              excess == IF j \in live THEN 0 ELSE Cardinality(live) + 1 - MaxEntries
              evicted == {h \in live : Cardinality({i \in live : entry[i].first < entry[h].first}) < excess}
              K == old \cup evicted \cup {j}
  <2>1. \/ /\ Agrees(s, Visible(j)) /\ SGoto(s, "stored")
           /\ Put(K, [Gone EXCEPT ![j] = Successor(j, Visible(j))])
        \/ ~Agrees(s, Visible(j)) /\ Drop(old) /\ SGoto(s, "conflict")
    BY <1>9 DEF InMemoryStore
  <2>2. K \in SUBSET Keys /\ old \in SUBSET Keys /\ j \in K
    BY <1>1
  <2>3. mbackend = "memory" /\ st[s].pc = "watch"
    BY <1>9 DEF InMemoryStore, SAt
  <2>4. Doc(j) = Visible(j) /\ Visible(j) \in Nat /\ (k \in old => Doc(k) = 0)
    BY <1>1, <2>3 DEF Doc, Visible
  <2>. HIDE DEF K, old
  <2>5. CASE Agrees(s, Visible(j)) /\ SGoto(s, "stored")
             /\ Put(K, [Gone EXCEPT ![j] = Successor(j, Visible(j))])
    <3>1. IF k = j THEN Doc(k)' = Visible(j) + 1 ELSE Doc(k)' \in {0, Doc(k)}
      BY <1>1, <1>2, <2>2, <2>4, <2>5, StoreMoves
    <3>2. CASE k = j
      <4>1. EntryHeld(k)[s] = {st[s].ver} /\ EntryHeld(k)' = [EntryHeld(k) EXCEPT ![s] = {}]
        BY <1>6, <2>3, <2>5, <3>2
      <4>2. st[s].ver \in {0, Doc(k)} /\ Doc(k)' = Doc(k) + 1
        BY <2>4, <2>5, <3>1, <3>2 DEF Agrees
      <4>. HIDE DEF j
      <4>. QED
        BY <4>1, <4>2 DEF EntryStep
    <3>3. CASE k # j
      BY <1>6, <2>5, <3>1, <3>3 DEF EntryStep
    <3>. QED
      BY <3>2, <3>3
  <2>6. CASE Drop(old) /\ SGoto(s, "conflict")
    BY <1>2, <1>7, <2>2, <2>4, <2>6, DocMoves
  <2>. QED
    BY <2>1, <2>5, <2>6
<1>10. CASE RedisRead(s)
  <2>1. Doc(k)' = Doc(k) /\ st[s].pc = "watch"
    BY <1>3, <1>10 DEF RedisRead, SAt
  <2>2. CASE SGoto(s, "conflict")
    BY <1>7, <2>1, <2>2
  <2>3. CASE ~SGoto(s, "conflict")
    <3>0. st[s].tries # 3 /\ \E p \in {"exec", "purge"} :
            st' = [st EXCEPT ![s].pc = p, ![s].seen = changed[j], ![s].tries = st[s].tries + 1]
      BY <1>10, <2>3 DEF RedisRead
    <3>1. PICK p \in {"exec", "purge"} :
            st' = [st EXCEPT ![s].pc = p, ![s].seen = changed[j], ![s].tries = st[s].tries + 1]
      BY <3>0
    <3>2. Moves(s, p)
      BY <1>0, <3>1 DEF StorerType, Moves
    <3>3. p \in {"watch", "purge", "sweep", "card", "unlink", "exec", "trim", "stored", "conflict"}
      OBVIOUS
    <3>4. EntryHeld(k)' = EntryHeld(k)
      BY <2>1, <3>2, <3>3, HeldGoes
    <3>. QED
      BY <2>1, <3>4 DEF EntryStep
  <2>. QED
    BY <2>2, <2>3
<1>11. CASE RedisPurge(s) \/ RedisSweep(s) \/ RedisUnlink(s)
  <2>1. PICK p \in {"sweep", "card"}, T \in SUBSET Keys :
          st' = [st EXCEPT ![s].pc = p, ![s].stale = T]
    <3>1. Stale \in SUBSET Keys /\ {} \in SUBSET Keys
      BY DEF Stale, Members
    <3>2. CASE RedisPurge(s)
      <4>1. PICK p \in {"sweep", "card"} : st' = [st EXCEPT ![s].pc = p, ![s].stale = Stale]
        BY <3>2 DEF RedisPurge
      <4>. QED
        BY <3>1, <4>1
    <3>3. CASE RedisSweep(s) \/ RedisUnlink(s)
      BY <3>1, <3>3 DEF RedisSweep, RedisUnlink
    <3>. QED
      BY <1>11, <3>2, <3>3
  <2>2. Moves(s, p)
    BY <1>0, <2>1 DEF StorerType, Moves
  <2>3. p \in {"watch", "purge", "sweep", "card", "unlink", "exec", "trim", "stored", "conflict"}
    OBVIOUS
  <2>4. st[s].pc \in Busy
    BY <1>11 DEF RedisPurge, RedisSweep, RedisUnlink, SAt
  <2>5. EntryHeld(k)' = EntryHeld(k)
    BY <2>2, <2>3, <2>4, HeldGoes
  <2>6. NoWrite \/ Drop(st[s].stale)
    BY <1>11 DEF RedisPurge, RedisSweep, RedisUnlink
  <2>7. Doc(k)' \in {0, Doc(k)}
    BY <1>1, <1>2, <1>3, <2>6, DocMoves
  <2>. QED
    BY <2>5, <2>7 DEF EntryStep
<1>12. CASE RedisCard(s)
  <2>1. Doc(k)' = Doc(k) /\ st[s].pc = "card"
    BY <1>3, <1>12 DEF RedisCard, SAt
  <2>2. CASE Cardinality(Members) >= MaxEntries
    <3>1. PICK u \in Keys : st' = [st EXCEPT ![s].pc = "unlink", ![s].stale = {u}]
      BY <1>12, <2>2, Popped DEF RedisCard, Members
    <3>2. Moves(s, "unlink")
      BY <1>0, <3>1 DEF StorerType, Moves
    <3>4. EntryHeld(k)' = EntryHeld(k)
      BY <2>1, <3>2, HeldGoes
    <3>. QED
      BY <2>1, <3>4 DEF EntryStep
  <2>3. CASE ~(Cardinality(Members) >= MaxEntries) /\ st[s].ver = 0
    <3>1. SGoto(s, "exec")
      BY <1>12, <2>3 DEF RedisCard
    <3>. QED
      BY <1>5, <2>1, <3>1 DEF EntryStep
  <2>4. CASE ~(Cardinality(Members) >= MaxEntries) /\ st[s].ver # 0
    <3>1. SGoto(s, "conflict")
      BY <1>12, <2>4 DEF RedisCard
    <3>. QED
      BY <1>7, <2>1, <3>1
  <2>. QED
    BY <2>2, <2>3, <2>4
<1>13. ASSUME NEW p \in {"stored", "trim"}, SGoto(s, p), Put({j}, [Gone EXCEPT ![j] = Successor(j, entry[j].ver)]),
              st[s].pc = "exec", mbackend # "memory", st[s].ver \in {0, entry[j].ver}
       PROVE  EntryStep(k)
  <2>1. j \in {j} /\ {j} \in SUBSET Keys
    BY <1>1
  <2>2. IF k = j THEN Doc(k)' = entry[j].ver + 1 ELSE Doc(k)' \in {0, Doc(k)}
    BY <1>1, <1>2, <1>13, <2>1, StoreMoves
  <2>3. CASE k = j
    <3>1. EntryHeld(k)[s] = {st[s].ver} /\ EntryHeld(k)' = [EntryHeld(k) EXCEPT ![s] = {}]
      BY <1>6, <1>13, <2>3
    <3>2. st[s].ver \in {0, Doc(k)} /\ Doc(k)' = Doc(k) + 1
      BY <1>13, <2>2, <2>3 DEF Doc
    <3>. HIDE DEF j
    <3>. QED
      BY <3>1, <3>2 DEF EntryStep
  <2>4. CASE k # j
    BY <1>6, <1>13, <2>2, <2>4 DEF EntryStep
  <2>. QED
    BY <2>3, <2>4
<1>14. CASE RedisStore(s)
  <2>1. st[s].pc = "exec" /\ mbackend = "redis"
    BY <1>14 DEF RedisStore, SAt
  <2>2. CASE changed[j] = st[s].seen
    <3>1. Put({j}, [Gone EXCEPT ![j] = Successor(j, entry[j].ver)]) /\ SGoto(s, "stored")
      BY <1>14, <2>2 DEF RedisStore
    <3>2. st[s].ver \in {0, entry[j].ver}
      BY <1>0, <2>1, <2>2 DEF StorerSound
    <3>. QED
      BY <1>13, <2>1, <3>1, <3>2
  <2>3. CASE changed[j] # st[s].seen
    <3>1. SGoto(s, "watch") /\ NoWrite
      BY <1>14, <2>3 DEF RedisStore
    <3>. QED
      BY <1>3, <1>5, <2>1, <3>1 DEF EntryStep
  <2>. QED
    BY <2>2, <2>3
<1>15. CASE PgRead(s)
  <2>1. Doc(k)' = Doc(k) /\ st[s].pc = "watch"
    BY <1>3, <1>15 DEF PgRead, SAt
  <2>2. PICK p \in {"exec", "conflict"}, a \in Nat : st' = [st EXCEPT ![s].pc = p, ![s].seen = a]
    BY <1>1, <1>15 DEF PgRead
  <2>3. Moves(s, p)
    BY <1>0, <2>2 DEF StorerType, Moves
  <2>4. p \in {"watch", "purge", "sweep", "card", "unlink", "exec", "trim", "stored", "conflict"}
    OBVIOUS
  <2>5. EntryHeld(k)' = EntryHeld(k) \/ EntryHeld(k)' = [EntryHeld(k) EXCEPT ![s] = {}]
    BY <2>1, <2>3, <2>4, HeldGoes
  <2>. QED
    BY <2>1, <2>5 DEF EntryStep
<1>16. CASE PgStore(s)
  <2>1. /\ st[s].pc = "exec" /\ mbackend = "postgres"
        /\ \/ /\ st[s].seen \in {0, entry[j].ver} /\ SGoto(s, "trim")
              /\ Put({j}, [Gone EXCEPT ![j] = Successor(j, entry[j].ver)])
           \/ SGoto(s, "conflict") /\ NoWrite
    BY <1>16 DEF PgStore, SAt
  <2>2. st[s].seen \in {0, entry[j].ver} => st[s].ver \in {0, entry[j].ver}
    BY <1>0, <2>1 DEF StorerSound
  <2>. HIDE DEF j
  <2>. QED
    BY <1>3, <1>7, <1>13, <2>1, <2>2
<1>17. CASE PgTrim(s)
  <2>1. PICK K \in SUBSET Keys : Drop(K)
    <3>. DEFINE rows == {i \in Keys : Live(i)}
                K == {h \in rows : Cardinality({i \in rows : entry[i].at > entry[h].at}) >= MaxEntries}
    <3>1. Drop(K) /\ K \in SUBSET Keys
      BY <1>17 DEF PgTrim
    <3>. HIDE DEF K
    <3>. QED
      BY <3>1
  <2>2. Doc(k)' \in {0, Doc(k)}
    BY <1>2, <2>1, DocMoves
  <2>3. EntryHeld(k)' = EntryHeld(k)
    BY <1>6, <1>17 DEF PgTrim, SAt
  <2>. QED
    BY <2>2, <2>3 DEF EntryStep
<1>. QED
  BY <1>8, <1>9, <1>10, <1>11, <1>12, <1>14, <1>15, <1>16, <1>17

\* The other steps: they keep a document or remove it.
LEMMA OtherEntrySteps ==
    ASSUME MemoryAssumption, MemInv, NEW k \in Keys,
           \/ \E i \in Keys : RedisMiss(i) \/ MemDelete(i) \/ MemExpire(i) \/ MemEvict(i)
           \/ RedisList \/ RedisClean \/ InMemoryPurge \/ PgPurge
    PROVE  EntryStep(k)
<1>0. mbackend' = mbackend /\ st' = st /\ sweep.dels \in SUBSET Keys
  BY DEF MemInv, MemTypeOK, RedisMiss, MemDelete, MemExpire, MemEvict, RedisList, RedisClean, InMemoryPurge,
         PgPurge, PurgeOld
<1>1. EntryHeld(k)' = EntryHeld(k)
  BY <1>0 DEF EntryHeld, StorerHolds
<1>2. CASE NoWrite
  BY <1>0, <1>1, <1>2, DocMoves DEF EntryStep
<1>3. ASSUME NEW K \in SUBSET Keys, Drop(K) PROVE EntryStep(k)
  BY <1>0, <1>1, <1>3, DocMoves DEF EntryStep
<1>4. ASSUME NEW i \in Keys, MemExpire(i) PROVE EntryStep(k)
  <2>1. entry'[k].ver = entry[k].ver /\ (entry'[k].old = entry[k].old \/ entry'[k].old)
    BY <1>4, MemTypes DEF MemExpire, EntryType
  <2>. QED
    BY <1>0, <1>1, <2>1 DEF EntryStep, Doc
<1>. QED
  BY <1>0, <1>2, <1>3, <1>4 DEF RedisMiss, MemDelete, MemEvict, RedisList, RedisClean, InMemoryPurge,
         PgPurge, PurgeOld

\* Each entry of every provider is a versioned document, however the commands of the
\* storers interleave: store() is one write that states the version its caller holds
\* (EntriesVersioned; memory/*.py store, delete, list_entries).
THEOREM EntriesAreVersioned == MemSpec => EntriesVersioned
<1>. USE MemoryAssumption
<1>1. MemInv /\ [MemNext]_mvars
        => [\A k \in Keys : EntryStore(k)!VNext \/ UNCHANGED EntryStore(k)!vvars]_mvars
  <2>. SUFFICES ASSUME MemInv, MemNext, NEW k \in Keys
                PROVE  EntryStore(k)!VNext \/ UNCHANGED EntryStore(k)!vvars
    OBVIOUS
  <2>1. EntryStep(k)
    BY StorerEntrySteps, OtherEntrySteps DEF MemNext
  <2>2. Doc(k) \in Nat
    BY MemTypes DEF Doc, EntryType
  <2>. QED
    BY <2>1, <2>2, EntryStepAbstract
<1>. QED
  BY <1>1, MemoryInvariant, PTL DEF MemSpec, EntriesVersioned

-----------------------------------------------------------------------------
(* Memory providers: the policy's bound. *)

Rank(f, S) == [x \in S |-> Cardinality({y \in S : f[y] < f[x]})]

\* Members of a finite set, numbered by an injective function, have the ranks 0..n-1.
LEMMA Ranked ==
    ASSUME NEW S, IsFiniteSet(S), NEW f \in [S -> Int], \A x, y \in S : f[x] = f[y] => x = y
    PROVE  /\ Cardinality(S) \in Nat /\ Rank(f, S) \in [S -> 0..(Cardinality(S) - 1)]
           /\ \A x, y \in S : Rank(f, S)[x] = Rank(f, S)[y] => x = y
           /\ \A k \in 0..(Cardinality(S) - 1) : \E x \in S : Rank(f, S)[x] = k
<1>. DEFINE under(x) == {y \in S : f[y] < f[x]}
            rank == Rank(f, S)
            n == Cardinality(S)
<1>1. n \in Nat
  BY FS_CardinalityType
<1>2. \A x \in S : IsFiniteSet(under(x)) /\ Cardinality(under(x)) \in 0..(n - 1)
  <2>. SUFFICES ASSUME NEW x \in S PROVE IsFiniteSet(under(x)) /\ Cardinality(under(x)) \in 0..(n - 1)
    OBVIOUS
  <2>1. under(x) \in SUBSET S /\ x \notin under(x)
    OBVIOUS
  <2>2. IsFiniteSet(under(x)) /\ Cardinality(under(x)) <= n /\ Cardinality(under(x)) # n
    BY <2>1, FS_Subset
  <2>3. Cardinality(under(x)) \in Nat
    BY <2>2, FS_CardinalityType
  <2>. HIDE DEF under, n
  <2>. QED
    BY <1>1, <2>2, <2>3
<1>3. \A x, y \in S : f[x] < f[y] => Cardinality(under(x)) < Cardinality(under(y))
  <2>. SUFFICES ASSUME NEW x \in S, NEW y \in S, f[x] < f[y] PROVE Cardinality(under(x)) < Cardinality(under(y))
    OBVIOUS
  <2>1. under(x) \in SUBSET under(y) /\ x \in under(y) /\ x \notin under(x)
    OBVIOUS
  <2>2. Cardinality(under(x)) <= Cardinality(under(y)) /\ Cardinality(under(x)) # Cardinality(under(y))
    BY <1>2, <2>1, FS_Subset
  <2>3. Cardinality(under(x)) \in Nat /\ Cardinality(under(y)) \in Nat
    BY <1>2, FS_CardinalityType
  <2>. HIDE DEF under
  <2>. QED
    BY <2>2, <2>3
<1>4. rank \in [S -> 0..(n - 1)] /\ \A x, y \in S : f[x] < f[y] => rank[x] < rank[y]
  BY <1>2, <1>3 DEF Rank
<1>. HIDE DEF rank, n
<1>5. \A x \in S : rank[x] \in Nat
  BY <1>1, <1>4
<1>6. \A x, y \in S : rank[x] = rank[y] => x = y
  <2>. SUFFICES ASSUME NEW x \in S, NEW y \in S, x # y PROVE rank[x] # rank[y]
    OBVIOUS
  <2>1. f[x] \in Int /\ f[y] \in Int /\ f[x] # f[y]
    OBVIOUS
  <2>2. f[x] < f[y] \/ f[y] < f[x]
    BY <2>1
  <2>. QED
    BY <1>4, <1>5, <2>2
<1>7. \A k \in 0..(n - 1) : \E x \in S : rank[x] = k
  <2>. DEFINE J == 0..(n - 1)
  <2>1. IsFiniteSet(J) /\ Cardinality(J) = n
    BY <1>1, FS_Interval
  <2>2. rank \in Injection(S, J)
    BY <1>4, <1>6, Fun_IsInj
  <2>. HIDE DEF J
  <2>3. Cardinality(S) = Cardinality(J)
    BY <2>1 DEF n
  <2>4. rank \in Surjection(S, J)
    BY <2>1, <2>2, <2>3, FS_Injection
  <2>5. \A k \in J : \E x \in S : rank[x] = k
    BY <2>4, Fun_SurjectionProperties
  <2>. QED
    BY <2>5 DEF J
<1>. QED
  BY <1>1, <1>4, <1>6, <1>7 DEF rank, n

Lowest(f, S, e) == {x \in S : Cardinality({y \in S : f[y] < f[x]}) < e}

\* There are at least e members of a rank below e.
LEMMA Oldest ==
    ASSUME NEW S, IsFiniteSet(S), NEW f \in [S -> Nat], \A x, y \in S : f[x] = f[y] => x = y,
           NEW e \in Nat, e > 0, e <= Cardinality(S)
    PROVE  Lowest(f, S, e) \in SUBSET S /\ e <= Cardinality(Lowest(f, S, e))
<1>. DEFINE rank == Rank(f, S)
            n == Cardinality(S)
            E == {x \in S : rank[x] < e}
            g == [x \in E |-> rank[x]]
            J == 0..(e - 1)
<1>1. /\ n \in Nat /\ rank \in [S -> 0..(n - 1)]
      /\ \A k \in 0..(n - 1) : \E x \in S : rank[x] = k
  <2>1. f \in [S -> Int]
    OBVIOUS
  <2>. QED
    BY <2>1, Ranked
<1>. HIDE DEF rank, n
<1>2. E \in SUBSET S /\ IsFiniteSet(E)
  BY FS_Subset
<1>3. g \in [E -> J]
  BY <1>1
<1>4. ASSUME NEW k \in J PROVE \E x \in E : g[x] = k
  <2>1. k \in 0..(n - 1)
    BY <1>1, <1>4 DEF n
  <2>2. PICK x \in S : rank[x] = k
    BY <1>1, <2>1
  <2>3. x \in E
    BY <1>4, <2>2
  <2>. QED
    BY <2>2, <2>3
<1>5. g \in Surjection(E, J)
  BY <1>3, <1>4, Fun_IsSurj
<1>6. Cardinality(J) = e
  BY FS_Interval
<1>. HIDE DEF g, J
<1>7. Cardinality(J) <= Cardinality(E)
  BY <1>2, <1>5, FS_Surjection
<1>8. E = Lowest(f, S, e)
  BY DEF rank, Rank, Lowest
<1>. HIDE DEF E
<1>. QED
  BY <1>2, <1>6, <1>7, <1>8

\* A finite set and what is taken from it.
LEMMA Difference ==
    ASSUME NEW S, IsFiniteSet(S), NEW E \in SUBSET S
    PROVE  /\ IsFiniteSet(S \ E) /\ Cardinality(S \ E) \in Nat /\ Cardinality(E) \in Nat
           /\ Cardinality(S) = Cardinality(S \ E) + Cardinality(E)
<1>. DEFINE D == S \ E
<1>1. D \in SUBSET S /\ D \cup E = S /\ D \cap E = {}
  OBVIOUS
<1>. HIDE DEF D
<1>2. IsFiniteSet(D) /\ IsFiniteSet(E)
  BY <1>1, FS_Subset
<1>3. Cardinality(D) \in Nat /\ Cardinality(E) \in Nat /\ Cardinality({}) = 0
  BY <1>2, FS_CardinalityType, FS_EmptySet
<1>4. Cardinality(D \cup E) = Cardinality(D) + Cardinality(E) - Cardinality(D \cap E)
  BY <1>2, FS_Union
<1>5. Cardinality(S) = Cardinality(D) + Cardinality(E) - Cardinality({})
  BY <1>1, <1>4, Zenon
<1>. QED
  BY <1>2, <1>3, <1>5 DEF D

\* A finite set and one more member.
LEMMA OneMore ==
    ASSUME NEW S, IsFiniteSet(S), NEW x, NEW T \in SUBSET (S \cup {x})
    PROVE  /\ IsFiniteSet(T) /\ Cardinality(T) \in Nat /\ Cardinality(S) \in Nat
           /\ Cardinality(T) <= Cardinality(S) + 1
<1>1. IsFiniteSet(S \cup {x}) /\ Cardinality(S) \in Nat
  BY FS_AddElement, FS_CardinalityType
<1>2. Cardinality(S \cup {x}) = Cardinality(S) \/ Cardinality(S \cup {x}) = Cardinality(S) + 1
  BY FS_AddElement
<1>3. IsFiniteSet(T) /\ Cardinality(T) <= Cardinality(S \cup {x})
  BY <1>1, FS_Subset
<1>4. Cardinality(T) \in Nat
  BY <1>3, FS_CardinalityType
<1>. QED
  BY <1>1, <1>2, <1>3, <1>4

Highest(f, S, m) == {x \in S : Cardinality({y \in S : f[y] > f[x]}) < m}

\* There are at most m members with fewer than m above them.
LEMMA Newest ==
    ASSUME NEW S, IsFiniteSet(S), NEW f \in [S -> Nat], \A x, y \in S : f[x] = f[y] => x = y,
           NEW m \in Nat
    PROVE  Cardinality(Highest(f, S, m)) <= m
<1>. DEFINE h == [x \in S |-> 0 - f[x]]
            rank == Rank(h, S)
            n == Cardinality(S)
            E == {x \in S : Cardinality({y \in S : f[y] > f[x]}) < m}
            J == 0..(m - 1)
            g == [x \in E |-> rank[x]]
<1>1. h \in [S -> Int] /\ \A x, y \in S : (h[y] < h[x]) = (f[y] > f[x])
  OBVIOUS
<1>2. \A x, y \in S : h[x] = h[y] => x = y
  OBVIOUS
<1>. HIDE DEF h
<1>3. /\ n \in Nat /\ rank \in [S -> 0..(n - 1)]
      /\ \A x, y \in S : rank[x] = rank[y] => x = y
  BY <1>1, <1>2, Ranked
<1>4. ASSUME NEW x \in S PROVE rank[x] = Cardinality({y \in S : f[y] > f[x]})
  <2>1. {y \in S : h[y] < h[x]} = {y \in S : f[y] > f[x]}
    BY <1>1
  <2>. QED
    BY <2>1 DEF Rank
<1>. HIDE DEF rank, n
<1>5. g \in [E -> J]
  <2>. SUFFICES ASSUME NEW x \in E PROVE rank[x] \in J
    OBVIOUS
  <2>1. rank[x] \in Nat /\ rank[x] < m
    BY <1>3, <1>4
  <2>. QED
    BY <2>1
<1>6. g \in Injection(E, J)
  BY <1>3, <1>5, Fun_IsInj
<1>7. IsFiniteSet(J) /\ Cardinality(J) = m
  BY FS_Interval
<1>8. E = Highest(f, S, m)
  BY DEF Highest
<1>. HIDE DEF g, J, E
<1>9. Cardinality(E) <= m
  BY <1>6, <1>7, FS_Injection
<1>. QED
  BY <1>8, <1>9

LiveKeys == {k \in Keys : Live(k)}

\* The times of the live entries are past and all different, those of the first
\* stores too: eviction and trimming order the entries by them.
Stamped ==
    /\ \A k \in Keys : entry[k].at <= clock /\ entry[k].first <= clock
    /\ \A j, k \in Keys : Live(j) /\ Live(k) /\ j # k
                           => entry[j].at # entry[k].at /\ entry[j].first # entry[k].first

Trimming == {s \in Storers : SAt(s, "trim")}

EntryInv ==
    /\ Stamped /\ IsFiniteSet(LiveKeys)
    /\ mbackend = "memory" => Cardinality(LiveKeys) <= MaxEntries
    /\ mbackend = "postgres" => Cardinality(LiveKeys) <= MaxEntries + Cardinality(Trimming)

\* A step that writes the entries of N (one at most), and keeps or drops the others.
Grows(N) ==
    /\ entry' \in [Keys -> EntryType] /\ clock' \in {clock, clock + 1}
    /\ \A k \in Keys \ N : \/ entry'[k] = NoEntry
                           \/ /\ entry'[k].ver = entry[k].ver /\ entry'[k].at = entry[k].at
                              /\ entry'[k].first = entry[k].first
    /\ \A k \in N : /\ clock' = clock + 1 /\ entry'[k].at = clock + 1
                    /\ entry'[k].first = clock + 1 \/ (Live(k) /\ entry'[k].first = entry[k].first)

\* It keeps the times apart, and the live entries grow by that one only.
LEMMA StampsKept ==
    ASSUME MemoryAssumption, MemInv, Stamped, IsFiniteSet(LiveKeys),
           NEW N \in SUBSET Keys, IsFiniteSet(N), \A i, k \in N : i = k, Grows(N)
    PROVE  Stamped' /\ LiveKeys' \subseteq LiveKeys \cup N /\ IsFiniteSet(LiveKeys')
<1>1. entry \in [Keys -> EntryType] /\ clock \in Nat /\ entry' \in [Keys -> EntryType] /\ clock' \in Nat
      /\ clock <= clock'
  BY MemTypes DEF Grows
<1>2. \A k \in Keys : /\ entry[k].at \in Nat /\ entry[k].first \in Nat /\ entry[k].ver \in Nat
                      /\ entry'[k].at \in Nat /\ entry'[k].first \in Nat /\ entry'[k].ver \in Nat
  BY <1>1 DEF EntryType
<1>3. \A k \in Keys \ N : entry'[k].ver > 0 => /\ Live(k) /\ entry'[k].at = entry[k].at
                                              /\ entry'[k].first = entry[k].first
  BY DEF Grows, NoEntry, Live
<1>4. ASSUME NEW k \in Keys PROVE entry'[k].at <= clock' /\ entry'[k].first <= clock'
  <2>1. CASE k \in N
    BY <1>1, <1>2, <2>1 DEF Grows, Stamped
  <2>2. CASE k \notin N /\ entry'[k] = NoEntry
    BY <1>1, <2>2 DEF NoEntry
  <2>3. CASE k \notin N /\ entry'[k] # NoEntry
    BY <1>1, <1>2, <2>3 DEF Grows, Stamped
  <2>. QED
    BY <2>1, <2>2, <2>3
<1>5. ASSUME NEW i \in Keys \ N, NEW k \in N, entry'[i].ver > 0
      PROVE  entry'[i].at # entry'[k].at /\ entry'[i].first # entry'[k].first
  <2>1. k \in Keys /\ i # k /\ Live(i) /\ entry'[i].at = entry[i].at /\ entry'[i].first = entry[i].first
    BY <1>3, <1>5
  <2>2. entry[i].at <= clock /\ entry[i].first <= clock
    BY <2>1 DEF Stamped
  <2>3. entry'[k].at = clock + 1
    BY DEF Grows
  <2>4. entry'[k].first = clock + 1 \/ (Live(k) /\ entry'[k].first = entry[k].first)
    BY DEF Grows
  <2>. QED
    BY <1>1, <1>2, <2>1, <2>2, <2>3, <2>4 DEF Stamped
<1>6. ASSUME NEW i \in Keys, NEW k \in Keys, entry'[i].ver > 0, entry'[k].ver > 0, i # k
      PROVE  entry'[i].at # entry'[k].at /\ entry'[i].first # entry'[k].first
  <2>1. CASE i \in N
    BY <1>5, <1>6, <2>1
  <2>2. CASE k \in N
    BY <1>5, <1>6, <2>2
  <2>3. CASE i \notin N /\ k \notin N
    BY <1>3, <1>6, <2>3 DEF Stamped
  <2>. QED
    BY <2>1, <2>2, <2>3
<1>7. Stamped'
  BY <1>4, <1>6 DEF Stamped, Live
<1>8. LiveKeys' \subseteq LiveKeys \cup N
  BY <1>3 DEF LiveKeys, Live
<1>9. IsFiniteSet(LiveKeys \cup N) /\ LiveKeys' \in SUBSET (LiveKeys \cup N)
  BY <1>8, FS_Union
<1>10. IsFiniteSet(LiveKeys')
  BY <1>9, FS_Subset
<1>. QED
  BY <1>7, <1>8, <1>10

\* The writes are such steps.
LEMMA WritesGrow ==
    ASSUME MemoryAssumption, MemInv
    PROVE  /\ NoWrite => Grows({})
           /\ \A K \in SUBSET Keys : Drop(K) => Grows({})
           /\ \A K \in SUBSET Keys : \A j \in K : \A v \in Nat :
                Put(K, [Gone EXCEPT ![j] = Successor(j, v)]) /\ (v > 0 => Live(j)) => Grows({j})
<1>1. entry \in [Keys -> EntryType] /\ clock \in Nat
  BY MemTypes
<1>2. NoWrite => Grows({})
  BY <1>1 DEF NoWrite, Grows
<1>3. ASSUME NEW K \in SUBSET Keys, Drop(K) PROVE Grows({})
  <2>1. EntriesMove
    BY <1>3, Writes
  <2>. QED
    BY <1>3, <2>1 DEF EntriesMove, Drop, Put, Gone, Grows
<1>4. ASSUME NEW K \in SUBSET Keys, NEW j \in K, NEW v \in Nat,
             Put(K, [Gone EXCEPT ![j] = Successor(j, v)]), v > 0 => Live(j)
      PROVE  Grows({j})
  <2>. DEFINE f == [Gone EXCEPT ![j] = Successor(j, v)]
  <2>1. /\ f \in [Keys -> EntryType] /\ f[j] = Successor(j, v)
        /\ \A k \in Keys \ {j} : f[k] = NoEntry
    BY Stores
  <2>2. f[j].at = clock + 1 /\ f[j].first = IF v > 0 THEN entry[j].first ELSE clock + 1
    BY <2>1 DEF Successor
  <2>3. Put(K, f)
    BY <1>4
  <2>. HIDE DEF f
  <2>4. EntriesMove
    BY <2>1, <2>3, Writes
  <2>. QED
    BY <1>1, <1>4, <2>1, <2>2, <2>3, <2>4 DEF EntriesMove, Put, Grows
<1>. QED
  BY <1>2, <1>3, <1>4

\* Steps that write no entry.
LEMMA NothingGrows ==
    ASSUME MemoryAssumption, MemInv, EntryInv, Grows({}), mbackend' = mbackend, Trimming \subseteq Trimming'
    PROVE  EntryInv'
<1>1. Stamped' /\ LiveKeys' \in SUBSET LiveKeys /\ IsFiniteSet(LiveKeys')
  <2>1. {} \in SUBSET Keys /\ IsFiniteSet({}) /\ \A i, k \in {} : i = k
    BY FS_EmptySet
  <2>2. Stamped' /\ LiveKeys' \subseteq LiveKeys \cup {} /\ IsFiniteSet(LiveKeys')
    BY <2>1, StampsKept DEF EntryInv
  <2>. QED
    BY <2>2
<1>2. Cardinality(LiveKeys') <= Cardinality(LiveKeys)
  BY <1>1, FS_Subset DEF EntryInv
<1>3. Cardinality(LiveKeys') \in Nat /\ Cardinality(LiveKeys) \in Nat
  BY <1>1, FS_CardinalityType DEF EntryInv
<1>4. Cardinality(Trimming) <= Cardinality(Trimming') /\ Cardinality(Trimming) \in Nat
      /\ Cardinality(Trimming') \in Nat
  <2>1. IsFiniteSet(Storers) /\ Trimming' \in SUBSET Storers /\ Trimming \in SUBSET Trimming'
    BY MemTypes DEF Trimming
  <2>2. IsFiniteSet(Trimming')
    BY <2>1, FS_Subset
  <2>3. IsFiniteSet(Trimming) /\ Cardinality(Trimming) <= Cardinality(Trimming')
    BY <2>1, <2>2, FS_Subset
  <2>. QED
    BY <2>2, <2>3, FS_CardinalityType
<1>. QED
  BY <1>1, <1>2, <1>3, <1>4, MemTypes DEF EntryInv

\* The in-process store() makes room before it writes.
LEMMA InMemoryRoom ==
    ASSUME MemoryAssumption, MemInv, EntryInv, NEW s \in Storers, InMemoryStore(s)
    PROVE  EntryInv'
<1>. DEFINE k == st[s].key
            old == {j \in Keys : entry[j].old}
            live == LiveKeys \ old
            excess == IF k \in live THEN 0 ELSE Cardinality(live) + 1 - MaxEntries
            evicted == {j \in live : Cardinality({i \in live : entry[i].first < entry[j].first}) < excess}
            K == old \cup evicted \cup {k}
<1>0. /\ entry \in [Keys -> EntryType] /\ k \in Keys /\ entry[k].ver \in Nat /\ MaxEntries \in Nat
      /\ MaxEntries > 0
  BY MemTypes DEF StorerType, EntryType
<1>1. \/ Put(K, [Gone EXCEPT ![k] = Successor(k, Visible(k))])
      \/ Drop(old) /\ SGoto(s, "conflict")
  BY DEF InMemoryStore, LiveKeys
<1>2. /\ K \in SUBSET Keys /\ old \in SUBSET Keys /\ live \in SUBSET Keys /\ live \in SUBSET LiveKeys
      /\ k \in K /\ k \in Keys
  BY <1>0 DEF LiveKeys
<1>3. mbackend = "memory" /\ mbackend' = mbackend /\ st[s].pc = "watch"
  BY DEF InMemoryStore, SAt
<1>4. IsFiniteSet(live) /\ Cardinality(live) \in Nat /\ Cardinality(live) <= MaxEntries
  <2>1. IsFiniteSet(live) /\ Cardinality(live) <= Cardinality(LiveKeys)
    BY <1>2, FS_Subset DEF EntryInv
  <2>2. Cardinality(live) \in Nat /\ Cardinality(LiveKeys) \in Nat
    BY <2>1, FS_CardinalityType DEF EntryInv
  <2>. QED
    BY <1>0, <1>3, <2>1, <2>2 DEF EntryInv
<1>5. CASE Drop(old)
  <2>1. Grows({})
    BY <1>2, <1>5, WritesGrow
  <2>2. Trimming \subseteq Trimming'
    BY <1>3, MemTypes DEF Trimming, InMemoryStore, SAt, SGoto, StorerType
  <2>. QED
    BY <1>3, <2>1, <2>2, NothingGrows
<1>6. CASE Put(K, [Gone EXCEPT ![k] = Successor(k, Visible(k))])
  <2>1. Visible(k) \in Nat /\ (Visible(k) > 0 => Live(k))
    BY <1>0 DEF Visible, Live
  <2>2. Grows({k})
    BY <1>2, <1>6, <2>1, WritesGrow
  <2>3. Stamped' /\ LiveKeys' \subseteq LiveKeys \cup {k} /\ IsFiniteSet(LiveKeys')
    <3>1. {k} \in SUBSET Keys /\ IsFiniteSet({k}) /\ \A i, j \in {k} : i = j
      BY <1>0, FS_Singleton
    <3>. QED
      BY <2>2, <3>1, StampsKept DEF EntryInv
  <2>4. \A j \in K \ {k} : ~Live(j)'
    <3>1. \A j \in Keys \ {k} : [Gone EXCEPT ![k] = Successor(k, Visible(k))][j] = NoEntry
      BY <1>0, <2>1, Stores
    <3>2. \A j \in K \ {k} : entry'[j] = NoEntry
      BY <1>2, <1>6, <3>1 DEF Put
    <3>. QED
      BY <3>2 DEF Live, NoEntry
  <2>5. LiveKeys' \in SUBSET ((live \ evicted) \cup {k})
    BY <2>3, <2>4 DEF LiveKeys
  <2>6. CASE k \in live
    <3>1. (live \ evicted) \cup {k} \in SUBSET live
      BY <2>6
    <3>2. LiveKeys' \in SUBSET live
      BY <2>5, <3>1
    <3>. HIDE DEF live
    <3>3. Cardinality(LiveKeys') <= Cardinality(live)
      BY <1>4, <3>2, FS_Subset
    <3>4. Cardinality(LiveKeys') \in Nat
      BY <2>3, FS_CardinalityType
    <3>5. Cardinality(LiveKeys') <= MaxEntries
      BY <1>0, <1>4, <3>3, <3>4
    <3>. QED
      BY <1>3, <2>3, <3>5 DEF EntryInv
  <2>7. CASE k \notin live
    <3>. DEFINE rest == live \ evicted
    <3>1. IsFiniteSet(rest) /\ Cardinality(rest) \in Nat /\ Cardinality(rest) + 1 <= MaxEntries
      <4>1. CASE excess <= 0
        <5>1. rest \in SUBSET live
          OBVIOUS
        <5>2. Cardinality(live) + 1 <= MaxEntries
          BY <1>0, <1>4, <2>7, <4>1
        <5>. HIDE DEF live, rest
        <5>3. IsFiniteSet(rest) /\ Cardinality(rest) <= Cardinality(live)
          BY <1>4, <5>1, FS_Subset
        <5>4. Cardinality(rest) \in Nat
          BY <5>3, FS_CardinalityType
        <5>. QED
          BY <1>0, <1>4, <5>2, <5>3, <5>4
      <4>2. CASE ~(excess <= 0)
        <5>1. excess = Cardinality(live) + 1 - MaxEntries
          BY <2>7
        <5>2. excess \in Nat /\ excess > 0 /\ excess <= Cardinality(live)
          BY <1>0, <1>4, <4>2, <5>1
        <5>3. PICK f \in [live -> Nat] : \A j \in live : f[j] = entry[j].first
          <6>1. [j \in live |-> entry[j].first] \in [live -> Nat]
            BY <1>0, <1>2 DEF EntryType
          <6>. QED
            BY <6>1
        <5>4. \A i, j \in live : f[i] = f[j] => i = j
          BY <1>2, <5>3 DEF EntryInv, Stamped, LiveKeys
        <5>. HIDE DEF live, excess
        <5>. DEFINE E == Lowest(f, live, excess)
        <5>5. E \in SUBSET live /\ excess <= Cardinality(E)
          BY <1>4, <5>2, <5>4, Oldest
        <5>6. E = evicted
          <6>1. \A j \in live : {i \in live : f[i] < f[j]} = {i \in live : entry[i].first < entry[j].first}
            BY <5>3
          <6>. QED
            BY <6>1 DEF Lowest
        <5>. HIDE DEF E
        <5>7. /\ IsFiniteSet(live \ E) /\ Cardinality(live \ E) \in Nat /\ Cardinality(E) \in Nat
              /\ Cardinality(live) = Cardinality(live \ E) + Cardinality(E)
          BY <1>4, <5>5, Difference
        <5>8. rest = live \ E
          BY <5>6
        <5>9. Cardinality(live \ E) + 1 <= MaxEntries
          BY <1>0, <1>4, <5>1, <5>2, <5>5, <5>7
        <5>. HIDE DEF rest
        <5>. QED
          BY <5>7, <5>8, <5>9, Zenon
      <4>. QED
        BY <4>1, <4>2
    <3>. HIDE DEF rest
    <3>2. LiveKeys' \in SUBSET (rest \cup {k})
      BY <2>5 DEF rest
    <3>3. Cardinality(LiveKeys') <= Cardinality(rest) + 1 /\ Cardinality(LiveKeys') \in Nat
      BY <3>1, <3>2, OneMore
    <3>6. Cardinality(LiveKeys') <= MaxEntries
      BY <1>0, <3>1, <3>3
    <3>. QED
      BY <1>3, <2>3, <3>6 DEF EntryInv
  <2>. QED
    BY <2>6, <2>7
<1>. QED
  BY <1>1, <1>5, <1>6

\* On PostgreSQL a store leaves one row more, and one statement that trims.
LEMMA PgRoom ==
    ASSUME MemoryAssumption, MemInv, EntryInv, NEW s \in Storers, PgStore(s) \/ PgTrim(s)
    PROVE  EntryInv'
<1>0. /\ entry \in [Keys -> EntryType] /\ st \in [Storers -> StorerType] /\ st[s] \in StorerType
      /\ st[s].key \in Keys /\ entry[st[s].key].ver \in Nat /\ MaxEntries \in Nat /\ StorerSound(st[s])
  BY MemTypes DEF StorerType, EntryType, MemInv
<1>1. mbackend' = mbackend /\ mbackend = "postgres"
  BY <1>0 DEF PgStore, PgTrim, SAt, StorerSound
<1>2. Trimming \in SUBSET Storers /\ IsFiniteSet(Trimming) /\ Cardinality(Trimming) \in Nat
      /\ IsFiniteSet(Trimming') /\ Cardinality(Trimming') \in Nat
  <2>1. IsFiniteSet(Storers) /\ Trimming \in SUBSET Storers /\ Trimming' \in SUBSET Storers
    BY MemTypes DEF Trimming
  <2>2. IsFiniteSet(Trimming) /\ IsFiniteSet(Trimming')
    BY <2>1, FS_Subset
  <2>. QED
    BY <2>1, <2>2, FS_CardinalityType
<1>3. CASE PgTrim(s)
  <2>. DEFINE K == {k \in LiveKeys : Cardinality({j \in LiveKeys : entry[j].at > entry[k].at}) >= MaxEntries}
              R == {k \in LiveKeys : Cardinality({j \in LiveKeys : entry[j].at > entry[k].at}) < MaxEntries}
  <2>1. Drop(K) /\ K \in SUBSET Keys
    BY <1>3 DEF PgTrim, LiveKeys
  <2>2. PICK f \in [LiveKeys -> Nat] : \A k \in LiveKeys : f[k] = entry[k].at
    <3>1. [k \in LiveKeys |-> entry[k].at] \in [LiveKeys -> Nat]
      BY <1>0 DEF EntryType, LiveKeys
    <3>. QED
      BY <3>1
  <2>3. \A i, j \in LiveKeys : f[i] = f[j] => i = j
    BY <2>2 DEF EntryInv, Stamped, LiveKeys
  <2>. DEFINE E == Highest(f, LiveKeys, MaxEntries)
  <2>4. Cardinality(E) <= MaxEntries
    BY <1>0, <2>3, Newest DEF EntryInv
  <2>5. E = R
    <3>1. \A k \in LiveKeys : {j \in LiveKeys : f[j] > f[k]} = {j \in LiveKeys : entry[j].at > entry[k].at}
      BY <2>2
    <3>. QED
      BY <3>1 DEF Highest
  <2>. HIDE DEF E
  <2>6. \A k \in LiveKeys : k \in K \/ k \in R
    <3>. SUFFICES ASSUME NEW k \in LiveKeys
                  PROVE  \/ Cardinality({j \in LiveKeys : entry[j].at > entry[k].at}) >= MaxEntries
                         \/ Cardinality({j \in LiveKeys : entry[j].at > entry[k].at}) < MaxEntries
      OBVIOUS
    <3>. DEFINE above == {j \in LiveKeys : entry[j].at > entry[k].at}
    <3>1. above \in SUBSET LiveKeys
      OBVIOUS
    <3>. HIDE DEF above
    <3>2. Cardinality(above) \in Nat
      BY <3>1, FS_Subset, FS_CardinalityType DEF EntryInv
    <3>3. Cardinality(above) >= MaxEntries \/ Cardinality(above) < MaxEntries
      BY <1>0, <3>2
    <3>. QED
      BY <3>3 DEF above
  <2>7. R \in SUBSET LiveKeys
    OBVIOUS
  <2>. HIDE DEF K, R
  <2>8. Grows({}) /\ \A k \in K : entry'[k] = NoEntry
    BY <2>1, WritesGrow DEF Drop, Put, Gone
  <2>9. Stamped' /\ LiveKeys' \subseteq LiveKeys \cup {} /\ IsFiniteSet(LiveKeys')
    <3>1. {} \in SUBSET Keys /\ IsFiniteSet({}) /\ \A i, k \in {} : i = k
      BY FS_EmptySet
    <3>. QED
      BY <2>8, <3>1, StampsKept DEF EntryInv
  <2>10. LiveKeys' \in SUBSET E
    <3>1. \A k \in K : k \notin LiveKeys'
      BY <2>8 DEF LiveKeys, Live, NoEntry
    <3>. QED
      BY <2>5, <2>6, <2>9, <3>1
  <2>11. IsFiniteSet(E)
    BY <2>5, <2>7, FS_Subset DEF EntryInv
  <2>12. Cardinality(LiveKeys') <= Cardinality(E) /\ Cardinality(LiveKeys') \in Nat /\ Cardinality(E) \in Nat
    BY <2>9, <2>10, <2>11, FS_Subset, FS_CardinalityType
  <2>13. Cardinality(LiveKeys') <= MaxEntries + Cardinality(Trimming')
    BY <1>0, <1>2, <2>4, <2>12
  <2>. QED
    BY <1>1, <2>9, <2>13 DEF EntryInv
<1>4. CASE PgStore(s) /\ NoWrite
  <2>1. st[s].pc = "exec" /\ \E p \in {"trim", "conflict"} : st' = [st EXCEPT ![s].pc = p]
    BY <1>4 DEF PgStore, SAt, SGoto
  <2>2. Trimming \subseteq Trimming'
    BY <1>0, <2>1 DEF Trimming, SAt, StorerType
  <2>. QED
    BY <1>1, <1>4, <2>2, WritesGrow, NothingGrows
<1>5. CASE PgStore(s) /\ ~NoWrite
  <2>. DEFINE k == st[s].key
  <2>1. Put({k}, [Gone EXCEPT ![k] = Successor(k, entry[k].ver)]) /\ SGoto(s, "trim") /\ st[s].pc = "exec"
    BY <1>5 DEF PgStore, SAt
  <2>2. {k} \in SUBSET Keys /\ k \in {k} /\ IsFiniteSet({k}) /\ (entry[k].ver > 0 => Live(k))
    BY <1>0, FS_Singleton DEF Live
  <2>3. Grows({k})
    BY <1>0, <2>1, <2>2, WritesGrow
  <2>4. Stamped' /\ LiveKeys' \subseteq LiveKeys \cup {k} /\ IsFiniteSet(LiveKeys')
    <3>1. \A i, j \in {k} : i = j
      OBVIOUS
    <3>. QED
      BY <2>2, <2>3, <3>1, StampsKept DEF EntryInv
  <2>5. /\ Cardinality(LiveKeys') <= Cardinality(LiveKeys) + 1 /\ Cardinality(LiveKeys') \in Nat
        /\ Cardinality(LiveKeys) \in Nat
    BY <2>4, OneMore DEF EntryInv
  <2>6. Trimming' = Trimming \cup {s} /\ s \notin Trimming
    BY <1>0, <2>1 DEF Trimming, SAt, SGoto, StorerType
  <2>7. Cardinality(Trimming \cup {s}) = Cardinality(Trimming) + 1
    BY <1>2, <2>6, FS_AddElement
  <2>8. Cardinality(Trimming') = Cardinality(Trimming) + 1
    BY <2>6, <2>7, Zenon
  <2>9. Cardinality(LiveKeys') <= MaxEntries + Cardinality(Trimming')
    BY <1>0, <1>1, <1>2, <2>5, <2>8 DEF EntryInv
  <2>. QED
    BY <1>1, <2>4, <2>9 DEF EntryInv
<1>. QED
  BY <1>3, <1>4, <1>5

\* Every step keeps the bounds on the entries.
LEMMA EntrySteps ==
    ASSUME MemoryAssumption, MemInv, EntryInv, MemNext
    PROVE  EntryInv'
<1>0. /\ entry \in [Keys -> EntryType] /\ st \in [Storers -> StorerType] /\ sweep.dels \in SUBSET Keys
      /\ clock \in Nat
  BY MemTypes DEF MemInv, MemTypeOK
<1>1. mbackend' = mbackend
  BY DEF MemNext, MemBegin, InMemoryStore, RedisRead, RedisPurge, RedisSweep, RedisCard, RedisUnlink, RedisStore,
         PgRead, PgStore, PgTrim, RedisMiss, MemDelete, MemExpire, MemEvict, RedisList, RedisClean,
         InMemoryPurge, PgPurge, PurgeOld
<1>2. ASSUME NEW s \in Storers, st[s].pc # "trim", \A u \in Storers \ {s} : st'[u] = st[u]
      PROVE  Trimming \subseteq Trimming'
  BY <1>2 DEF Trimming, SAt
<1>3. ASSUME st' = st PROVE Trimming \subseteq Trimming'
  BY <1>3 DEF Trimming, SAt
<1>4. ASSUME NoWrite \/ (\E K \in SUBSET Keys : Drop(K)), Trimming \subseteq Trimming' PROVE EntryInv'
  BY <1>1, <1>4, WritesGrow, NothingGrows
<1>5. ASSUME NEW s \in Storers,
             \/ \E k \in Keys : MemBegin(s, k)
             \/ RedisRead(s) \/ RedisPurge(s) \/ RedisSweep(s) \/ RedisCard(s) \/ RedisUnlink(s) \/ PgRead(s)
      PROVE  EntryInv'
  <2>1. st[s].pc # "trim"
    BY <1>5 DEF MemBegin, RedisRead, RedisPurge, RedisSweep, RedisCard, RedisUnlink, PgRead, SAt
  <2>2. \A u \in Storers \ {s} : st'[u] = st[u]
    <3>1. CASE \E k \in Keys : MemBegin(s, k)
      BY <1>0, <3>1 DEF MemBegin
    <3>2. CASE RedisRead(s)
      BY <1>0, <3>2 DEF RedisRead, SGoto
    <3>3. CASE RedisCard(s)
      BY <1>0, <3>3 DEF RedisCard, SGoto
    <3>4. CASE RedisPurge(s) \/ RedisSweep(s) \/ RedisUnlink(s) \/ PgRead(s)
      BY <1>0, <3>4 DEF RedisPurge, RedisSweep, RedisUnlink, PgRead
    <3>. QED
      BY <1>5, <3>1, <3>2, <3>3, <3>4
  <2>3. NoWrite \/ Drop(st[s].stale)
    BY <1>5 DEF MemBegin, RedisRead, RedisPurge, RedisSweep, RedisCard, RedisUnlink, PgRead
  <2>4. st[s].stale \in SUBSET Keys
    BY <1>0 DEF StorerType
  <2>. QED
    BY <1>2, <1>4, <2>1, <2>2, <2>3, <2>4
<1>6. ASSUME NEW s \in Storers, RedisStore(s) PROVE EntryInv'
  <2>. DEFINE k == st[s].key
  <2>0. k \in Keys /\ entry[k].ver \in Nat /\ st[s].pc = "exec" /\ mbackend = "redis"
    BY <1>0, <1>6 DEF StorerType, EntryType, RedisStore, SAt
  <2>1. CASE NoWrite
    <3>1. \E p \in {"stored", "watch"} : st' = [st EXCEPT ![s].pc = p]
      BY <1>6 DEF RedisStore, SGoto
    <3>2. \A u \in Storers \ {s} : st'[u] = st[u]
      BY <1>0, <3>1
    <3>. QED
      BY <1>2, <1>4, <2>0, <2>1, <3>2
  <2>2. CASE ~NoWrite
    <3>1. Put({k}, [Gone EXCEPT ![k] = Successor(k, entry[k].ver)])
      BY <1>6, <2>2 DEF RedisStore
    <3>2. /\ {k} \in SUBSET Keys /\ k \in {k} /\ IsFiniteSet({k}) /\ (entry[k].ver > 0 => Live(k))
          /\ \A i, j \in {k} : i = j
      BY <2>0, FS_Singleton DEF Live
    <3>3. Grows({k})
      BY <2>0, <3>1, <3>2, WritesGrow
    <3>4. Stamped' /\ IsFiniteSet(LiveKeys')
      BY <3>2, <3>3, StampsKept DEF EntryInv
    <3>. QED
      BY <1>1, <2>0, <3>4 DEF EntryInv
  <2>. QED
    BY <2>1, <2>2
<1>7. ASSUME NEW k \in Keys, RedisMiss(k) \/ MemDelete(k) \/ MemEvict(k) PROVE EntryInv'
  <2>1. {k} \in SUBSET Keys /\ (NoWrite \/ Drop({k})) /\ st' = st
    BY <1>7 DEF RedisMiss, MemDelete, MemEvict
  <2>. QED
    BY <1>3, <1>4, <2>1
<1>8. ASSUME NEW k \in Keys, MemExpire(k) PROVE EntryInv'
  <2>1. PICK e \in EntryType : e = entry[k]
    BY <1>0
  <2>. DEFINE g == [e EXCEPT !.old = TRUE]
  <2>2. g \in EntryType /\ g.ver = e.ver /\ g.at = e.at /\ g.first = e.first
    BY DEF EntryType
  <2>3. entry' = [entry EXCEPT ![k] = g]
    BY <1>0, <1>8, <2>1 DEF MemExpire, EntryType
  <2>. HIDE DEF g
  <2>4. Grows({})
    BY <1>0, <1>8, <2>1, <2>2, <2>3 DEF MemExpire, Grows
  <2>. QED
    BY <1>1, <1>3, <1>8, <2>4, NothingGrows DEF MemExpire
<1>9. CASE RedisList \/ RedisClean \/ InMemoryPurge \/ PgPurge
  <2>1. {k \in Keys : entry[k].old} \in SUBSET Keys
    OBVIOUS
  <2>2. st' = st /\ (NoWrite \/ Drop(sweep.dels) \/ Drop({k \in Keys : entry[k].old}))
    BY <1>9 DEF RedisList, RedisClean, InMemoryPurge, PgPurge, PurgeOld
  <2>. QED
    BY <1>0, <1>3, <1>4, <2>1, <2>2
<1>. QED
  BY <1>5, <1>6, <1>7, <1>8, <1>9, InMemoryRoom, PgRoom DEF MemNext

\* Redis: what a storer popped and will unlink, and the keys that storers may write
\* although they are not in the index (yet).
Pops(x) == IF x.pc = "unlink" THEN x.stale ELSE {}
Claims(x) == IF x.pc = "exec" THEN {x.key} ELSE Pops(x)
Popping == UNION {Pops(st[s]) : s \in Storers}
Claimed == UNION {Claims(st[s]) : s \in Storers}

\* ZCARD counts the members, but a storer that has passed it will add one more: the
\* bound holds of the members and the claimed keys together.  A live entry is a
\* member, or popped and about to go, or was taken from the index by a late ZREM.
IndexInv ==
    mbackend = "redis" =>
        /\ IsFiniteSet(Members)
        /\ LiveKeys \subseteq Members \cup lost \cup Popping
        /\ Cardinality((Members \cup Claimed) \ lost) < MaxEntries + Cardinality(Storers)

\* A storer claims one key at a time.
LEMMA ClaimsOfStorers ==
    ASSUME IsFiniteSet(Storers), NEW u \in [Storers -> StorerType],
           \A s \in Storers : u[s].pc = "unlink" => \E v \in Keys : u[s].stale = {v},
           NEW K, K = UNION {Claims(u[s]) : s \in Storers}
    PROVE  /\ IsFiniteSet(K) /\ Cardinality(K) \in Nat /\ Cardinality(Storers) \in Nat
           /\ Cardinality(K) <= Cardinality(Storers)
<1>. DEFINE C == {s \in Storers : Claims(u[s]) # {}}
            f == [s \in C |-> CHOOSE k \in Keys : Claims(u[s]) = {k}]
<1>1. ASSUME NEW s \in C PROVE f[s] \in Keys /\ Claims(u[s]) = {f[s]}
  <2>1. u[s] \in StorerType
    OBVIOUS
  <2>2. \E k \in Keys : Claims(u[s]) = {k}
    BY <2>1 DEF Claims, Pops, StorerType
  <2>. QED
    BY <2>2
<1>. HIDE DEF f
<1>2. f \in [C -> K]
  <2>1. \A s \in C : f[s] \in K
    BY <1>1
  <2>. QED
    BY <2>1 DEF f
<1>3. \A k \in K : \E s \in C : f[s] = k
  <2>. SUFFICES ASSUME NEW k \in K PROVE \E s \in C : f[s] = k
    OBVIOUS
  <2>1. PICK s \in Storers : k \in Claims(u[s])
    OBVIOUS
  <2>2. s \in C
    BY <2>1
  <2>3. k = f[s]
    BY <1>1, <2>1, <2>2
  <2>. QED
    BY <2>2, <2>3
<1>4. f \in Surjection(C, K)
  BY <1>2, <1>3, Fun_IsSurj
<1>5. C \in SUBSET Storers /\ IsFiniteSet(Storers)
  OBVIOUS
<1>. HIDE DEF C
<1>6. IsFiniteSet(C) /\ Cardinality(C) <= Cardinality(Storers)
  BY <1>5, FS_Subset
<1>7. IsFiniteSet(K) /\ Cardinality(K) <= Cardinality(C)
  BY <1>4, <1>6, FS_Surjection
<1>8. Cardinality(K) \in Nat /\ Cardinality(C) \in Nat /\ Cardinality(Storers) \in Nat
  BY <1>5, <1>6, <1>7, FS_CardinalityType
<1>. QED
  BY <1>6, <1>7, <1>8

\* The same of the storers as they are.
LEMMA ClaimsAreFew ==
    ASSUME MemoryAssumption, MemInv
    PROVE  /\ IsFiniteSet(Claimed) /\ Cardinality(Claimed) \in Nat /\ Cardinality(Storers) \in Nat
           /\ Cardinality(Claimed) <= Cardinality(Storers)
<1>1. /\ IsFiniteSet(Storers) /\ st \in [Storers -> StorerType]
      /\ \A s \in Storers : st[s].pc = "unlink" => \E v \in Keys : st[s].stale = {v}
  BY MemTypes DEF MemInv, StorerSound
<1>2. Claimed = UNION {Claims(st[s]) : s \in Storers}
  BY DEF Claimed
<1>. QED
  BY <1>1, <1>2, ClaimsOfStorers

\* Steps that claim nothing new.
LEMMA IndexKept ==
    ASSUME MemoryAssumption, MemInv, IndexInv, mbackend = "redis", mbackend' = mbackend,
           lost \subseteq lost', Members' \subseteq Members \cup Claimed,
           Claimed' \subseteq Members \cup Claimed \cup lost,
           LiveKeys' \subseteq Members' \cup lost' \cup Popping'
    PROVE  IndexInv'
<1>. DEFINE A == Members \cup Claimed
            U == A \ lost
            V == (Members' \cup Claimed') \ lost'
<1>1. IsFiniteSet(Members) /\ IsFiniteSet(Claimed)
  BY ClaimsAreFew DEF IndexInv
<1>2. IsFiniteSet(A)
  BY <1>1, FS_Union
<1>3. Members' \in SUBSET A /\ U \in SUBSET A /\ V \in SUBSET U
  OBVIOUS
<1>. HIDE DEF A
<1>4. IsFiniteSet(Members') /\ IsFiniteSet(U)
  BY <1>2, <1>3, FS_Subset
<1>. HIDE DEF U, V
<1>5. IsFiniteSet(V) /\ Cardinality(V) <= Cardinality(U)
  BY <1>3, <1>4, FS_Subset
<1>6. Cardinality(V) \in Nat /\ Cardinality(U) \in Nat
  BY <1>4, <1>5, FS_CardinalityType
<1>7. Cardinality(U) < MaxEntries + Cardinality(Storers)
  BY DEF IndexInv, U, A
<1>8. Cardinality(V) < MaxEntries + Cardinality(Storers)
  BY <1>5, <1>6, <1>7, MemTypes, ClaimsAreFew
<1>. QED
  BY <1>4, <1>8 DEF IndexInv, V

\* The claims when one storer moves.
LEMMA ClaimsMove ==
    ASSUME st \in [Storers -> StorerType], NEW s \in Storers, NEW x, NEW y, y = st[s], st' = [st EXCEPT ![s] = x]
    PROVE  /\ Claimed' \subseteq Claimed \cup Claims(x)
           /\ Popping \subseteq Popping' \cup Pops(y)
           /\ Pops(x) \subseteq Popping'
           /\ Popping \subseteq Claimed /\ Claims(y) \subseteq Claimed
<1>1. st'[s] = x /\ \A u \in Storers \ {s} : st'[u] = st[u]
  OBVIOUS
<1>2. Claimed' = UNION {Claims(st'[u]) : u \in Storers} /\ Popping' = UNION {Pops(st'[u]) : u \in Storers}
  BY DEF Claimed, Popping, Claims, Pops
<1>3. \A u \in Storers : Pops(st[u]) \subseteq Claims(st[u])
  BY DEF Claims, Pops
<1>4. Claimed' \subseteq Claimed \cup Claims(x)
  BY <1>1, <1>2 DEF Claimed
<1>5. Popping \subseteq Popping' \cup Pops(y)
  BY <1>1, <1>2 DEF Popping
<1>6. Pops(x) \subseteq Popping'
  BY <1>1, <1>2
<1>7. Popping \subseteq Claimed /\ Claims(y) \subseteq Claimed
  BY <1>3 DEF Popping, Claimed
<1>. QED
  BY <1>4, <1>5, <1>6, <1>7

\* The live entries after a write.
LEMMA LiveMoves ==
    ASSUME MemoryAssumption, MemInv
    PROVE  /\ NoWrite => LiveKeys' = LiveKeys
           /\ \A K \in SUBSET Keys : Drop(K) => LiveKeys' = LiveKeys \ K
           /\ \A k \in Keys : \A v \in Nat :
                Put({k}, [Gone EXCEPT ![k] = Successor(k, v)]) => LiveKeys' \subseteq LiveKeys \cup {k}
<1>1. NoWrite => LiveKeys' = LiveKeys
  BY DEF NoWrite, LiveKeys, Live
<1>2. ASSUME NEW K \in SUBSET Keys, Drop(K) PROVE LiveKeys' = LiveKeys \ K
  <2>1. \A k \in Keys : entry'[k] = IF k \in K THEN NoEntry ELSE entry[k]
    BY <1>2 DEF Drop, Put, Gone
  <2>2. ~(NoEntry.ver > 0)
    BY DEF NoEntry
  <2>. QED
    BY <2>1, <2>2 DEF LiveKeys, Live
<1>3. ASSUME NEW k \in Keys, NEW v \in Nat, Put({k}, [Gone EXCEPT ![k] = Successor(k, v)])
      PROVE  LiveKeys' \subseteq LiveKeys \cup {k}
  <2>1. \A j \in Keys \ {k} : entry'[j] = entry[j]
    BY <1>3 DEF Put
  <2>. QED
    BY <2>1 DEF LiveKeys, Live
<1>. QED
  BY <1>1, <1>2, <1>3

\* The storers' steps keep the bound on the index.
LEMMA IndexStoreSteps ==
    ASSUME MemoryAssumption, MemInv, IndexInv, MemInv', mbackend = "redis", NEW s \in Storers,
           \/ \E k \in Keys : MemBegin(s, k)
           \/ RedisRead(s) \/ RedisPurge(s) \/ RedisSweep(s) \/ RedisCard(s) \/ RedisUnlink(s) \/ RedisStore(s)
    PROVE  IndexInv'
<1>0. /\ entry \in [Keys -> EntryType] /\ st \in [Storers -> StorerType] /\ score \in [Keys -> Nat]
      /\ StorerSound(st[s]) /\ clock \in Nat
  BY MemTypes DEF MemInv
<1>1. mbackend' = mbackend
  BY DEF MemBegin, RedisRead, RedisPurge, RedisSweep, RedisCard, RedisUnlink, RedisStore
<1>2. PICK y \in StorerType : y = st[s]
  BY <1>0
<1>3. LiveKeys \subseteq Members \cup lost \cup Popping /\ Members \in SUBSET Keys
  BY DEF IndexInv, Members
<1>4. ASSUME NEW x, st' = [st EXCEPT ![s] = x]
      PROVE  /\ Claimed' \subseteq Claimed \cup Claims(x)
             /\ Popping \subseteq Popping' \cup Pops(y)
             /\ Pops(x) \subseteq Popping'
             /\ Popping \subseteq Claimed /\ Claims(y) \subseteq Claimed
  BY <1>0, <1>2, <1>4, ClaimsMove
<1>5. ASSUME NEW k \in Keys, MemBegin(s, k) PROVE IndexInv'
  <2>1. PICK v \in {0, Visible(k)} :
          st' = [st EXCEPT ![s].pc = "watch", ![s].key = k, ![s].ver = v, ![s].tries = 0]
    BY <1>5 DEF MemBegin
  <2>. DEFINE x == [y EXCEPT !.pc = "watch", !.key = k, !.ver = v, !.tries = 0]
  <2>2. st' = [st EXCEPT ![s] = x]
    BY <1>0, <1>2, <2>1 DEF StorerType
  <2>3. Claims(x) = {} /\ Pops(y) = {}
    BY <1>2, <1>5 DEF Claims, Pops, MemBegin, StorerType
  <2>. HIDE DEF x
  <2>4. Claimed' \subseteq Claimed /\ Popping \subseteq Popping'
    BY <1>4, <2>2, <2>3
  <2>5. LiveKeys' = LiveKeys /\ Members' = Members /\ lost' = lost
    BY <1>5, LiveMoves DEF MemBegin, Members
  <2>. QED
    BY <1>1, <1>3, <2>4, <2>5, IndexKept
<1>6. CASE RedisRead(s)
  <2>. DEFINE k == st[s].key
  <2>1. LiveKeys' = LiveKeys /\ Members' = Members /\ lost' = lost /\ Pops(y) = {} /\ k \in Keys
    BY <1>0, <1>2, <1>6, LiveMoves DEF RedisRead, Members, Pops, SAt, StorerType
  <2>2. \E x : st' = [st EXCEPT ![s] = x] /\ Claims(x) \subseteq LiveKeys
    <3>1. CASE SGoto(s, "conflict")
      <4>1. st' = [st EXCEPT ![s] = [y EXCEPT !.pc = "conflict"]]
        BY <1>2, <3>1 DEF SGoto
      <4>2. Claims([y EXCEPT !.pc = "conflict"]) = {}
        BY DEF Claims, Pops, StorerType
      <4>. QED
        BY <4>1, <4>2
    <3>2. CASE ~SGoto(s, "conflict")
      <4>1. PICK p \in {"exec", "purge"} :
              /\ st' = [st EXCEPT ![s].pc = p, ![s].seen = changed[k], ![s].tries = st[s].tries + 1]
              /\ p = "exec" => Live(k)
        BY <1>6, <3>2 DEF RedisRead
      <4>. DEFINE x == [y EXCEPT !.pc = p, !.seen = changed[k], !.tries = y.tries + 1]
      <4>2. st' = [st EXCEPT ![s] = x]
        BY <1>0, <1>2, <4>1 DEF StorerType
      <4>3. x.pc = p /\ x.key = k
        BY <1>2 DEF StorerType
      <4>. HIDE DEF x
      <4>4. Claims(x) \subseteq LiveKeys
        BY <2>1, <4>1, <4>3 DEF Claims, Pops, LiveKeys
      <4>. QED
        BY <4>2, <4>4
    <3>. QED
      BY <3>1, <3>2
  <2>3. PICK x : st' = [st EXCEPT ![s] = x] /\ Claims(x) \subseteq LiveKeys
    BY <2>2
  <2>4. Claimed' \subseteq Claimed \cup LiveKeys /\ Popping \subseteq Popping' /\ Popping \subseteq Claimed
    BY <1>4, <2>1, <2>3
  <2>. QED
    BY <1>1, <1>3, <2>1, <2>4, IndexKept
<1>7. CASE RedisPurge(s) \/ RedisSweep(s) \/ RedisUnlink(s)
  <2>1. PICK p \in {"sweep", "card"}, T \in SUBSET Keys :
          st' = [st EXCEPT ![s].pc = p, ![s].stale = T]
    <3>1. Stale \in SUBSET Keys /\ {} \in SUBSET Keys
      BY DEF Stale, Members
    <3>2. CASE RedisPurge(s)
      <4>1. PICK p \in {"sweep", "card"} : st' = [st EXCEPT ![s].pc = p, ![s].stale = Stale]
        BY <3>2 DEF RedisPurge
      <4>. QED
        BY <3>1, <4>1
    <3>3. CASE RedisSweep(s) \/ RedisUnlink(s)
      BY <3>1, <3>3 DEF RedisSweep, RedisUnlink
    <3>. QED
      BY <1>7, <3>2, <3>3
  <2>. DEFINE x == [y EXCEPT !.pc = p, !.stale = T]
  <2>2. st' = [st EXCEPT ![s] = x]
    BY <1>0, <1>2, <2>1 DEF StorerType
  <2>3. Claims(x) = {}
    BY DEF Claims, Pops, StorerType
  <2>. HIDE DEF x
  <2>4. Claimed' \subseteq Claimed /\ Popping \subseteq Popping' \cup Pops(y)
    BY <1>4, <2>2, <2>3
  <2>5. y.stale \in SUBSET Keys
    BY DEF StorerType
  <2>6. CASE RedisPurge(s)
    <3>1. LiveKeys' = LiveKeys /\ Members' = Members /\ lost' = lost /\ Pops(y) = {}
      BY <1>2, <2>6, LiveMoves DEF RedisPurge, Members, Pops, SAt
    <3>. QED
      BY <1>1, <1>3, <2>4, <3>1, IndexKept
  <2>7. CASE RedisSweep(s)
    <3>1. Drop(y.stale) /\ score' = [k \in Keys |-> IF k \in y.stale THEN 0 ELSE score[k]] /\ Pops(y) = {}
          /\ lost' = lost
      BY <1>2, <2>7 DEF RedisSweep, SAt, Pops
    <3>2. LiveKeys' = LiveKeys \ y.stale
      BY <2>5, <3>1, LiveMoves
    <3>3. Members' = Members \ y.stale
      BY <1>0, <3>1 DEF Members
    <3>. QED
      BY <1>1, <1>3, <2>4, <3>1, <3>2, <3>3, IndexKept
  <2>8. CASE RedisUnlink(s)
    <3>1. Drop(y.stale) /\ score' = score /\ lost' = lost /\ Pops(y) = y.stale
      BY <1>2, <2>8 DEF RedisUnlink, SAt, Pops
    <3>2. LiveKeys' = LiveKeys \ y.stale
      BY <2>5, <3>1, LiveMoves
    <3>3. Members' = Members
      BY <3>1 DEF Members
    <3>. QED
      BY <1>1, <1>3, <2>4, <3>1, <3>2, <3>3, IndexKept
  <2>. QED
    BY <1>7, <2>6, <2>7, <2>8
<1>8. CASE RedisCard(s)
  <2>1. LiveKeys' = LiveKeys /\ Pops(y) = {}
    BY <1>2, <1>8, LiveMoves DEF RedisCard, SAt, Pops
  <2>2. CASE Cardinality(Members) >= MaxEntries
    <3>0. lost' = lost
      BY <1>8, <2>2 DEF RedisCard
    <3>1. PICK v \in Members : /\ score' = [score EXCEPT ![v] = 0]
                              /\ st' = [st EXCEPT ![s].pc = "unlink", ![s].stale = {v}]
      BY <1>8, <2>2, Popped DEF RedisCard
    <3>. DEFINE x == [y EXCEPT !.pc = "unlink", !.stale = {v}]
    <3>2. st' = [st EXCEPT ![s] = x]
      BY <1>0, <1>2, <3>1 DEF StorerType
    <3>3. Claims(x) = {v} /\ Pops(x) = {v}
      BY DEF Claims, Pops, StorerType
    <3>. HIDE DEF x
    <3>4. Claimed' \subseteq Claimed \cup {v} /\ Popping \subseteq Popping' /\ v \in Popping'
      BY <1>4, <2>1, <3>2, <3>3
    <3>5. Members' = Members \ {v}
      BY <1>0, <3>1 DEF Members
    <3>. QED
      BY <1>1, <1>3, <2>1, <3>0, <3>4, <3>5, IndexKept
  <2>3. CASE ~(Cardinality(Members) >= MaxEntries)
    <3>1. Members' = Members /\ SGoto(s, IF st[s].ver = 0 THEN "exec" ELSE "conflict")
      BY <1>8, <2>3 DEF RedisCard, Members
    <3>2. PICK p \in {"exec", "conflict"} : st' = [st EXCEPT ![s].pc = p]
      BY <3>1 DEF SGoto
    <3>3. st' = [st EXCEPT ![s] = [y EXCEPT !.pc = p]]
      BY <1>2, <3>2
    <3>4. Popping \subseteq Popping'
      BY <1>4, <2>1, <3>3
    <3>. DEFINE A == Members \cup Claimed'
                V == A \ lost'
    <3>5. IsFiniteSet(Members) /\ Cardinality(Members) \in Nat
      BY FS_CardinalityType DEF IndexInv
    <3>6. /\ IsFiniteSet(Claimed') /\ Cardinality(Claimed') \in Nat /\ Cardinality(Storers) \in Nat
          /\ Cardinality(Claimed') <= Cardinality(Storers)
      <4>1. /\ IsFiniteSet(Storers) /\ st' \in [Storers -> StorerType]
            /\ \A u \in Storers : st'[u].pc = "unlink" => \E v \in Keys : st'[u].stale = {v}
        BY MemTypes DEF MemInv, MemTypeOK, StorerSound, StorerType
      <4>2. Claimed' = UNION {Claims(st'[u]) : u \in Storers}
        BY DEF Claimed, Claims, Pops
      <4>. QED
        BY <4>1, <4>2, ClaimsOfStorers
    <3>7. IsFiniteSet(A) /\ Cardinality(A) <= Cardinality(Members) + Cardinality(Claimed')
      <4>1. /\ IsFiniteSet(A)
            /\ Cardinality(A) = Cardinality(Members) + Cardinality(Claimed') - Cardinality(Members \cap Claimed')
        BY <3>5, <3>6, FS_Union
      <4>2. Members \cap Claimed' \in SUBSET Members
        OBVIOUS
      <4>3. Cardinality(Members \cap Claimed') \in Nat
        BY <3>5, <4>2, FS_Subset, FS_CardinalityType
      <4>. HIDE DEF A
      <4>. QED
        BY <3>5, <3>6, <4>1, <4>3
    <3>8. V \in SUBSET A
      OBVIOUS
    <3>. HIDE DEF A, V
    <3>9. Cardinality(V) <= Cardinality(A) /\ Cardinality(V) \in Nat /\ Cardinality(A) \in Nat
      BY <3>7, <3>8, FS_Subset, FS_CardinalityType
    <3>10. Cardinality(V) < MaxEntries + Cardinality(Storers)
      BY <2>3, <3>5, <3>6, <3>7, <3>9, MemTypes
    <3>11. V = (Members' \cup Claimed') \ lost'
      BY <1>1, <3>1 DEF V, A
    <3>12. Cardinality((Members' \cup Claimed') \ lost') < MaxEntries + Cardinality(Storers)
      BY <3>10, <3>11, Zenon
    <3>13. IsFiniteSet(Members')
      BY <3>1, <3>5, Zenon
    <3>14. LiveKeys' \subseteq Members' \cup lost' \cup Popping'
      <4>1. lost' = {k \in lost \ Members : Live(k)}
        BY <1>8, <2>3 DEF RedisCard
      <4>. QED
        BY <1>3, <2>1, <3>1, <3>4, <4>1 DEF LiveKeys
    <3>. QED
      BY <3>12, <3>13, <3>14 DEF IndexInv
  <2>. QED
    BY <2>2, <2>3
<1>9. CASE RedisStore(s)
  <2>. DEFINE k == st[s].key
  <2>0. y.pc = "exec" /\ y.key = k /\ k \in Keys /\ entry[k].ver \in Nat
    BY <1>0, <1>2, <1>9 DEF RedisStore, SAt, StorerType, EntryType
  <2>1. PICK p \in {"stored", "watch"} : st' = [st EXCEPT ![s].pc = p]
    BY <1>9 DEF RedisStore, SGoto
  <2>. DEFINE x == [y EXCEPT !.pc = p]
  <2>2. st' = [st EXCEPT ![s] = x]
    BY <1>2, <2>1
  <2>3. Claims(x) = {} /\ Pops(y) = {} /\ Claims(y) = {k}
    BY <2>0 DEF Claims, Pops, StorerType
  <2>. HIDE DEF x
  <2>4. Claimed' \subseteq Claimed /\ Popping \subseteq Popping' /\ k \in Claimed
    BY <1>4, <2>2, <2>3
  <2>9. lost' = lost
    BY <1>9 DEF RedisStore
  <2>5. CASE changed[k] = st[s].seen
    <3>1. Put({k}, [Gone EXCEPT ![k] = Successor(k, entry[k].ver)]) /\ score' = [score EXCEPT ![k] = clock + 1]
      BY <1>9, <2>5 DEF RedisStore
    <3>2. LiveKeys' \subseteq LiveKeys \cup {k}
      BY <2>0, <3>1, LiveMoves
    <3>3. Members' = Members \cup {k}
      BY <1>0, <2>0, <3>1 DEF Members
    <3>. QED
      BY <1>1, <1>3, <2>4, <2>9, <3>2, <3>3, IndexKept
  <2>6. CASE changed[k] # st[s].seen
    <3>1. NoWrite /\ score' = score
      BY <1>9, <2>6 DEF RedisStore
    <3>2. LiveKeys' = LiveKeys /\ Members' = Members
      BY <3>1, LiveMoves DEF Members
    <3>. QED
      BY <1>1, <1>3, <2>4, <2>9, <3>2, IndexKept
  <2>. QED
    BY <2>5, <2>6
<1>. QED
  BY <1>5, <1>6, <1>7, <1>8, <1>9

\* The other steps keep it: what they take from the index is dropped, or lost.
LEMMA IndexOtherSteps ==
    ASSUME MemoryAssumption, MemInv, IndexInv, mbackend = "redis",
           \/ \E k \in Keys : RedisMiss(k) \/ MemDelete(k) \/ MemExpire(k) \/ MemEvict(k)
           \/ RedisList \/ RedisClean
    PROVE  IndexInv'
<1>0. /\ entry \in [Keys -> EntryType] /\ score \in [Keys -> Nat]
      /\ sweep.dels \in SUBSET Keys /\ sweep.zrems \in SUBSET Keys
  BY MemTypes DEF MemInv, MemTypeOK
<1>1. mbackend' = mbackend /\ st' = st
  BY DEF RedisMiss, MemDelete, MemExpire, MemEvict, RedisList, RedisClean
<1>2. Claimed' = Claimed /\ Popping' = Popping
  BY <1>1 DEF Claimed, Popping, Claims, Pops
<1>3. LiveKeys \subseteq Members \cup lost \cup Popping
  BY DEF IndexInv
<1>4. ASSUME LiveKeys' \subseteq LiveKeys, score' = score, lost' = lost PROVE IndexInv'
  <2>1. Members' = Members
    BY <1>4 DEF Members
  <2>. QED
    BY <1>1, <1>2, <1>3, <1>4, <2>1, IndexKept
<1>5. ASSUME NEW k \in Keys, RedisMiss(k) \/ MemEvict(k) PROVE IndexInv'
  <2>1. {k} \in SUBSET Keys /\ score' = score /\ lost' = lost /\ (NoWrite \/ Drop({k}))
    BY <1>5 DEF RedisMiss, MemEvict
  <2>2. LiveKeys' \subseteq LiveKeys
    BY <2>1, LiveMoves
  <2>. QED
    BY <1>4, <2>1, <2>2
<1>6. ASSUME NEW k \in Keys, MemExpire(k) PROVE IndexInv'
  <2>1. \A j \in Keys : entry'[j].ver = entry[j].ver
    BY <1>0, <1>6 DEF MemExpire, EntryType
  <2>2. LiveKeys' \subseteq LiveKeys
    BY <2>1 DEF LiveKeys, Live
  <2>. QED
    BY <1>4, <1>6, <2>2 DEF MemExpire
<1>7. CASE RedisList
  <2>1. LiveKeys' \subseteq LiveKeys /\ score' = score /\ lost' = lost
    BY <1>7, LiveMoves DEF RedisList
  <2>. QED
    BY <1>4, <2>1
<1>8. ASSUME NEW k \in Keys, MemDelete(k) PROVE IndexInv'
  <2>1. {k} \in SUBSET Keys /\ score' = [score EXCEPT ![k] = 0] /\ lost' = lost /\ Drop({k})
    BY <1>8 DEF MemDelete
  <2>2. LiveKeys' = LiveKeys \ {k}
    BY <2>1, LiveMoves
  <2>3. Members' = Members \ {k}
    BY <1>0, <2>1 DEF Members
  <2>. QED
    BY <1>1, <1>2, <1>3, <2>1, <2>2, <2>3, IndexKept
<1>9. CASE RedisClean
  <2>1. LiveKeys' = LiveKeys \ sweep.dels
    <3>1. CASE sweep.dels = {}
      <4>1. NoWrite
        BY <1>9, <3>1 DEF RedisClean
      <4>. QED
        BY <3>1, <4>1, LiveMoves
    <3>2. CASE sweep.dels # {}
      <4>1. Drop(sweep.dels)
        BY <1>9, <3>2 DEF RedisClean
      <4>. QED
        BY <1>0, <4>1, LiveMoves
    <3>. QED
      BY <3>1, <3>2
  <2>2. Members' = Members \ (sweep.dels \cup sweep.zrems)
    BY <1>0, <1>9 DEF RedisClean, Members
  <2>3. lost \subseteq lost' /\ \A k \in sweep.zrems : k \in LiveKeys => k \in lost'
    BY <1>9 DEF RedisClean, LiveKeys
  <2>4. LiveKeys' \subseteq Members' \cup lost' \cup Popping'
    BY <1>2, <1>3, <2>1, <2>2, <2>3
  <2>. QED
    BY <1>1, <1>2, <2>2, <2>3, <2>4, IndexKept
<1>. QED
  BY <1>5, <1>6, <1>7, <1>8, <1>9

\* The memory policy holds for any number of keys and storers, however their commands
\* interleave (MemoryBounded): in process there are never more than max_entries, on
\* PostgreSQL as many more as DELETEs are still to come, and the Redis index stays
\* below max_entries plus the number of storers, but for keys a late ZREM took from it
\* (memory/*.py store, _evict_if_full, _purge_stale).
THEOREM MemoryIsBounded == MemSpec => []MemoryBounded
<1>. USE MemoryAssumption
<1>1. MemInit => EntryInv /\ IndexInv
  <2>. SUFFICES ASSUME MemInit PROVE EntryInv /\ IndexInv
    OBVIOUS
  <2>1. MemInv
    BY MemStart
  <2>2. LiveKeys = {} /\ Members = {} /\ Stamped
    BY DEF MemInit, LiveKeys, Live, Members, NoEntry, Stamped
  <2>3. Claimed = {}
    BY DEF MemInit, Claimed, Claims, Pops
  <2>4. IsFiniteSet({}) /\ Cardinality({}) = 0 /\ Cardinality(Trimming) \in Nat /\ Cardinality(Storers) \in Nat
        /\ MaxEntries \in Nat /\ MaxEntries > 0
    <3>1. Trimming \in SUBSET Storers /\ IsFiniteSet(Storers)
      BY <2>1, MemTypes DEF Trimming
    <3>2. IsFiniteSet(Trimming)
      BY <3>1, FS_Subset
    <3>. QED
      BY <2>1, <3>1, <3>2, FS_EmptySet, FS_CardinalityType, MemTypes
  <2>5. (Members \cup Claimed) \ lost = {}
    BY <2>2, <2>3
  <2>6. /\ IsFiniteSet(LiveKeys) /\ Cardinality(LiveKeys) = 0 /\ IsFiniteSet(Members)
        /\ Cardinality((Members \cup Claimed) \ lost) = 0
    BY <2>2, <2>4, <2>5, Zenon
  <2>. QED
    BY <2>2, <2>4, <2>6 DEF EntryInv, IndexInv
<1>2. MemInv /\ MemInv' /\ EntryInv /\ IndexInv /\ [MemNext]_mvars => EntryInv' /\ IndexInv'
  <2>. SUFFICES ASSUME MemInv, MemInv', EntryInv, IndexInv, [MemNext]_mvars PROVE EntryInv' /\ IndexInv'
    OBVIOUS
  <2>1. CASE UNCHANGED mvars
    <3>1. Stamped' = Stamped /\ LiveKeys' = LiveKeys /\ Trimming' = Trimming /\ Members' = Members
          /\ Claimed' = Claimed /\ Popping' = Popping
      BY <2>1 DEF mvars, Stamped, LiveKeys, Live, Trimming, SAt, Members, Claimed, Popping, Claims, Pops
    <3>2. UNCHANGED <<lost, mbackend>>
      BY <2>1 DEF mvars
    <3>. QED
      BY <3>1, <3>2 DEF EntryInv, IndexInv
  <2>2. CASE MemNext
    <3>1. EntryInv'
      BY <2>2, EntrySteps
    <3>2. IndexInv'
      <4>1. CASE mbackend # "redis"
        <5>1. mbackend' = mbackend
          BY <2>2 DEF MemNext, MemBegin, InMemoryStore, RedisRead, RedisPurge, RedisSweep, RedisCard,
             RedisUnlink, RedisStore, PgRead, PgStore, PgTrim, RedisMiss, MemDelete, MemExpire, MemEvict,
             RedisList, RedisClean, InMemoryPurge, PgPurge, PurgeOld
        <5>. QED
          BY <4>1, <5>1 DEF IndexInv
      <4>2. CASE mbackend = "redis"
        <5>1. ~InMemoryPurge /\ ~PgPurge
          BY <4>2 DEF InMemoryPurge, PgPurge
        <5>2. ASSUME NEW s \in Storers PROVE ~InMemoryStore(s) /\ ~PgRead(s) /\ ~PgStore(s) /\ ~PgTrim(s)
          BY <4>2 DEF InMemoryStore, PgRead, PgStore, PgTrim, SAt, MemInv, StorerSound
        <5>. QED
          BY <2>2, <4>2, <5>1, <5>2, IndexStoreSteps, IndexOtherSteps DEF MemNext
      <4>. QED
        BY <4>1, <4>2
    <3>. QED
      BY <3>1, <3>2
  <2>. QED
    BY <2>1, <2>2
<1>3. MemInv /\ EntryInv /\ IndexInv => MemoryBounded
  <2>. SUFFICES ASSUME MemInv, EntryInv, IndexInv PROVE MemoryBounded
    OBVIOUS
  <2>1. mbackend = "redis" => Cardinality(Members \ lost) < MaxEntries + Cardinality(Storers)
    <3>. SUFFICES ASSUME mbackend = "redis" PROVE Cardinality(Members \ lost) < MaxEntries + Cardinality(Storers)
      OBVIOUS
    <3>. DEFINE U == (Members \cup Claimed) \ lost
                M == Members \ lost
    <3>1. IsFiniteSet(Members \cup Claimed)
      BY ClaimsAreFew, FS_Union DEF IndexInv
    <3>2. U \in SUBSET (Members \cup Claimed) /\ M \in SUBSET U
      OBVIOUS
    <3>3. Cardinality(U) < MaxEntries + Cardinality(Storers)
      BY DEF IndexInv
    <3>. HIDE DEF U, M
    <3>4. IsFiniteSet(U)
      BY <3>1, <3>2, FS_Subset
    <3>5. IsFiniteSet(M) /\ Cardinality(M) <= Cardinality(U)
      BY <3>2, <3>4, FS_Subset
    <3>6. Cardinality(M) \in Nat /\ Cardinality(U) \in Nat
      BY <3>4, <3>5, FS_CardinalityType
    <3>7. Cardinality(M) < MaxEntries + Cardinality(Storers)
      BY <3>3, <3>5, <3>6, MemTypes, ClaimsAreFew
    <3>. QED
      BY <3>7 DEF M
  <2>2. mbackend \in {"memory", "redis", "postgres"} /\ MemTypeOK
    BY DEF MemInv, MemTypeOK, MemoryAssumption
  <2>3. LiveKeys = {k \in Keys : Live(k)} /\ Trimming = {s \in Storers : SAt(s, "trim")}
    BY DEF LiveKeys, Trimming
  <2>4. WithinPolicy
    <3>1. CASE mbackend = "memory"
      BY <3>1, <2>3 DEF WithinPolicy, EntryInv, LiveKeys
    <3>2. CASE mbackend = "postgres"
      BY <3>2, <2>3 DEF WithinPolicy, EntryInv, LiveKeys, Trimming
    <3>3. CASE mbackend = "redis"
      BY <3>3, <2>1 DEF WithinPolicy
    <3>. QED
      BY <2>2, <3>1, <3>2, <3>3
  <2>. QED
    BY <2>2, <2>4 DEF MemoryBounded
<1>. QED
  BY <1>1, <1>2, <1>3, MemoryInvariant, PTL DEF MemSpec
=============================================================================
