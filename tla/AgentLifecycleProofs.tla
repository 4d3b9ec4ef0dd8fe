------------------------ MODULE AgentLifecycleProofs ------------------------
(***************************************************************************)
(* Proofs about AgentLifecycle for every set of callers and stoppers and   *)
(* every limit: LifecycleInv is inductive, the safety properties follow    *)
(* from it, and DefaultMicroAgent implements DrainingService.              *)
(***************************************************************************)
EXTENDS AgentLifecycle, FiniteSetTheorems, TLAPS

-----------------------------------------------------------------------------
(* Counting the invocations in flight. *)

\* Finitely many tasks call invoke(), so those in flight can be counted and
\* the count is zero exactly when there is none.
LEMMA InFlightFinite ==
    /\ IsFiniteSet(InFlight)
    /\ Cardinality(InFlight) \in Nat
    /\ Cardinality(InFlight) = 0 <=> InFlight = {}
<1>1. InFlight \subseteq Callers
  BY DEF InFlight
<1>2. IsFiniteSet(InFlight)
  BY <1>1, ConstantsAssumption, FS_Subset DEF ConstantsAssumption
<1>. QED
  BY <1>2, FS_CardinalityType, FS_EmptySet

\* The admission block adds exactly the admitted task.
LEMMA AdmitMoves ==
    ASSUME TypeOK, NEW c \in Callers, pc[c] \notin {"running", "cancelling"}, Admit(c)
    PROVE  /\ c \notin InFlight
           /\ InFlight' = InFlight \cup {c}
           /\ Cardinality(InFlight') = Cardinality(InFlight) + 1
<1>1. c \notin InFlight /\ InFlight' = InFlight \cup {c}
  BY DEF TypeOK, InFlight, Admit
<1>. QED
  BY <1>1, InFlightFinite, FS_AddElement

\* A refused caller, or one that starts to wait, is not in the runtime.
LEMMA OutsideMoves ==
    ASSUME TypeOK, NEW c \in Callers, pc[c] \notin {"running", "cancelling"},
           NEW p \in {"waiting", "refused"}, pc' = [pc EXCEPT ![c] = p]
    PROVE  InFlight' = InFlight
  BY DEF TypeOK, InFlight

\* Waking the waiters moves nobody into or out of the runtime.
LEMMA NotifyMoves ==
    ASSUME TypeOK, pc' = NotifyAll(pc)
    PROVE  /\ InFlight' = InFlight
           /\ pc' \in [Callers -> CallerPc]
           /\ \A c \in Callers : pc'[c] # "waiting"
  BY DEF TypeOK, InFlight, NotifyAll, CallerPc

\* The finally block removes exactly the finished task and wakes the waiters.
LEMMA FinishMoves ==
    ASSUME TypeOK, NEW c \in Callers, Finish(c)
    PROVE  /\ c \in InFlight
           /\ InFlight' = InFlight \ {c}
           /\ Cardinality(InFlight') = Cardinality(InFlight) - 1
           /\ pc' \in [Callers -> CallerPc]
           /\ \A d \in Callers : pc'[d] # "waiting"
<1>1. c \in InFlight /\ InFlight' = InFlight \ {c}
  BY DEF TypeOK, InFlight, Finish, NotifyAll
<1>2. pc' \in [Callers -> CallerPc] /\ \A d \in Callers : pc'[d] # "waiting"
  BY DEF TypeOK, Finish, NotifyAll, CallerPc
<1>. QED
  BY <1>1, <1>2, InFlightFinite, FS_RemoveElement

\* Cancelling the tasks in flight leaves them in the runtime until they unwind.
LEMMA CancelMoves ==
    ASSUME TypeOK, AccountingExact, NEW s \in Stoppers, DrainTimeout(s)
    PROVE  /\ InFlight' = InFlight
           /\ pc' \in [Callers -> CallerPc]
           /\ \A c \in Callers : pc'[c] = "waiting" => pc[c] = "waiting"
  BY DEF TypeOK, AccountingExact, InFlight, DrainTimeout, CallerPc

-----------------------------------------------------------------------------
(* One lemma per kind of step. *)

\* The agent is built with no invocation, an idle event and no handle.
LEMMA InitHolds == Init => LifecycleInv
<1>. SUFFICES ASSUME Init PROVE LifecycleInv
  OBVIOUS
<1>1. InFlight = {}
  BY DEF Init, InFlight
<1>2. Cardinality(InFlight) = 0
  BY <1>1, FS_EmptySet
<1>3. handle \in BOOLEAN /\ idle \in BOOLEAN /\ stopComplete \in BOOLEAN
  BY Zenon DEF Init
<1>4. TypeOK
  BY <1>3 DEF Init, TypeOK, AgentState, CallerPc, StopperPc
<1>. QED
  BY <1>1, <1>2, <1>4, ConstantsAssumption
  DEF Init, LifecycleInv, AccountingExact, NoLostWakeup, CapacityRespected,
      DrainedBeforeClose, OneStopper, LockInv, HandleInv, QuietInv, ConstantsAssumption

\* A step that leaves the callers, the counters and the events alone keeps
\* the accounting and the capacity parts of the invariant.
LEMMA CallersAlone ==
    ASSUME LifecycleInv, UNCHANGED <<active, tasks, idle, pc>>
    PROVE  /\ InFlight' = InFlight
           /\ AccountingExact' /\ NoLostWakeup' /\ CapacityRespected'
<1>1. InFlight' = InFlight
  BY DEF InFlight
<1>. QED
  BY <1>1 DEF LifecycleInv, AccountingExact, NoLostWakeup, CapacityRespected, Full

\* initialize() and start() run before the first invocation is admitted.
LEMMA LifecycleStepHolds ==
    ASSUME LifecycleInv, LifecycleStep
    PROVE  LifecycleInv'
<1>1. UNCHANGED <<active, tasks, idle, pc, spc, stopComplete, victims, policy>>
  BY DEF LifecycleStep, InitializeBegin, InitializeEnd, StartBegin, StartEnd
<1>2. InFlight' = InFlight /\ AccountingExact' /\ NoLostWakeup' /\ CapacityRespected'
  BY <1>1, CallersAlone
<1>3. CASE InitializeBegin
  BY <1>1, <1>2, <1>3
  DEF InitializeBegin, LifecycleInv, TypeOK, DrainedBeforeClose, OneStopper,
      LockInv, HandleInv, QuietInv
<1>4. ASSUME NEW ok \in BOOLEAN, InitializeEnd(ok) PROVE LifecycleInv'
  BY <1>1, <1>2, <1>4
  DEF InitializeEnd, LifecycleInv, TypeOK, DrainedBeforeClose, OneStopper,
      LockInv, HandleInv, QuietInv, AgentState
<1>5. CASE StartBegin
  BY <1>1, <1>2, <1>5
  DEF StartBegin, LifecycleInv, TypeOK, DrainedBeforeClose, OneStopper,
      LockInv, HandleInv, QuietInv, AgentState
<1>6. ASSUME NEW outcome \in {"ok", "exception", "cancelled"}, StartEnd(outcome)
      PROVE  LifecycleInv'
  BY <1>1, <1>2, <1>6
  DEF StartEnd, LifecycleInv, TypeOK, DrainedBeforeClose, OneStopper,
      LockInv, HandleInv, QuietInv, AgentState
<1>. QED
  BY <1>3, <1>4, <1>5, <1>6 DEF LifecycleStep

\* The admission block keeps the invariant: it counts whom it admits, admits
\* only below the limit and only while READY, and queues only at the limit.
LEMMA AdmissionHolds ==
    ASSUME LifecycleInv, NEW c \in Callers, pc[c] \notin {"running", "cancelling"},
           Admission(c), UNCHANGED <<state, lock, handle, stopComplete, spc, victims, policy>>
    PROVE  LifecycleInv'
<1>. USE DEF LifecycleInv
<1>1. CASE UNCHANGED <<active, tasks, idle>> /\ pc' = [pc EXCEPT ![c] = "refused"]
  <2>1. InFlight' = InFlight
    BY <1>1, OutsideMoves
  <2>2. TypeOK' /\ NoLostWakeup'
    BY <1>1 DEF TypeOK, NoLostWakeup, CallerPc, Full
  <2>. QED
    BY <1>1, <2>1, <2>2
    DEF AccountingExact, CapacityRespected, DrainedBeforeClose, OneStopper,
        LockInv, HandleInv, QuietInv
<1>2. CASE Full /\ UNCHANGED <<active, tasks, idle>> /\ pc' = [pc EXCEPT ![c] = "waiting"]
  <2>1. InFlight' = InFlight
    BY <1>2, OutsideMoves
  <2>2. TypeOK' /\ NoLostWakeup'
    BY <1>2 DEF TypeOK, NoLostWakeup, CallerPc, Full
  <2>. QED
    BY <1>2, <2>1, <2>2
    DEF AccountingExact, CapacityRespected, DrainedBeforeClose, OneStopper,
        LockInv, HandleInv, QuietInv
<1>3. CASE ~Full /\ state = "ready" /\ Admit(c)
  <2>1. /\ InFlight' = InFlight \cup {c}
        /\ Cardinality(InFlight') = Cardinality(InFlight) + 1
        /\ Cardinality(InFlight) \in Nat
    BY <1>3, AdmitMoves, InFlightFinite
  <2>0. idle' \in BOOLEAN
    BY <1>3, Zenon DEF Admit
  <2>2. TypeOK'
    BY <1>3, <2>0 DEF TypeOK, Admit, CallerPc
  <2>3. AccountingExact' /\ CapacityRespected'
    BY <1>3, <2>1, ConstantsAssumption
    DEF AccountingExact, CapacityRespected, Admit, Full, ConstantsAssumption
  <2>4. NoLostWakeup'
    BY <1>3 DEF NoLostWakeup, Admit, Full, TypeOK
  <2>5. \A s \in Stoppers : spc[s] \notin {"joining", "draining", "gathering", "closing",
                                           "returned", "failed", "shutdown"}
    BY <1>3 DEF OneStopper, QuietInv
  <2>. QED
    BY <1>3, <2>2, <2>3, <2>4, <2>5
    DEF DrainedBeforeClose, OneStopper, LockInv, HandleInv, QuietInv
<1>. QED
  BY <1>1, <1>2, <1>3 DEF Admission, Refuse

\* Every step of invoke() or stream() keeps the invariant.
LEMMA CallerStepHolds ==
    ASSUME LifecycleInv, NEW c \in Callers, CallerStep(c)
    PROVE  LifecycleInv'
<1>1. CASE Invoke(c)
  BY <1>1, AdmissionHolds DEF Invoke, Outside
<1>2. CASE Resume(c)
  BY <1>2, AdmissionHolds DEF Resume
<1>3. CASE AbandonWait(c)
  <2>1. InFlight' = InFlight
    BY <1>3, OutsideMoves DEF AbandonWait, Refuse, LifecycleInv
  <2>2. TypeOK' /\ NoLostWakeup'
    BY <1>3 DEF AbandonWait, Refuse, LifecycleInv, TypeOK, NoLostWakeup, CallerPc, Full
  <2>. QED
    BY <1>3, <2>1, <2>2
    DEF AbandonWait, Refuse, LifecycleInv, AccountingExact, CapacityRespected,
        DrainedBeforeClose, OneStopper, LockInv, HandleInv, QuietInv
<1>4. CASE Finish(c)
  <2>1. /\ c \in InFlight
        /\ InFlight' = InFlight \ {c}
        /\ Cardinality(InFlight') = Cardinality(InFlight) - 1
        /\ pc' \in [Callers -> CallerPc]
        /\ \A d \in Callers : pc'[d] # "waiting"
    BY <1>4, FinishMoves DEF LifecycleInv
  <2>2. /\ Cardinality(InFlight) \in Nat
        /\ Cardinality(InFlight') \in Nat
        /\ Cardinality(InFlight') = 0 <=> InFlight' = {}
    <3>1. IsFiniteSet(InFlight')
      BY <2>1, InFlightFinite, FS_RemoveElement
    <3>. QED
      BY <3>1, InFlightFinite, FS_EmptySet, FS_CardinalityType
  <2>0. idle' \in BOOLEAN
    BY <1>4, Zenon DEF Finish, LifecycleInv, TypeOK
  <2>3. TypeOK' /\ NoLostWakeup'
    <3>1. /\ tasks' \in SUBSET Callers
          /\ UNCHANGED <<state, lock, handle, stopComplete, spc, victims, policy>>
      BY <1>4 DEF Finish, LifecycleInv, TypeOK
    <3>2. active' \in Nat
      BY <1>4, <2>1, <2>2 DEF Finish, LifecycleInv, AccountingExact
    <3>. QED
      BY <2>0, <2>1, <3>1, <3>2 DEF LifecycleInv, TypeOK, NoLostWakeup
  <2>4. AccountingExact' /\ CapacityRespected'
    BY <1>4, <2>1, <2>2, ConstantsAssumption
    DEF Finish, LifecycleInv, TypeOK, AccountingExact, CapacityRespected, ConstantsAssumption
  <2>. QED
    BY <1>4, <2>1, <2>3, <2>4
    DEF Finish, LifecycleInv, DrainedBeforeClose, OneStopper, LockInv, HandleInv, QuietInv
<1>. QED
  BY <1>1, <1>2, <1>3, <1>4 DEF CallerStep

\* Every step of stop() or shutdown() keeps the invariant: one drain at a
\* time, closed only when idle, handle released only when quiet.
LEMMA StopperStepHolds ==
    ASSUME LifecycleInv, NEW s \in Stoppers, StopperStep(s)
    PROVE  LifecycleInv'
<1>1. CASE Stop(s)
  <2>1. UNCHANGED <<lock, handle, active, tasks, idle, victims, policy>>
    BY <1>1 DEF Stop
  <2>2. /\ InFlight' = InFlight
        /\ pc' \in [Callers -> CallerPc]
        /\ \A c \in Callers : pc'[c] = "waiting" => pc[c] = "waiting"
    <3>1. CASE pc' = pc
      BY <3>1 DEF InFlight, LifecycleInv, TypeOK
    <3>2. CASE pc' = NotifyAll(pc)
      BY <3>2, NotifyMoves DEF LifecycleInv
    <3>. QED
      BY <1>1, <3>1, <3>2 DEF Stop
  <2>3. AccountingExact' /\ NoLostWakeup' /\ CapacityRespected'
    BY <2>1, <2>2
    DEF LifecycleInv, AccountingExact, NoLostWakeup, CapacityRespected, Full
  <2>4. CASE state = "stopped" /\ spc' = [spc EXCEPT ![s] = "returned"]
             /\ UNCHANGED <<state, stopComplete>>
    BY <2>1, <2>2, <2>3, <2>4
    DEF LifecycleInv, TypeOK, DrainedBeforeClose, OneStopper, LockInv, HandleInv,
        QuietInv, StopperPc
  <2>5. CASE state = "stopping" /\ spc' = [spc EXCEPT ![s] = "joining"]
             /\ UNCHANGED <<state, stopComplete>>
    BY <2>1, <2>2, <2>3, <2>5
    DEF LifecycleInv, TypeOK, DrainedBeforeClose, OneStopper, LockInv, HandleInv,
        QuietInv, StopperPc
  <2>6. CASE /\ lock = "free"
             /\ state \notin {"created", "stopped", "stopping"}
             /\ state' = "stopping"
             /\ stopComplete' = FALSE
             /\ spc' = [spc EXCEPT ![s] = "draining"]
    <3>1. stopComplete' \in BOOLEAN /\ ~stopComplete'
      BY <2>6, Zenon
    <3>2. TypeOK'
      BY <2>1, <2>2, <2>6, <3>1 DEF LifecycleInv, TypeOK, StopperPc, AgentState
    <3>. QED
      BY <2>1, <2>2, <2>3, <2>6, <3>1, <3>2
      DEF LifecycleInv, TypeOK, DrainedBeforeClose, OneStopper, LockInv, HandleInv, QuietInv
  <2>. QED
    BY <1>1, <2>4, <2>5, <2>6 DEF Stop, LifecycleInv, QuietInv
<1>2. CASE Drained(s)
  <2>1. UNCHANGED <<state, lock, handle, active, tasks, idle, stopComplete, pc, victims, policy>>
    BY <1>2 DEF Drained
  <2>2. InFlight' = InFlight /\ AccountingExact' /\ NoLostWakeup' /\ CapacityRespected'
    BY <2>1, CallersAlone
  <2>. QED
    BY <1>2, <2>1, <2>2
    DEF Drained, LifecycleInv, TypeOK, AccountingExact, DrainedBeforeClose, OneStopper,
        LockInv, HandleInv, QuietInv, StopperPc
<1>3. CASE DrainTimeout(s)
  <2>1. /\ InFlight' = InFlight
        /\ pc' \in [Callers -> CallerPc]
        /\ \A c \in Callers : pc'[c] = "waiting" => pc[c] = "waiting"
    BY <1>3, CancelMoves DEF LifecycleInv
  <2>2. AccountingExact' /\ NoLostWakeup' /\ CapacityRespected'
    BY <1>3, <2>1
    DEF DrainTimeout, LifecycleInv, AccountingExact, NoLostWakeup, CapacityRespected, Full
  <2>. QED
    BY <1>3, <2>1, <2>2
    DEF DrainTimeout, LifecycleInv, TypeOK, DrainedBeforeClose, OneStopper,
        LockInv, HandleInv, QuietInv, StopperPc
<1>4. CASE Gathered(s)
  <2>1. UNCHANGED <<state, lock, handle, active, tasks, idle, stopComplete, pc, policy>>
    BY <1>4 DEF Gathered
  <2>2. InFlight' = InFlight /\ AccountingExact' /\ NoLostWakeup' /\ CapacityRespected'
    BY <2>1, CallersAlone
  <2>. QED
    BY <1>4, <2>1, <2>2
    DEF Gathered, LifecycleInv, TypeOK, AccountingExact, DrainedBeforeClose, OneStopper,
        LockInv, HandleInv, QuietInv, StopperPc
<1>5. ASSUME NEW ok \in BOOLEAN, Close(s, ok) PROVE LifecycleInv'
  <2>1. UNCHANGED <<lock, handle, active, tasks, idle, pc, victims, policy>>
    BY <1>5 DEF Close
  <2>2. InFlight' = InFlight /\ AccountingExact' /\ NoLostWakeup' /\ CapacityRespected'
    BY <2>1, CallersAlone
  <2>3. InFlight = {} /\ state = "stopping" /\ spc[s] = "closing"
    BY <1>5 DEF Close, LifecycleInv, DrainedBeforeClose, OneStopper
  <2>4. stopComplete' \in BOOLEAN
    BY <1>5, Zenon DEF Close
  <2>5. state' \in {"stopped", "error"}
    BY <1>5 DEF Close
  <2>6. /\ spc' \in [Stoppers -> StopperPc]
        /\ \A t \in Stoppers :
              spc'[t] \notin {"joining", "draining", "gathering", "closing"}
    BY <1>5, <2>3
    DEF Close, ReleaseJoiners, LifecycleInv, TypeOK, OneStopper, StopperPc
  <2>7. TypeOK'
    BY <2>1, <2>4, <2>5, <2>6 DEF LifecycleInv, TypeOK, AgentState
  <2>. QED
    BY <1>5, <2>1, <2>2, <2>3, <2>5, <2>6, <2>7
    DEF Close, LifecycleInv, DrainedBeforeClose, OneStopper, LockInv, HandleInv, QuietInv
<1>6. CASE CancelStop(s)
  <2>1. UNCHANGED <<state, lock, handle, active, tasks, idle, stopComplete, pc, victims, policy>>
    BY <1>6 DEF CancelStop
  <2>2. InFlight' = InFlight /\ AccountingExact' /\ NoLostWakeup' /\ CapacityRespected'
    BY <2>1, CallersAlone
  <2>. QED
    BY <1>6, <2>1, <2>2
    DEF CancelStop, LifecycleInv, TypeOK, DrainedBeforeClose, OneStopper,
        LockInv, HandleInv, QuietInv, StopperPc
<1>7. CASE Shutdown(s)
  <2>1. UNCHANGED <<state, lock, active, tasks, idle, stopComplete, pc, victims, policy>>
    BY <1>7 DEF Shutdown
  <2>2. InFlight' = InFlight /\ AccountingExact' /\ NoLostWakeup' /\ CapacityRespected'
    BY <2>1, CallersAlone
  <2>3. handle' \in BOOLEAN
    BY <1>7, Zenon DEF Shutdown
  <2>4. InFlight = {} /\ state \in {"stopping", "stopped", "error"}
    BY <1>7 DEF Shutdown, LifecycleInv, QuietInv
  <2>. QED
    BY <1>7, <2>1, <2>2, <2>3, <2>4
    DEF Shutdown, LifecycleInv, TypeOK, DrainedBeforeClose, OneStopper,
        LockInv, HandleInv, QuietInv, StopperPc
<1>. QED
  BY <1>1, <1>2, <1>3, <1>4, <1>5, <1>6, <1>7 DEF StopperStep

-----------------------------------------------------------------------------
(* The theorems. *)

\* LifecycleInv holds at every await of DefaultMicroAgent.
THEOREM LifecycleInvariant == Spec => []LifecycleInv
<1>1. LifecycleInv /\ [Next]_vars => LifecycleInv'
  <2>. SUFFICES ASSUME LifecycleInv, [Next]_vars PROVE LifecycleInv'
    OBVIOUS
  <2>1. CASE UNCHANGED vars
    <3>1. InFlight' = InFlight /\ AccountingExact' /\ NoLostWakeup' /\ CapacityRespected'
      BY <2>1, CallersAlone DEF vars
    <3>. QED
      BY <2>1, <3>1
      DEF vars, LifecycleInv, TypeOK, DrainedBeforeClose, OneStopper,
          LockInv, HandleInv, QuietInv
  <2>. QED
    BY <2>1, LifecycleStepHolds, CallerStepHolds, StopperStepHolds DEF Next
<1>. QED
  BY InitHolds, <1>1, PTL DEF Spec

\* Every variable of the agent keeps its type.
THEOREM TypeCorrect == Spec => []TypeOK
<1>1. LifecycleInv => TypeOK
  BY DEF LifecycleInv
<1>. QED
  BY <1>1, LifecycleInvariant, PTL

\* _active_invocations, _invocation_tasks and _idle always agree with the
\* invocations inside the runtime, for any number of callers.
THEOREM AccountingCorrect == Spec => []AccountingExact
<1>1. LifecycleInv => AccountingExact
  BY DEF LifecycleInv
<1>. QED
  BY <1>1, LifecycleInvariant, PTL

\* max_concurrency bounds the invocations inside the runtime.
THEOREM CapacityCorrect == Spec => []CapacityRespected
<1>1. LifecycleInv => CapacityRespected
  BY DEF LifecycleInv
<1>. QED
  BY <1>1, LifecycleInvariant, PTL

\* A caller that waits for capacity waits only while the agent is full: no
\* notification of _capacity_available is lost.
THEOREM WakeupCorrect == Spec => []NoLostWakeup
<1>1. LifecycleInv => NoLostWakeup
  BY DEF LifecycleInv
<1>. QED
  BY <1>1, LifecycleInvariant, PTL

\* The runtime is stopped, and its handle released, only when no invocation
\* is inside it.
THEOREM DrainCorrect == Spec => []DrainedBeforeClose
<1>1. LifecycleInv => DrainedBeforeClose
  BY DEF LifecycleInv
<1>. QED
  BY <1>1, LifecycleInvariant, PTL

\* At most one stop() drains the agent, and only while it is STOPPING.
THEOREM OneStopperCorrect == Spec => []OneStopper
<1>1. LifecycleInv => OneStopper
  BY DEF LifecycleInv
<1>. QED
  BY <1>1, LifecycleInvariant, PTL

\* What a step of each kind does to the set of invocations in flight: only an
\* admission while READY and below the limit adds to it, one task at a time.
LEMMA InFlightSteps ==
    ASSUME LifecycleInv, [Next]_vars
    PROVE  \/ InFlight' = InFlight
           \/ /\ state = "ready" /\ state' = state
              /\ MaxConcurrency # 0 => Cardinality(InFlight) < MaxConcurrency
              /\ \E c \in Callers : c \notin InFlight /\ InFlight' = InFlight \cup {c}
           \/ /\ state' = state
              /\ \E c \in Callers : c \in InFlight /\ InFlight' = InFlight \ {c}
<1>. USE DEF LifecycleInv
<1>1. CASE UNCHANGED pc
  BY <1>1 DEF InFlight
<1>2. ASSUME NEW c \in Callers, CallerStep(c)
      PROVE  \/ InFlight' = InFlight
             \/ /\ state = "ready" /\ state' = state
                /\ MaxConcurrency # 0 => Cardinality(InFlight) < MaxConcurrency
                /\ c \notin InFlight /\ InFlight' = InFlight \cup {c}
             \/ /\ state' = state
                /\ c \in InFlight /\ InFlight' = InFlight \ {c}
  <2>1. CASE Finish(c)
    BY <2>1, FinishMoves DEF Finish
  <2>2. CASE AbandonWait(c)
    BY <2>2, OutsideMoves DEF AbandonWait, Refuse
  <2>3. CASE Invoke(c) \/ Resume(c)
    <3>1. Admission(c) /\ pc[c] \notin {"running", "cancelling"} /\ state' = state
      BY <2>3 DEF Invoke, Resume, Outside
    <3>2. CASE \E p \in {"waiting", "refused"} : pc' = [pc EXCEPT ![c] = p]
      BY <3>1, <3>2, OutsideMoves
    <3>3. CASE ~Full /\ state = "ready" /\ Admit(c)
      <4>1. c \notin InFlight /\ InFlight' = InFlight \cup {c}
        BY <3>1, <3>3, AdmitMoves
      <4>2. MaxConcurrency # 0 => Cardinality(InFlight) < MaxConcurrency
        BY <3>3, InFlightFinite, ConstantsAssumption
        DEF Full, AccountingExact, ConstantsAssumption
      <4>. QED
        BY <3>1, <3>3, <4>1, <4>2
    <3>. QED
      BY <3>1, <3>2, <3>3 DEF Admission, Refuse
  <2>. QED
    BY <1>2, <2>1, <2>2, <2>3 DEF CallerStep
<1>3. ASSUME NEW s \in Stoppers, Stop(s), pc' = NotifyAll(pc) PROVE InFlight' = InFlight
  BY <1>3, NotifyMoves
<1>4. ASSUME NEW s \in Stoppers, DrainTimeout(s) PROVE InFlight' = InFlight
  BY <1>4, CancelMoves
<1>5. ASSUME NEW s \in Stoppers, StopperStep(s) PROVE InFlight' = InFlight
  BY <1>1, <1>3, <1>4, <1>5, Zenon
  DEF StopperStep, Stop, Drained, Gathered, Close, CancelStop, Shutdown, InFlight
<1>6. CASE LifecycleStep
  BY <1>1, <1>6 DEF LifecycleStep, InitializeBegin, InitializeEnd, StartBegin, StartEnd
<1>7. CASE UNCHANGED vars
  BY <1>1, <1>7 DEF vars
<1>. QED
  BY <1>2, <1>5, <1>6, <1>7 DEF Next

\* Nothing enters the runtime unless the agent is READY: while stop() drains,
\* the invocations in flight only become fewer.
THEOREM NoAdmission == Spec => NoAdmissionWhileStopping
<1>1. LifecycleInv /\ [Next]_vars => [state # "ready" => InFlight' \subseteq InFlight]_vars
  <2>. SUFFICES ASSUME LifecycleInv, [Next]_vars, state # "ready"
                PROVE  InFlight' \subseteq InFlight
    OBVIOUS
  <2>. QED
    BY InFlightSteps
<1>. QED
  BY <1>1, LifecycleInvariant, PTL DEF Spec, NoAdmissionWhileStopping

\* How the lifecycle state moves, seen as a phase of the abstract service.
LEMMA PhaseSteps ==
    ASSUME LifecycleInv, [Next]_vars, state' # state
    PROVE  /\ InFlight' = InFlight
           /\ \/ ServicePhase' = ServicePhase
              \/ ServicePhase = "down" /\ ServicePhase' \in {"up", "closed"}
              \/ ServicePhase # "draining" /\ ServicePhase' = "draining"
              \/ ServicePhase = "draining" /\ InFlight = {} /\ ServicePhase' = "closed"
<1>1. InFlight' = InFlight
  BY InFlightSteps, Zenon
<1>2. CASE LifecycleStep
  BY <1>1, <1>2
  DEF LifecycleStep, InitializeBegin, InitializeEnd, StartBegin, StartEnd,
      ServicePhase, LifecycleInv, LockInv
<1>3. ASSUME NEW c \in Callers, CallerStep(c) PROVE FALSE
  BY <1>3 DEF CallerStep, Invoke, Resume, AbandonWait, Finish
<1>4. ASSUME NEW s \in Stoppers, Stop(s) PROVE ServicePhase # "draining" /\ ServicePhase' = "draining"
  BY <1>4 DEF Stop, ServicePhase, LifecycleInv, TypeOK, AgentState
<1>5. ASSUME NEW s \in Stoppers, NEW ok \in BOOLEAN, Close(s, ok)
      PROVE  ServicePhase = "draining" /\ InFlight = {} /\ ServicePhase' = "closed"
  BY <1>5 DEF Close, ServicePhase, LifecycleInv, OneStopper, DrainedBeforeClose
<1>6. ASSUME NEW s \in Stoppers,
             Drained(s) \/ DrainTimeout(s) \/ Gathered(s) \/ CancelStop(s) \/ Shutdown(s)
      PROVE  FALSE
  BY <1>6 DEF Drained, DrainTimeout, Gathered, CancelStop, Shutdown
<1>7. CASE UNCHANGED vars
  BY <1>7 DEF vars
<1>. QED
  BY <1>1, <1>2, <1>3, <1>4, <1>5, <1>6, <1>7 DEF Next, StopperStep

\* DefaultMicroAgent implements DrainingService: every step of the agent is a
\* step of the abstract service or invisible to it.
THEOREM ServiceRefinement == Spec => ImplementsService
<1>1. Init => Service!SInit
  <2>. SUFFICES ASSUME Init PROVE Service!SInit
    OBVIOUS
  <2>1. InFlight = {}
    BY DEF Init, InFlight
  <2>2. ServicePhase = "down"
    BY DEF Init, ServicePhase
  <2>. QED
    BY <2>1, <2>2 DEF Service!SInit
<1>2. LifecycleInv /\ [Next]_vars => [Service!SNext]_(Service!svars)
  <2>. SUFFICES ASSUME LifecycleInv, [Next]_vars
                PROVE  Service!SNext \/ UNCHANGED Service!svars
    BY DEF Service!svars
  <2>1. CASE state' # state
    BY <2>1, PhaseSteps
    DEF Service!SNext, Service!Open, Service!BeginDrain, Service!Closed, Service!svars
  <2>2. CASE state' = state
    <3>1. ServicePhase' = ServicePhase
      BY <2>2 DEF ServicePhase
    <3>2. CASE InFlight' = InFlight
      BY <3>1, <3>2 DEF Service!svars
    <3>3. ASSUME NEW c \in Callers, state = "ready",
                 MaxConcurrency # 0 => Cardinality(InFlight) < MaxConcurrency,
                 c \notin InFlight, InFlight' = InFlight \cup {c}
          PROVE  Service!Enter(c)
      <4>1. ServicePhase = "up"
        BY <3>3 DEF ServicePhase
      <4>2. Service!Cardinality(InFlight) = Cardinality(InFlight)
        BY DEF Service!Cardinality, Cardinality
      <4>. QED
        BY <3>1, <3>3, <4>1, <4>2 DEF Service!Enter
    <3>4. ASSUME NEW c \in Callers, c \in InFlight, InFlight' = InFlight \ {c}
          PROVE  Service!Leave(c)
      BY <3>1, <3>4 DEF Service!Leave
    <3>. QED
      BY <3>2, <3>3, <3>4, InFlightSteps DEF Service!SNext
  <2>. QED
    BY <2>1, <2>2
<1>. QED
  BY <1>1, <1>2, LifecycleInvariant, PTL DEF Spec, ImplementsService, Service!SSpec
=============================================================================
