--------------------------- MODULE AgentLifecycle ---------------------------
(***************************************************************************)
(* DefaultMicroAgent (src/micro_agent/core/default_agent.py): the agent's  *)
(* lifecycle, the admission of concurrent invocations and the drain that   *)
(* stop() performs.                                                        *)
(*                                                                         *)
(* The code is asyncio: what runs between two awaits is atomic, so one     *)
(* action is one such stretch.  The lifecycle lock is held across an await *)
(* only by initialize() and start(); every other critical section is one   *)
(* action that needs the lock free.                                        *)
(***************************************************************************)
EXTENDS Integers, FiniteSets

CONSTANTS Callers,          \* tasks that call invoke() or stream()
          Stoppers,         \* tasks that call stop() and then shutdown()
          MaxConcurrency,   \* spec.runtime.max_concurrency; 0 stands for None
          ShutdownTimeout,  \* whether shutdown_timeout_seconds is set
          StopCancellable   \* whether a task inside stop() may be cancelled

ASSUME ConstantsAssumption ==
    /\ IsFiniteSet(Callers)
    /\ MaxConcurrency \in Nat
    /\ ShutdownTimeout \in BOOLEAN
    /\ StopCancellable \in BOOLEAN

VARIABLES state,         \* _state
          lock,          \* who holds _lifecycle_lock across an await
          handle,        \* _runtime_agent is not None
          active,        \* _active_invocations
          tasks,         \* _invocation_tasks
          idle,          \* the event _idle
          stopComplete,  \* the event _stop_complete
          pc,            \* where each caller is inside invoke()/stream()
          spc,           \* where each stopper is inside stop()/shutdown()
          victims,       \* the tasks _cancel_in_flight() has cancelled
          policy         \* spec.runtime.concurrency_policy, fixed from the start

vars == <<state, lock, handle, active, tasks, idle, stopComplete, pc, spc, victims, policy>>

AgentState == {"created", "initialized", "starting", "ready",
               "stopping", "stopped", "error"}
CallerPc == {"idle", "waiting", "woken", "running", "cancelling", "done", "refused"}
StopperPc == {"idle", "joining", "draining", "gathering", "closing",
              "returned", "failed", "cancelled", "shutdown"}

Outside == {"idle", "done", "refused"}

\* Invocations that are inside self._runtime.invoke(...).
InFlight == {c \in Callers : pc[c] \in {"running", "cancelling"}}

\* Mutant: an off-by-one in the capacity test.
FullOffByOne == MaxConcurrency # 0 /\ active > MaxConcurrency

Full == MaxConcurrency # 0 /\ active >= MaxConcurrency

TypeOK ==
    /\ state \in AgentState
    /\ lock \in {"free", "initialize", "start"}
    /\ handle \in BOOLEAN
    /\ active \in Nat
    /\ tasks \in SUBSET Callers
    /\ idle \in BOOLEAN
    /\ stopComplete \in BOOLEAN
    /\ pc \in [Callers -> CallerPc]
    /\ spc \in [Stoppers -> StopperPc]
    /\ victims \in SUBSET Callers
    /\ policy \in {"wait", "reject"}

Init ==
    /\ state = "created"
    /\ lock = "free"
    /\ handle = FALSE
    /\ active = 0
    /\ tasks = {}
    /\ idle = TRUE
    /\ stopComplete = FALSE
    /\ pc = [c \in Callers |-> "idle"]
    /\ spc = [s \in Stoppers |-> "idle"]
    /\ victims = {}
    /\ policy \in {"wait", "reject"}

-----------------------------------------------------------------------------
(* initialize() and start(): the lock stays held while the runtime works. *)

InitializeBegin ==
    /\ lock = "free"
    /\ state = "created"
    /\ lock' = "initialize"
    /\ UNCHANGED <<state, handle, active, tasks, idle, stopComplete, pc, spc, victims, policy>>

\* A create() that raises leaves the agent CREATED.
InitializeEnd(ok) ==
    /\ lock = "initialize"
    /\ lock' = "free"
    /\ state' = IF ok THEN "initialized" ELSE state
    /\ handle' = (ok \/ handle)
    /\ UNCHANGED <<active, tasks, idle, stopComplete, pc, spc, victims, policy>>

StartBegin ==
    /\ lock = "free"
    /\ state = "initialized"
    /\ handle
    /\ lock' = "start"
    /\ state' = "starting"
    /\ UNCHANGED <<handle, active, tasks, idle, stopComplete, pc, spc, victims, policy>>

\* A missing capability or a failing runtime.start() ends in ERROR; a cancelled
\* start() is no Exception and leaves the agent STARTING.
StartEnd(outcome) ==
    /\ lock = "start"
    /\ lock' = "free"
    /\ state' = CASE outcome = "ok"        -> "ready"
                  [] outcome = "exception" -> "error"
                  [] outcome = "cancelled" -> "starting"
    /\ UNCHANGED <<handle, active, tasks, idle, stopComplete, pc, spc, victims, policy>>

-----------------------------------------------------------------------------
(* invoke() and stream(): admission, then the runtime, then the finally. *)

Admit(c) ==
    /\ pc' = [pc EXCEPT ![c] = "running"]
    /\ active' = active + 1
    /\ tasks' = tasks \cup {c}
    /\ idle' = FALSE

Refuse(c) ==
    /\ pc' = [pc EXCEPT ![c] = "refused"]
    /\ UNCHANGED <<active, tasks, idle>>

\* The body of the admission block for a caller that holds the lock: the
\* capacity loop first, then the state check, then the contract validation.
Admission(c) ==
    \/ /\ Full
       /\ policy = "reject"
       /\ Refuse(c)
    \/ /\ Full
       /\ policy = "wait"
       /\ pc' = [pc EXCEPT ![c] = "waiting"]
       /\ UNCHANGED <<active, tasks, idle>>
    \/ /\ ~Full
       /\ Refuse(c)      \* not READY, or the input breaks its contract
    \/ /\ ~Full
       /\ state = "ready"
       /\ Admit(c)

Invoke(c) ==
    /\ lock = "free"
    /\ pc[c] \in Outside
    /\ Admission(c)
    /\ UNCHANGED <<state, lock, handle, stopComplete, spc, victims, policy>>

\* A waiter that was notified runs the while loop's test again.
Resume(c) ==
    /\ lock = "free"
    /\ pc[c] = "woken"
    /\ Admission(c)
    /\ UNCHANGED <<state, lock, handle, stopComplete, spc, victims, policy>>

\* The waiting task is cancelled by its own caller (a client disconnect).
AbandonWait(c) ==
    /\ lock = "free"
    /\ pc[c] \in {"waiting", "woken"}
    /\ Refuse(c)
    /\ UNCHANGED <<state, lock, handle, stopComplete, spc, victims, policy>>

\* Condition.notify_all: every waiter becomes runnable.
NotifyAll(f) ==
    [c \in Callers |-> IF f[c] = "waiting" THEN "woken" ELSE f[c]]

\* Mutant: the finally block does not wake the waiters.
FinishWithoutNotify(c) ==
    /\ lock = "free"
    /\ pc[c] \in {"running", "cancelling"}
    /\ active' = active - 1
    /\ tasks' = tasks \ {c}
    /\ idle' = IF active - 1 = 0 THEN TRUE ELSE idle
    /\ pc' = [pc EXCEPT ![c] = "done"]
    /\ UNCHANGED <<state, lock, handle, stopComplete, spc, victims, policy>>

\* runtime.invoke returned, raised or was cancelled: the finally block.
Finish(c) ==
    /\ lock = "free"
    /\ pc[c] \in {"running", "cancelling"}
    /\ active' = active - 1
    /\ tasks' = tasks \ {c}
    /\ idle' = IF active - 1 = 0 THEN TRUE ELSE idle
    /\ pc' = NotifyAll([pc EXCEPT ![c] = "done"])
    /\ UNCHANGED <<state, lock, handle, stopComplete, spc, victims, policy>>

-----------------------------------------------------------------------------
(* stop() and shutdown(). *)

\* The first critical section of stop().  In CREATED it returns at once and
\* the task may call again, so that case changes nothing.
Stop(s) ==
    /\ lock = "free"
    /\ spc[s] = "idle"
    /\ \/ /\ state = "stopped"
          /\ spc' = [spc EXCEPT ![s] = "returned"]
          /\ UNCHANGED <<state, stopComplete, pc>>
       \/ /\ state = "stopping"
          /\ spc' = [spc EXCEPT ![s] = IF stopComplete THEN "returned" ELSE "joining"]
          /\ UNCHANGED <<state, stopComplete, pc>>
       \/ /\ state \notin {"created", "stopped", "stopping"}
          /\ handle
          /\ state' = "stopping"
          /\ stopComplete' = FALSE
          /\ pc' = NotifyAll(pc)
          /\ spc' = [spc EXCEPT ![s] = "draining"]
    /\ UNCHANGED <<lock, handle, active, tasks, idle, victims, policy>>

\* await self._idle.wait() returns.
Drained(s) ==
    /\ spc[s] = "draining"
    /\ idle
    /\ spc' = [spc EXCEPT ![s] = "closing"]
    /\ UNCHANGED <<state, lock, handle, active, tasks, idle, stopComplete, pc, victims, policy>>

\* Mutant: the cancelled invocations are not awaited.
DrainTimeoutWithoutGather(s) ==
    /\ ShutdownTimeout
    /\ lock = "free"
    /\ spc[s] = "draining"
    /\ victims' = tasks
    /\ pc' = [c \in Callers |-> IF c \in tasks THEN "cancelling" ELSE pc[c]]
    /\ spc' = [spc EXCEPT ![s] = "closing"]
    /\ UNCHANGED <<state, lock, handle, active, tasks, idle, stopComplete, policy>>

\* The shutdown deadline passes: _cancel_in_flight() cancels what is left.
DrainTimeout(s) ==
    /\ ShutdownTimeout
    /\ lock = "free"
    /\ spc[s] = "draining"
    /\ victims' = tasks
    /\ pc' = [c \in Callers |-> IF c \in tasks THEN "cancelling" ELSE pc[c]]
    /\ spc' = [spc EXCEPT ![s] = "gathering"]
    /\ UNCHANGED <<state, lock, handle, active, tasks, idle, stopComplete, policy>>

\* gather(*tasks) and then _idle.wait() both returned.
Gathered(s) ==
    /\ spc[s] = "gathering"
    /\ \A c \in victims : pc[c] # "cancelling"
    /\ idle
    /\ spc' = [spc EXCEPT ![s] = "closing"]
    /\ victims' = {}
    /\ UNCHANGED <<state, lock, handle, active, tasks, idle, stopComplete, pc, policy>>

\* Event.set on _stop_complete releases every joiner; `self` leaves with `last`.
ReleaseJoiners(self, last) ==
    [s \in Stoppers |-> IF s = self THEN last
                        ELSE IF spc[s] = "joining" THEN "returned" ELSE spc[s]]

\* Mutant: a failing runtime.stop() does not set _stop_complete.
CloseSetsOnlyOnSuccess(s, ok) ==
    /\ lock = "free"
    /\ spc[s] = "closing"
    /\ state' = IF ok THEN "stopped" ELSE "error"
    /\ stopComplete' = ok
    /\ spc' = IF ok THEN ReleaseJoiners(s, "returned") ELSE [spc EXCEPT ![s] = "failed"]
    /\ UNCHANGED <<lock, handle, active, tasks, idle, pc, victims, policy>>

\* runtime.stop() returned, or raised.
Close(s, ok) ==
    /\ lock = "free"
    /\ spc[s] = "closing"
    /\ state' = IF ok THEN "stopped" ELSE "error"
    /\ stopComplete' = TRUE
    /\ spc' = ReleaseJoiners(s, IF ok THEN "returned" ELSE "failed")
    /\ UNCHANGED <<lock, handle, active, tasks, idle, pc, victims, policy>>

\* The task inside stop() is cancelled: CancelledError passes through
\* `except TimeoutError` and `except Exception`, so nothing is restored.
CancelStop(s) ==
    /\ StopCancellable
    /\ spc[s] \in {"joining", "draining", "gathering", "closing"}
    /\ spc' = [spc EXCEPT ![s] = "cancelled"]
    /\ UNCHANGED <<state, lock, handle, active, tasks, idle, stopComplete, pc, victims, policy>>

\* shutdown() follows a stop() that returned; it takes no lock and reads no state.
Shutdown(s) ==
    /\ spc[s] = "returned"
    /\ spc' = [spc EXCEPT ![s] = "shutdown"]
    /\ handle' = FALSE
    /\ UNCHANGED <<state, lock, active, tasks, idle, stopComplete, pc, victims, policy>>

-----------------------------------------------------------------------------
CallerStep(c) == Invoke(c) \/ Resume(c) \/ AbandonWait(c) \/ Finish(c)

StopperStep(s) ==
    \/ Stop(s) \/ Drained(s) \/ DrainTimeout(s) \/ Gathered(s)
    \/ \E ok \in BOOLEAN : Close(s, ok)
    \/ CancelStop(s) \/ Shutdown(s)

LifecycleStep ==
    \/ InitializeBegin \/ StartBegin
    \/ \E ok \in BOOLEAN : InitializeEnd(ok)
    \/ \E outcome \in {"ok", "exception", "cancelled"} : StartEnd(outcome)

Next ==
    \/ LifecycleStep
    \/ \E c \in Callers : CallerStep(c)
    \/ \E s \in Stoppers : StopperStep(s)

Spec == Init /\ [][Next]_vars

(***************************************************************************)
(* Fairness.  The event loop runs every runnable task, a timer that is set *)
(* fires, runtime.create/start/stop return, and a cancelled invocation     *)
(* unwinds.  Nothing is assumed of an invocation that was not cancelled:   *)
(* it may run for ever.                                                    *)
(***************************************************************************)
Fairness ==
    /\ WF_vars(\E ok \in BOOLEAN : InitializeEnd(ok))
    /\ WF_vars(\E outcome \in {"ok", "exception", "cancelled"} : StartEnd(outcome))
    /\ \A c \in Callers :
          /\ WF_vars(Resume(c))
          /\ WF_vars(pc[c] = "cancelling" /\ Finish(c))
    /\ \A s \in Stoppers :
          /\ WF_vars(Drained(s))
          /\ WF_vars(DrainTimeout(s))
          /\ WF_vars(Gathered(s))
          /\ WF_vars(\E ok \in BOOLEAN : Close(s, ok))

FairSpec == Spec /\ Fairness

-----------------------------------------------------------------------------
(* Properties. *)

\* The counter, the task set and the idle event of default_agent.py agree with
\* the invocations that really are inside the runtime, at every await.
AccountingExact ==
    /\ active = Cardinality(InFlight)
    /\ tasks = InFlight
    /\ idle <=> InFlight = {}

\* No lost wake-up in the capacity loop: a caller that still waits on
\* _capacity_available does so only while the agent is at its limit.
NoLostWakeup ==
    \A c \in Callers : pc[c] = "waiting" => Full

\* max_concurrency is never exceeded, whatever callers, stops and
\* cancellations do.
CapacityRespected ==
    MaxConcurrency # 0 => Cardinality(InFlight) <= MaxConcurrency

\* stop() drains before it closes: from runtime.stop() on, and once the
\* runtime handle is released, no invocation is inside the runtime.
DrainedBeforeClose ==
    /\ \A s \in Stoppers : spc[s] = "closing" => InFlight = {}
    /\ state = "stopped" => InFlight = {}
    /\ (~handle => InFlight = {})

\* Only one task performs the drain; the others join it, and a joiner waits
\* only while an earlier stop() is under way or was cancelled under it.
OneStopper ==
    /\ \A s, t \in Stoppers :
          /\ spc[s] \in {"draining", "gathering", "closing"}
          /\ spc[t] \in {"draining", "gathering", "closing"}
          => s = t
    /\ \A s \in Stoppers :
          spc[s] \in {"joining", "draining", "gathering", "closing"} => state = "stopping"

\* No invocation enters the runtime once stop() has begun: the set of
\* invocations in flight only shrinks until the agent has stopped.
NoAdmissionWhileStopping ==
    [][state # "ready" => InFlight' \subseteq InFlight]_vars

\* "Stop the agent gracefully.  Transition to STOPPED": with a shutdown deadline
\* a task that drains, gathers, closes or joins another stop() eventually
\* leaves, even when no invocation ever returns by itself.
StopAlwaysEnds ==
    \A s \in Stoppers :
        spc[s] \in {"joining", "draining", "gathering", "closing"}
            ~> spc[s] \in {"returned", "failed", "shutdown", "cancelled"}

\* The same as long as no task inside stop() is cancelled.
StopTerminates ==
    \A s \in Stoppers :
        spc[s] \in {"joining", "draining", "gathering", "closing"}
            ~> \/ spc[s] \in {"returned", "failed", "shutdown", "cancelled"}
               \/ \E t \in Stoppers : spc[t] = "cancelled"

\* A caller queued for capacity when stop() begins is answered, not forgotten,
\* unless the stop() that would drain for it is cancelled.
WaitersAnswered ==
    \A c \in Callers :
        (pc[c] = "waiting" /\ state = "stopping")
            ~> \/ pc[c] \in {"refused", "running"}
               \/ \E t \in Stoppers : spc[t] = "cancelled"

(***************************************************************************)
(* The strengthening that makes the safety invariants inductive: which     *)
(* states the lock, the handle and a finished stop() are compatible with.  *)
(***************************************************************************)
LockInv ==
    /\ lock = "initialize" => state = "created"
    /\ lock = "start" => state = "starting"

HandleInv ==
    /\ state \in {"initialized", "starting", "ready"} => handle
    /\ ~handle => InFlight = {}

QuietInv ==
    /\ state \notin {"ready", "stopping"} => InFlight = {}
    /\ state = "stopping" => ~stopComplete
    /\ \A s \in Stoppers :
          spc[s] \in {"returned", "failed", "shutdown"} =>
              /\ state \in {"stopping", "stopped", "error"}
              /\ InFlight = {}

\* All of the above together: what every await of DefaultMicroAgent leaves true,
\* strong enough to be preserved by each step on its own.
LifecycleInv ==
    /\ TypeOK /\ AccountingExact /\ NoLostWakeup /\ CapacityRespected
    /\ DrainedBeforeClose /\ OneStopper
    /\ LockInv /\ HandleInv /\ QuietInv

\* DefaultMicroAgent implements the abstract service: the lock, the counters,
\* the events and the cancellation of invocations are invisible, and no
\* execution closes the runtime under a call or admits one too many.
ServicePhase ==
    CASE state \in {"created", "initialized", "starting"} -> "down"
      [] state = "ready"                                  -> "up"
      [] state = "stopping"                               -> "draining"
      [] state \in {"stopped", "error"}                   -> "closed"

Service == INSTANCE DrainingService
    WITH Clients <- Callers, Limit <- MaxConcurrency,
         phase <- ServicePhase, serving <- InFlight

ImplementsService == Service!SSpec
=============================================================================
