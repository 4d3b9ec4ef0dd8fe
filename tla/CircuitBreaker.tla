--------------------------- MODULE CircuitBreaker ---------------------------
(***************************************************************************)
(* CircuitBreaker (src/micro_agent/resilience.py) as AdkRuntime._invoke    *)
(* (src/runtimes/adk/runtime.py) drives it: concurrent invocations of one  *)
(* agent share a breaker, check it before they work and report to it       *)
(* afterwards, at a time when its state may have moved on.                 *)
(*                                                                         *)
(* The monotonic clock is only ever compared with opened_at + cooldown, so *)
(* the pair (_opened_at, clock) is abstracted to three values: "none",     *)
(* "cooling" (set, cooldown running) and "elapsed".  The failure count is  *)
(* only ever compared with the threshold, so it saturates there.           *)
(***************************************************************************)
EXTENDS Integers, FiniteSets

CONSTANTS Calls,        \* tasks that invoke the agent
          Threshold     \* circuit_breaker_failures

ASSUME BreakerAssumption == Threshold \in Nat \ {0}

VARIABLES failures,   \* _consecutive_failures
          opened,     \* _opened_at against the clock
          halfOpen,   \* _half_open
          pc,         \* where each call is inside _invoke
          healthy,    \* environment: from now on new invocations run to the end and succeed
          stale,      \* calls that were in flight when the dependency recovered
          streak,     \* history: failed invocations since the last successful one
          policy      \* spec.runtime.error_policy, fixed from the start

breakerVars == <<failures, opened, halfOpen, pc, healthy, stale, streak, policy>>

CallPc == {"idle", "first", "retrying"}

BreakerTypeOK ==
    /\ failures \in 0..Threshold
    /\ opened \in {"none", "cooling", "elapsed"}
    /\ halfOpen \in BOOLEAN
    /\ pc \in [Calls -> CallPc]
    /\ healthy \in BOOLEAN
    /\ stale \in SUBSET Calls
    /\ streak \in 0..Threshold
    /\ policy \in {"fail", "retry", "fallback"}

BreakerInit ==
    /\ failures = 0
    /\ opened = "none"
    /\ halfOpen = FALSE
    /\ pc = [c \in Calls |-> "idle"]
    /\ healthy = FALSE
    /\ stale = {}
    /\ streak = 0
    /\ policy \in {"fail", "retry", "fallback"}

Bump(n) == IF n < Threshold THEN n + 1 ELSE n

-----------------------------------------------------------------------------
(* The breaker's own operations. *)

\* Mutant: a success leaves the failure count alone.
SuccessKeepsCount ==
    /\ UNCHANGED failures
    /\ opened' = "none"
    /\ halfOpen' = FALSE

record_success ==
    /\ failures' = 0
    /\ opened' = "none"
    /\ halfOpen' = FALSE

\* Mutant: the circuit opens one failure too late.
FailureOffByOne ==
    /\ failures' = Bump(failures)
    /\ IF halfOpen \/ (failures >= Threshold /\ opened = "none")
       THEN opened' = "cooling" /\ halfOpen' = FALSE
       ELSE UNCHANGED <<opened, halfOpen>>

\* record_failure with _trip: a failure while half-open reopens at once, one
\* while closed opens at the threshold, one while open changes the count only.
record_failure ==
    /\ failures' = Bump(failures)
    /\ IF halfOpen \/ (Bump(failures) >= Threshold /\ opened = "none")
       THEN opened' = "cooling" /\ halfOpen' = FALSE
       ELSE UNCHANGED <<opened, halfOpen>>

CooldownElapses ==
    /\ opened = "cooling"
    /\ opened' = "elapsed"
    /\ UNCHANGED <<failures, halfOpen, pc, healthy, stale, streak, policy>>

-----------------------------------------------------------------------------
(* One invocation. *)

\* Mutant: a half-open circuit admits a call only if none is probing, and the
\* slot is never given back when the probe reports nothing.
CheckLeaksProbe(c) ==
    /\ pc[c] = "idle"
    /\ opened # "cooling"
    /\ opened = "elapsed" => ~halfOpen
    /\ halfOpen' = (halfOpen \/ opened = "elapsed")
    /\ pc' = [pc EXCEPT ![c] = "first"]
    /\ UNCHANGED <<failures, opened, healthy, stale, streak, policy>>

\* check(): the call goes on unless the circuit is open; a call that is
\* rejected changes nothing.
Check(c) ==
    /\ pc[c] = "idle"
    /\ opened # "cooling"
    /\ halfOpen' = (halfOpen \/ opened = "elapsed")
    /\ pc' = [pc EXCEPT ![c] = "first"]
    /\ UNCHANGED <<failures, opened, healthy, stale, streak, policy>>

MayFail(c) == ~healthy \/ c \in stale

Leave(c) ==
    /\ pc' = [pc EXCEPT ![c] = "idle"]
    /\ stale' = stale \ {c}
    /\ UNCHANGED <<healthy, policy>>

\* run_once() returned, in the first attempt or in a retry.
Succeed(c) ==
    /\ pc[c] # "idle"
    /\ record_success
    /\ streak' = 0
    /\ Leave(c)

\* The first attempt ran out of its deadline: recorded, never retried.
TimeOut(c) ==
    /\ pc[c] = "first" /\ MayFail(c)
    /\ record_failure
    /\ streak' = Bump(streak)
    /\ Leave(c)

\* The first attempt paused for approval, failed after it had streamed output,
\* or was cancelled: the breaker is not told.
EndUnrecorded(c) ==
    /\ pc[c] = "first" /\ MayFail(c)
    /\ Leave(c)
    /\ UNCHANGED <<failures, opened, halfOpen, streak>>

\* The first attempt raised anything else: recorded once, then the error
\* policy applies.  A fallback response goes through record_success as well,
\* with no await between the two.
Fail(c) ==
    /\ pc[c] = "first" /\ MayFail(c)
    /\ streak' = Bump(streak)
    /\ \/ /\ policy = "fallback"
          /\ record_success
          /\ Leave(c)
       \/ /\ policy # "fallback"
          /\ record_failure
          /\ Leave(c)
       \/ /\ policy = "retry"
          /\ record_failure
          /\ pc' = [pc EXCEPT ![c] = "retrying"]
          /\ UNCHANGED <<healthy, stale, policy>>

\* The retries are used up, out of time, paused or suppressed: not recorded
\* again.  (A retry that fails and is followed by another changes nothing.)
GiveUp(c) ==
    /\ pc[c] = "retrying" /\ MayFail(c)
    /\ Leave(c)
    /\ UNCHANGED <<failures, opened, halfOpen, streak>>

\* Environment: the dependency recovers; calls already in flight may still fail.
Recover ==
    /\ ~healthy
    /\ healthy' = TRUE
    /\ stale' = {c \in Calls : pc[c] # "idle"}
    /\ UNCHANGED <<failures, opened, halfOpen, pc, streak, policy>>

Outcome(c) == Succeed(c) \/ TimeOut(c) \/ EndUnrecorded(c) \/ Fail(c) \/ GiveUp(c)

BreakerNext ==
    \/ CooldownElapses
    \/ Recover
    \/ \E c \in Calls : Check(c) \/ Outcome(c)

BreakerSpec == BreakerInit /\ [][BreakerNext]_breakerVars

(***************************************************************************)
(* Fairness: the clock advances, an invocation ends (it has a deadline)    *)
(* and clients keep calling.                                               *)
(***************************************************************************)
BreakerFairSpec ==
    /\ BreakerSpec
    /\ WF_breakerVars(CooldownElapses)
    /\ \A c \in Calls : WF_breakerVars(Check(c)) /\ WF_breakerVars(Outcome(c))

-----------------------------------------------------------------------------
(* Properties. *)

\* The module docstring of resilience.py: after `threshold` consecutive failed
\* invocations the circuit is not closed.  The fallback policy reports each of
\* its failures as a success too, and is left out.
OpensUnlessFallback == policy # "fallback" /\ streak >= Threshold => opened # "none"

\* A closed circuit opens only when the last `threshold` invocations that
\* reported to it have failed: a success in between starts the count again.
TripsOnlyAtThreshold ==
    [][opened = "none" /\ opened' # "none" => streak' >= Threshold]_breakerVars

\* The flag that makes a single failure reopen the circuit is set only once
\* the cooldown is over and dies with the trip or the success it leads to.
HalfOpenOnlyAfterCooldown == halfOpen => opened = "elapsed"

\* No circuit stays open for ever: once the dependency has recovered the
\* circuit closes and stays closed, whatever late failures, pauses and
\* cancelled probes the outage has left behind.
HealsAfterOutage == <>[]healthy => <>[](opened = "none")

\* The breaker's inductive invariant: the recorded count never exceeds the
\* true one, and equals it unless the fallback policy reports its failures as
\* successes.
BreakerInv ==
    /\ BreakerTypeOK
    /\ HalfOpenOnlyAfterCooldown
    /\ failures >= Threshold => opened # "none"
    /\ failures <= streak
    /\ policy # "fallback" => failures = streak
=============================================================================
