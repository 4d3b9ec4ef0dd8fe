----------------------------- MODULE Invocation -----------------------------
(***************************************************************************)
(* AdkRuntime._invoke and _invoke_inner (src/runtimes/adk/runtime.py): one *)
(* conversation turn that runs tools with side effects, the checkpoints it *)
(* leaves, the approvals it pauses for, and the retries, resumes and       *)
(* crashes that may run it again.                                          *)
(*                                                                         *)
(* A request is one call of the runtime.  The first request of the turn is *)
(* fresh; the others resume it from a checkpoint or answer an approval.    *)
(* A request is interrupted only at an await on a store, the model or a    *)
(* tool, so the stretch up to the next such await is one action.  A        *)
(* transcript is abstracted to the side effects it tells the model about.  *)
(***************************************************************************)
EXTENDS Naturals, Sequences

CONSTANTS Slots,           \* the requests of the turn, numbered in the order they are sent
          None,            \* no record under this id
          MaxIterations,   \* spec.runtime.max_iterations
          WaveMax,         \* bound: tool requests in one model answer
          RetryMax,        \* retry_max_attempts; 0 for any other error_policy
          Setups,          \* the deployments to consider, see Setup
          Failures         \* what may happen at an await

Setup == [approval : BOOLEAN,      \* the policy sets approval_required
          atomicTake : BOOLEAN,    \* approvals: get and delete without suspending
          streaming : BOOLEAN,     \* stream() rather than invoke()
          concurrent : BOOLEAN,    \* a request may be sent while another one runs
          followups : SUBSET {"resume", "approve"},  \* what the client sends next
          requests : Slots]        \* bound: the last request of the turn

ASSUME InvocationAssumption ==
    /\ Slots \subseteq Nat
    /\ MaxIterations \in Nat \ {0}
    /\ WaveMax \in Nat \ {0}
    /\ RetryMax \in Nat
    /\ Setups \subseteq Setup
    /\ Failures \subseteq {"retryable", "final"}

VARIABLES setup,       \* the deployment, never changes
          inv,         \* the local state of every request
          ckpt,        \* the checkpoint store, by checkpoint id
          pend,        \* the approval store, by continuation id
          performed,   \* side effects that tools were asked for
          blind        \* those asked for by a request that did not know them all

vars == <<setup, inv, ckpt, pend, performed, blind>>

Waves == UNION {[1..n -> {"read", "write"}] : n \in 1..WaveMax}

\* One call of a tool: the request, its model turn and its place in the wave.
Effects == Slots \X (1..MaxIterations) \X (1..WaveMax)

InvPc == {"unused", "load", "take", "consume", "save", "model", "pauseSave",
          "pauseDelete", "delete", "tools", "persist", "finish",
          "done", "paused", "failed"}
Ended == {"done", "paused", "failed"}
Active(i) == inv[i].pc \notin Ended \cup {"unused"}

TypeOK ==
    /\ setup \in Setups
    /\ inv \in [Slots ->
          [pc : InvPc, kind : {"fresh", "resume", "approve"}, key : Slots,
           cid : Slots, approve : BOOLEAN, iter : 0..MaxIterations,
           known : SUBSET Effects, wave : Waves \cup {<<>>}, at : 1..WaveMax,
           granted : 0..MaxIterations,
           tries : 0..RetryMax, attempted : BOOLEAN, emitted : BOOLEAN]]
    /\ ckpt \in [Slots -> {None} \cup [known : SUBSET Effects, iter : 0..MaxIterations]]
    /\ pend \in [Slots -> {None} \cup
          [known : SUBSET Effects, iter : 0..MaxIterations, wave : Waves]]
    /\ performed \in SUBSET Effects
    /\ blind \in SUBSET Effects

\* The state of a request that has just entered _invoke.
Request(i, kind, key, cid, approve) ==
    [pc |-> CASE kind = "fresh"   -> "save"
              [] kind = "resume"  -> "load"
              [] kind = "approve" -> "take",
     kind |-> kind, key |-> key, cid |-> cid, approve |-> approve,
     iter |-> 0, known |-> {}, wave |-> <<>>, at |-> 1, granted |-> 0,
     tries |-> 0, attempted |-> FALSE, emitted |-> FALSE]

Init ==
    /\ setup \in Setups
    /\ inv = [i \in Slots |-> [Request(i, "fresh", i, i, FALSE) EXCEPT !.pc = "unused"]]
    /\ ckpt = [k \in Slots |-> None]
    /\ pend = [c \in Slots |-> None]
    /\ performed = {}
    /\ blind = {}

-----------------------------------------------------------------------------
(* The client. *)

Sendable(i) ==
    /\ inv[i].pc = "unused" /\ i <= setup.requests
    /\ \A j \in Slots : j < i => inv[j].pc # "unused"
    /\ setup.concurrent \/ \A j \in Slots : ~Active(j)

FreshRequest(i) ==
    /\ Sendable(i)
    /\ \A j \in Slots : inv[j].pc = "unused"
    /\ inv' = [inv EXCEPT ![i] = Request(i, "fresh", i, i, FALSE)]
    /\ UNCHANGED <<ckpt, pend, performed, blind>>

\* A request with checkpoint_id: the id is that of an earlier request.
ResumeRequest(i, j) ==
    /\ "resume" \in setup.followups
    /\ Sendable(i)
    /\ inv[j].pc # "unused"
    /\ inv' = [inv EXCEPT ![i] = Request(i, "resume", inv[j].key, i, FALSE)]
    /\ UNCHANGED <<ckpt, pend, performed, blind>>

\* A request with continuation_id: some earlier answer was approval_required.
ApproveRequest(i, j, decision) ==
    /\ "approve" \in setup.followups
    /\ Sendable(i)
    /\ inv[j].pc = "paused"
    /\ inv' = [inv EXCEPT ![i] = Request(i, "approve", i, inv[j].cid, decision)]
    /\ UNCHANGED <<ckpt, pend, performed, blind>>

-----------------------------------------------------------------------------
(* The error policy of _invoke. *)

\* Mutant: the first failure is retried whatever has been attempted.
MayRetryAfterEffects(i) ==
    /\ inv[i].tries < RetryMax
    /\ inv[i].tries = 0 => ~inv[i].emitted

\* Mutant: streamed output does not suppress the retry.
MayRetryAfterOutput(i) == inv[i].tries < RetryMax /\ ~inv[i].attempted

\* Output suppresses the retry only of the first attempt, an attempted side
\* effect that of every attempt.
MayRetry(i) ==
    /\ inv[i].tries < RetryMax
    /\ ~inv[i].attempted
    /\ inv[i].tries = 0 => ~inv[i].emitted

\* A retry runs _invoke_inner again with the same request; the attempted
\* tools and the output flag belong to _invoke and survive.
Retried(i) ==
    [Request(i, inv[i].kind, inv[i].key, inv[i].cid, inv[i].approve) EXCEPT
        !.tries = inv[i].tries + 1, !.emitted = inv[i].emitted,
        !.attempted = inv[i].attempted]

Throw(i, retryable) ==
    inv' = [inv EXCEPT ![i] = IF retryable /\ MayRetry(i) THEN Retried(i)
                              ELSE [inv[i] EXCEPT !.pc = "failed"]]

\* An await raises: a dependency failure, which is retryable, or else the
\* deadline, a cancellation, a deterministic error or the end of the process.
Raise(i, failure) ==
    /\ Active(i)
    /\ failure \in Failures
    /\ Throw(i, failure = "retryable")
    /\ UNCHANGED <<ckpt, pend, performed, blind>>

-----------------------------------------------------------------------------
(* Entering: the checkpoint or the continuation. *)

Goto(i, place) == inv' = [inv EXCEPT ![i].pc = place]

\* checkpoint_store.get: CheckpointNotFoundError is classified retryable.
Load(i) ==
    /\ inv[i].pc = "load"
    /\ IF ckpt[inv[i].key] = None
       THEN Throw(i, TRUE)
       ELSE inv' = [inv EXCEPT ![i].pc = "save",
                               ![i].known = ckpt[inv[i].key].known,
                               ![i].iter = ckpt[inv[i].key].iter]
    /\ UNCHANGED <<ckpt, pend, performed, blind>>

\* Where the continuation goes on: an approved wave is executed, a denied one
\* only adds denials to the transcript.
Replay(i) == IF inv[i].approve THEN "tools" ELSE "save"

Snapshot(i, place, granted) ==
    inv' = [inv EXCEPT ![i].pc = place,
                       ![i].known = pend[inv[i].cid].known,
                       ![i].iter = pend[inv[i].cid].iter,
                       ![i].wave = pend[inv[i].cid].wave,
                       ![i].granted = granted,
                       ![i].at = 1]

\* Mutant: the continuation is not consumed.
TakeWithoutDelete(i) ==
    /\ inv[i].pc = "take"
    /\ IF pend[inv[i].cid] = None THEN Throw(i, FALSE) ELSE Snapshot(i, Replay(i), pend[inv[i].cid].iter)
    /\ UNCHANGED <<ckpt, pend, performed, blind>>

\* _approval_store.get, and delete when the store does not suspend in between.
\* A continuation that is gone raises ContinuationNotFoundError.
Take(i) ==
    /\ inv[i].pc = "take"
    /\ \/ /\ pend[inv[i].cid] = None
          /\ Throw(i, FALSE)
          /\ UNCHANGED pend
       \/ /\ pend[inv[i].cid] # None
          /\ setup.atomicTake
          /\ Snapshot(i, Replay(i), pend[inv[i].cid].iter)
          /\ pend' = [pend EXCEPT ![inv[i].cid] = None]
       \/ /\ pend[inv[i].cid] # None
          /\ ~setup.atomicTake
          /\ Snapshot(i, "consume", 0)
          /\ UNCHANGED pend
    /\ UNCHANGED <<ckpt, performed, blind>>

Consume(i) ==
    /\ inv[i].pc = "consume"
    /\ pend' = [pend EXCEPT ![inv[i].cid] = None]
    /\ inv' = [inv EXCEPT ![i].pc = Replay(i), ![i].granted = inv[i].iter]
    /\ UNCHANGED <<ckpt, performed, blind>>

\* Continuations expire.
ExpireApproval(c) ==
    /\ pend[c] # None
    /\ pend' = [pend EXCEPT ![c] = None]
    /\ UNCHANGED <<inv, ckpt, performed, blind>>

-----------------------------------------------------------------------------
(* The loop: checkpoint, model, tool wave. *)

Save(i) ==
    /\ inv[i].pc = "save"
    /\ ckpt' = [ckpt EXCEPT ![inv[i].key] = [known |-> inv[i].known, iter |-> inv[i].iter]]
    /\ Goto(i, "model")
    /\ UNCHANGED <<pend, performed, blind>>

\* A delta of the model's answer reaches the client.
Emit(i) ==
    /\ setup.streaming
    /\ inv[i].pc = "model"
    /\ ~inv[i].emitted
    /\ inv' = [inv EXCEPT ![i].emitted = TRUE]
    /\ UNCHANGED <<ckpt, pend, performed, blind>>

ModelFinal(i) ==
    /\ inv[i].pc = "model"
    /\ inv' = [inv EXCEPT ![i].pc = "persist", ![i].iter = @ + 1]
    /\ UNCHANGED <<ckpt, pend, performed, blind>>

\* Mutant: only the first tool request of the wave is looked at.
ReplaySafeByFirst(w) == w[1] = "read"

\* _tool_wave_is_replay_safe
ReplaySafe(w) == \A n \in DOMAIN w : w[n] = "read"

\* _approval_needed
ApprovalNeeded(w) == setup.approval /\ \E n \in DOMAIN w : w[n] = "write"

LimitReached(n) == n >= MaxIterations

\* Mutant: the iteration counter is not advanced.
ModelToolsUncounted(i, w) ==
    /\ inv[i].pc = "model"
    /\ inv' = [inv EXCEPT ![i].pc = "tools", ![i].wave = w, ![i].at = 1,
                          ![i].iter = 1]
    /\ UNCHANGED <<ckpt, pend, performed, blind>>

\* The model asks for tools: the iteration limit, then the approval, then the
\* checkpoint that must go, then the wave.
ModelTools(i, w) ==
    /\ inv[i].pc = "model"
    /\ inv' = [inv EXCEPT
          ![i].iter = @ + 1,
          ![i].wave = w,
          ![i].at = 1,
          ![i].pc = IF LimitReached(inv[i].iter + 1) THEN "persist"
                    ELSE IF ApprovalNeeded(w) THEN "pauseSave"
                    ELSE IF ReplaySafe(w) THEN "tools" ELSE "delete"]
    /\ UNCHANGED <<ckpt, pend, performed, blind>>

PauseSave(i) ==
    /\ inv[i].pc = "pauseSave"
    /\ pend' = [pend EXCEPT ![inv[i].cid] =
          [known |-> inv[i].known, iter |-> inv[i].iter, wave |-> inv[i].wave]]
    /\ Goto(i, "pauseDelete")
    /\ UNCHANGED <<ckpt, performed, blind>>

\* _ApprovalPausedError becomes the answer approval_required only when the
\* first attempt raises it; out of a retry it escapes as an error.
PauseDelete(i) ==
    /\ inv[i].pc = "pauseDelete"
    /\ ckpt' = [ckpt EXCEPT ![inv[i].key] = None]
    /\ Goto(i, IF inv[i].tries = 0 THEN "paused" ELSE "failed")
    /\ UNCHANGED <<pend, performed, blind>>

UnsafeDelete(i) ==
    /\ inv[i].pc = "delete"
    /\ ckpt' = [ckpt EXCEPT ![inv[i].key] = None]
    /\ Goto(i, "tools")
    /\ UNCHANGED <<pend, performed, blind>>

\* _execute_tools goes on to the next request of the wave, or returns.
Advance(r) == IF r.at = Len(r.wave)
              THEN [r EXCEPT !.pc = "save", !.wave = <<>>, !.at = 1]
              ELSE [r EXCEPT !.at = r.at + 1]

\* A read-only tool, or a request that is not executed: an unknown tool,
\* invalid arguments, a denial by policy, a duplicate operation.
ToolWithoutEffect(i) ==
    /\ inv[i].pc = "tools"
    /\ inv' = [inv EXCEPT ![i] = Advance(@)]
    /\ UNCHANGED <<ckpt, pend, performed, blind>>

\* evaluate_side_effect: approval_required denies every side effect outside
\* the wave that a continuation replays (skip_side_effect_approval).
PolicyAllows(i) == setup.approval => inv[i].granted = inv[i].iter

\* tool.execute of a tool that is not read-only.  Its failure is a result like
\* any other, so the effect counts from the moment it is attempted.
ToolWithEffect(i) ==
    LET e == <<i, inv[i].iter, inv[i].at>> IN
    /\ inv[i].pc = "tools"
    /\ inv[i].wave[inv[i].at] = "write"
    /\ PolicyAllows(i)
    /\ performed' = performed \cup {e}
    /\ blind' = IF performed \subseteq inv[i].known THEN blind ELSE blind \cup {e}
    /\ inv' = [inv EXCEPT ![i] = Advance([inv[i] EXCEPT !.known = inv[i].known \cup {e},
                                                        !.attempted = TRUE])]
    /\ UNCHANGED <<ckpt, pend>>

\* session_provider.update and memory_provider.store.
Persist(i) ==
    /\ inv[i].pc = "persist"
    /\ Goto(i, "finish")
    /\ UNCHANGED <<ckpt, pend, performed, blind>>

\* The final delete and the answer.
Finish(i) ==
    /\ inv[i].pc = "finish"
    /\ ckpt' = [ckpt EXCEPT ![inv[i].key] = None]
    /\ Goto(i, "done")
    /\ UNCHANGED <<pend, performed, blind>>

-----------------------------------------------------------------------------
RuntimeStep(i) ==
    \/ Load(i) \/ Take(i) \/ Consume(i) \/ Save(i) \/ Emit(i) \/ ModelFinal(i)
    \/ \E w \in Waves : ModelTools(i, w)
    \/ PauseSave(i) \/ PauseDelete(i) \/ UnsafeDelete(i)
    \/ ToolWithoutEffect(i) \/ ToolWithEffect(i) \/ Persist(i) \/ Finish(i)

ClientStep(i) ==
    \/ FreshRequest(i)
    \/ \E j \in Slots : ResumeRequest(i, j)
    \/ \E j \in Slots, decision \in BOOLEAN : ApproveRequest(i, j, decision)

Next ==
    /\ \/ \E i \in Slots : ClientStep(i) \/ RuntimeStep(i)
       \/ \E i \in Slots, f \in {"retryable", "final"} : Raise(i, f)
       \/ \E c \in Slots : ExpireApproval(c)
    /\ UNCHANGED setup

Spec == Init /\ [][Next]_vars

\* Fairness: every await of a running request ends.  The model call, the tools
\* and the stores are all under the invocation's deadline.
FairSpec == Spec /\ \A i \in Slots : WF_vars(RuntimeStep(i) /\ UNCHANGED setup)

-----------------------------------------------------------------------------
(* Properties. *)

\* No side effect is asked for by a request whose transcript misses one that
\* was already attempted in this turn: neither a retry, nor a resume, nor a
\* second approval replays a side effect behind the model's back.
NoUnsafeReplay == blind = {}

\* "The runtime persists checkpoints only at replay-safe model-call
\* boundaries": without approvals a stored checkpoint knows every side effect
\* attempted so far.  (With approvals one that a failed pause left behind may
\* be outdated by the wave that the approval then runs.)
CheckpointsComplete ==
    ~setup.approval =>
        \A k \in Slots : ckpt[k] # None => performed \subseteq ckpt[k].known

\* Under approval_required a side effect belongs to the wave of an approved
\* continuation, and never to a denied one or to a later wave.
ApprovalGate ==
    setup.approval =>
        \A e \in performed :
            /\ inv[e[1]].kind = "approve"
            /\ inv[e[1]].approve
            /\ inv[e[1]].granted = e[2]

\* "Consume a pending approval": a saved continuation is acted on by at most
\* one request, however many answer it.
ConsumedOnce ==
    \A i, j \in Slots :
        /\ inv[i].granted # 0
        /\ inv[i].cid = inv[j].cid
        /\ inv[i].granted = inv[j].granted
        => i = j

\* Approvals under overlapping answers, retries and expiry: only the approved wave
\* of a continuation runs, for one request (_invoke_inner, _execute_tools).
ApprovalsSound == TypeOK /\ ApprovalGate /\ ConsumedOnce

\* "Once any output delta has been delivered, invocation-level retry/fallback
\* is suppressed": output of the first attempt rules a second one out.
FirstOutputNotReplayed ==
    [][\A i \in Slots : inv[i].emitted /\ inv[i].tries = 0 => inv'[i].tries = 0]_vars

\* "A pause is not an error: retry/fallback policies must not apply": a
\* request that got as far as dropping its checkpoint for an approval answers
\* approval_required.
PauseReported ==
    [][\A i \in Slots : PauseDelete(i) => inv'[i].pc = "paused"]_vars

\* A request that is sent is answered: the loop, the retries and the pauses
\* all end.
InvocationEnds == \A i \in Slots : Active(i) ~> ~Active(i)
=============================================================================
