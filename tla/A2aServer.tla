----------------------------- MODULE A2aServer -----------------------------
(***************************************************************************)
(* The A2A bridge (interoperability/a2a_server.py) and its push sender     *)
(* (a2a_store.py).  execute() registers its asyncio task, publishes the    *)
(* task's states and the answer as an artifact, streamed in chunks when    *)
(* the runtime streams; cancel() cancels the registered asyncio task, or   *)
(* publishes the cancellation itself.  The sender posts one notification   *)
(* to the callbacks of a task.                                             *)
(*                                                                         *)
(* An execution is suspended where its pc says; task.cancel() makes its    *)
(* next step raise CancelledError there.  Texts are sequences of letters.  *)
(***************************************************************************)
EXTENDS Selection, SequencesExt, FiniteSets

CONSTANTS
    Executions, Tasks, TaskOf,
    Letters, MaxDeltas,     \* a stream's deltas are single letters
    Answers,                \* the texts a final response may carry
    MaxCancels,             \* bound on the calls of cancel()
    Senders, Callbacks, BadUrls, MaxAttempts

ASSUME A2aAssumption ==
    /\ IsFiniteSet(Executions) /\ "none" \notin Executions    \* the entry of a task without one
    /\ TaskOf \in [Executions -> Tasks] /\ {MaxDeltas, MaxCancels} \subseteq Nat
    /\ Answers \subseteq Seq(Letters) \ {<<>>}
    /\ BadUrls \subseteq Callbacks /\ MaxAttempts \in Nat \ {0}

VARIABLES
    streaming,  \* rigid: the runtime advertises streaming
    exec,       \* the calls of execute()
    inFlight,   \* _in_flight: Tasks -> an execution or none
    log,        \* log[t]: the states published for task t, with their publisher
    starts,     \* calls of execute() so far
    cancels,    \* calls of cancel() so far
    registered, \* the callbacks stored for the task, oldest first
    push        \* the calls of send_notification()

avars == <<streaming, exec, inFlight, log, starts, cancels, registered, push>>
pushing == <<registered, push>>

None == "none"
Body == {"seed", "work", "run"}             \* awaits inside the try block
Outside == {"artifact", "complete", "failing", "canceling"}
Terminal == {"completed", "failed", "canceled"}
Published == {"submitted", "working"} \cup Terminal
Results == {"ok", "refused", "again", "lost"}
Texts == Seq(Letters)

TypeOK ==
    /\ streaming \in BOOLEAN
    /\ \A e \in Executions :
        /\ exec[e].pc \in {"idle", "done"} \cup Body \cup Outside
        /\ {exec[e].asked, exec[e].hit, exec[e].cut} \subseteq BOOLEAN
        /\ {exec[e].deltas, exec[e].emitted, exec[e].pending, exec[e].final} \subseteq Texts
        /\ exec[e].chunks \in Seq([text : Texts, append : BOOLEAN, last : BOOLEAN])
        /\ exec[e].since \in 0..starts
    /\ inFlight \in [Tasks -> Executions \cup {None}]
    /\ log \in [Tasks -> Seq([by : Executions \cup {None}, state : Published])]
    /\ starts \in 0..Cardinality(Executions) /\ cancels \in 0..MaxCancels
    /\ registered \in Seq(Callbacks)
    /\ \A s \in Senders :
        /\ push[s].pc \in {"idle", "next", "post", "done", "raised"}
        /\ push[s].todo \in Seq(Callbacks) /\ push[s].read \in SUBSET Callbacks
        /\ \A c \in Callbacks : push[s].got[c] \in Seq(Results) /\ Len(push[s].got[c]) <= MaxAttempts

Init ==
    /\ streaming \in BOOLEAN
    /\ exec = [e \in Executions |-> [pc |-> "idle", asked |-> FALSE, hit |-> FALSE, cut |-> FALSE,
                                     deltas |-> <<>>, emitted |-> <<>>, pending |-> <<>>,
                                     final |-> <<>>, chunks |-> <<>>, since |-> 0]]
    /\ inFlight = [t \in Tasks |-> None]
    /\ log = [t \in Tasks |-> <<>>]
    /\ starts = 0 /\ cancels = 0
    /\ registered = <<>>
    /\ push = [s \in Senders |-> [pc |-> "idle", todo |-> <<>>, read |-> {}, got |-> [c \in Callbacks |-> <<>>]]]

------------------------------------------------------------------------------
(* execute().                                                                *)

Go(e, pc) == exec' = [exec EXCEPT ![e].pc = pc]
At(e, pc) == exec[e].pc = pc /\ ~exec[e].asked
Publish(t, who, state) == log' = [log EXCEPT ![t] = Append(@, [by |-> who, state |-> state])]

\* Mutant of Leave: whatever is registered for the task is removed.
LeaveAny(e) == inFlight' = [inFlight EXCEPT ![TaskOf[e]] = None]

\* The finally block: the entry is removed if it is still this asyncio task.
Leave(e) == inFlight' = [inFlight EXCEPT ![TaskOf[e]] = IF @ = e THEN None ELSE @]

Start(e) ==
    /\ exec[e].pc = "idle"
    /\ starts' = starts + 1
    /\ inFlight' = [inFlight EXCEPT ![TaskOf[e]] = e]
    /\ exec' = [exec EXCEPT ![e].pc = "seed", ![e].since = starts + 1]
    /\ UNCHANGED <<streaming, log, cancels, pushing>>

\* _enqueue_initial_task, then start_work.
Seed(e) ==
    /\ At(e, "seed")
    /\ Publish(TaskOf[e], e, "submitted") /\ Go(e, "work")
    /\ UNCHANGED <<streaming, inFlight, starts, cancels, pushing>>

Work(e) ==
    /\ At(e, "work")
    /\ Publish(TaskOf[e], e, "working") /\ Go(e, "run")
    /\ UNCHANGED <<streaming, inFlight, starts, cancels, pushing>>

\* agent.invoke() answers.
Answer(e) ==
    /\ At(e, "run") /\ ~streaming
    /\ \E a \in Answers : exec' = [exec EXCEPT ![e].pc = "artifact", ![e].final = a]
    /\ UNCHANGED <<streaming, inFlight, log, starts, cancels, pushing>>

Chunk(x, text, last) == Append(x.chunks, [text |-> text, append |-> x.chunks # <<>>, last |-> last])

\* A delta arrives; the one before it is published.
Delta(e, d) ==
    /\ At(e, "run") /\ streaming /\ Len(exec[e].deltas) < MaxDeltas
    /\ LET x == exec[e]
       IN exec' = [exec EXCEPT ![e] =
             [x EXCEPT !.deltas = Append(x.deltas, d), !.pending = <<d>>,
                       !.chunks = IF x.pending = <<>> THEN x.chunks ELSE Chunk(x, x.pending, FALSE),
                       !.emitted = x.emitted \o x.pending]]
    /\ UNCHANGED <<streaming, inFlight, log, starts, cancels, pushing>>

\* The text of the last chunk: what is pending and what the final response adds.
FinalDelta(x, final) ==
    LET combined == x.emitted \o x.pending IN
    IF IsPrefix(combined, final)
      THEN x.pending \o SubSeq(final, Len(combined) + 1, Len(final))
      ELSE IF x.chunks = <<>> THEN final ELSE x.pending

StreamEnds(e) ==
    /\ At(e, "run") /\ streaming
    /\ \E a \in Answers :
         LET x == exec[e]
             text == FinalDelta(x, a)
         IN exec' = [exec EXCEPT ![e] =
               [x EXCEPT !.pc = "complete", !.final = a,
                         !.chunks = IF text # <<>> \/ x.chunks = <<>> THEN Chunk(x, text, TRUE) ELSE x.chunks]]
    /\ UNCHANGED <<streaming, inFlight, log, starts, cancels, pushing>>

\* The agent raises, or a stream ends without a final response.
Fails(e) ==
    /\ At(e, "run")
    /\ Go(e, "failing")
    /\ UNCHANGED <<streaming, inFlight, log, starts, cancels, pushing>>

Artifact(e) ==
    /\ At(e, "artifact")
    /\ exec' = [exec EXCEPT ![e].pc = "complete", ![e].chunks = Chunk(exec[e], exec[e].final, FALSE)]
    /\ UNCHANGED <<streaming, inFlight, log, starts, cancels, pushing>>

\* The last status update of a call, and the finally block.
Outcome(e) ==
    /\ \/ At(e, "complete") /\ Publish(TaskOf[e], e, "completed")
       \/ At(e, "failing") /\ Publish(TaskOf[e], e, "failed")
       \/ At(e, "canceling") /\ Publish(TaskOf[e], e, "canceled")
    /\ Go(e, "done") /\ Leave(e)
    /\ UNCHANGED <<streaming, starts, cancels, pushing>>

\* Mutant of Thrown: the cancellation is handled as a failure.
ThrownFailed(e) ==
    /\ exec[e].asked /\ exec[e].pc # "done"
    /\ exec' = [exec EXCEPT ![e] = [@ EXCEPT !.asked = FALSE, !.hit = TRUE, !.pc = "failing"]]
    /\ UNCHANGED <<streaming, inFlight, log, starts, cancels, pushing>>

\* CancelledError: caught around the agent's work, not in the handlers and the
\* else clause, where it ends the call with nothing published.
Thrown(e) ==
    /\ exec[e].asked /\ exec[e].pc # "done"
    /\ IF exec[e].pc \in Body
         THEN /\ exec' = [exec EXCEPT ![e].asked = FALSE, ![e].hit = TRUE, ![e].pc = "canceling"]
              /\ UNCHANGED inFlight
         ELSE /\ exec' = [exec EXCEPT ![e].asked = FALSE, ![e].hit = TRUE, ![e].cut = TRUE, ![e].pc = "done"]
              /\ Leave(e)
    /\ UNCHANGED <<streaming, log, starts, cancels, pushing>>

\* cancel(): runs on the request's own asyncio task, never the registered one.
Cancel(t) ==
    /\ cancels < MaxCancels /\ cancels' = cancels + 1
    /\ IF inFlight[t] # None
         THEN exec' = [exec EXCEPT ![inFlight[t]].asked = TRUE] /\ UNCHANGED log
         ELSE Publish(t, None, "canceled") /\ UNCHANGED exec
    /\ UNCHANGED <<streaming, inFlight, starts, pushing>>

------------------------------------------------------------------------------
(* Push notifications: the configuration store and send_notification().      *)

SetInfo(c) ==
    /\ registered' = IF c \in Range(registered) THEN registered ELSE Append(registered, c)
    /\ UNCHANGED <<streaming, exec, inFlight, log, starts, cancels, push>>

DeleteInfo(gone) ==
    /\ gone # {} /\ gone \subseteq Range(registered)
    /\ registered' = Filtered(registered, Callbacks \ gone)
    /\ UNCHANGED <<streaming, exec, inFlight, log, starts, cancels, push>>

PushSet(s, x) ==
    /\ push' = [push EXCEPT ![s] = x]
    /\ UNCHANGED <<streaming, exec, inFlight, log, starts, cancels, registered>>

SendNotification(s) ==
    /\ push[s].pc = "idle"
    /\ PushSet(s, [push[s] EXCEPT !.pc = "next", !.todo = registered, !.read = Range(registered)])

\* The next callback; an unacceptable URL raises out of the whole call.
NextCallback(s) ==
    /\ push[s].pc = "next"
    /\ PushSet(s, [push[s] EXCEPT !.pc = IF push[s].todo = <<>> THEN "done"
                                         ELSE IF Head(push[s].todo) \in BadUrls THEN "raised" ELSE "post"])

\* One attempt: answered, refused (4xx), to be repeated (429, 5xx), or lost.
Post(s, r) ==
    /\ push[s].pc = "post"
    /\ LET c == Head(push[s].todo)
           got == Append(push[s].got[c], r)
           over == r \in {"ok", "refused"} \/ Len(got) = MaxAttempts
       IN PushSet(s, [push[s] EXCEPT !.got[c] = got, !.pc = IF over THEN "next" ELSE "post",
                                     !.todo = IF over THEN Tail(@) ELSE @])

------------------------------------------------------------------------------
ExecStep(e) ==
    \/ Start(e) \/ Seed(e) \/ Work(e) \/ Answer(e) \/ StreamEnds(e) \/ Fails(e) \/ Artifact(e)
    \/ Outcome(e) \/ Thrown(e) \/ \E d \in Letters : Delta(e, d)

PushStep(s) == SendNotification(s) \/ NextCallback(s) \/ \E r \in Results : Post(s, r)

Next ==
    \/ \E e \in Executions : ExecStep(e)
    \/ \E t \in Tasks : Cancel(t)
    \/ \E s \in Senders : PushStep(s)
    \/ \E c \in Callbacks : SetInfo(c)
    \/ \E gone \in SUBSET Callbacks : DeleteInfo(gone)

Spec == Init /\ [][Next]_avars

------------------------------------------------------------------------------
(* Properties.                                                               *)

Running(e) == exec[e].pc \notin {"idle", "done"}
By(e) == Filtered(log[TaskOf[e]], [by : {e}, state : Published])

\* cancel() reaches the newest running execution of a task, and never one that
\* is over: _in_flight holds it from its registration to its finally block, even
\* when executions of the same task overlap.
CancelFindsNewest ==
    /\ \A t \in Tasks : inFlight[t] # None => Running(inFlight[t]) /\ TaskOf[inFlight[t]] = t
    /\ \A e \in Executions :
        Running(e) /\ (\A f \in Executions : TaskOf[f] = TaskOf[e] => exec[f].since <= exec[e].since)
            => inFlight[TaskOf[e]] = e

\* An execution that is over has published one outcome, after everything else;
\* the exception is a cancellation that hit it while it published the outcome.
EndsWithOutcome ==
    \A e \in Executions :
        LET mine == By(e)
            ends == {i \in DOMAIN mine : mine[i].state \in Terminal}
        IN /\ exec[e].pc = "done" /\ ~exec[e].cut => ends = {Len(mine)}
           /\ exec[e].pc # "done" \/ exec[e].cut => ends = {}

\* What a client assembles from the chunks of a completed task is the final text,
\* or the streamed deltas where the final text does not continue them; the first
\* chunk starts the artifact, the others extend it, and a stream marks its last.
Assembled(x) == FlattenSeq([i \in DOMAIN x.chunks |-> x.chunks[i].text])
ArtifactWhole ==
    \A e \in Executions :
        LET x == exec[e] IN
        x.pc = "done" /\ ~x.hit /\ x.final # <<>> =>
            /\ Assembled(x) = x.final \/ (Assembled(x) = x.deltas /\ ~IsPrefix(x.deltas, x.final))
            /\ \A i \in DOMAIN x.chunks : /\ x.chunks[i].append = (i > 1)
                                          /\ x.chunks[i].last = (streaming /\ i = Len(x.chunks))

\* Once a cancellation has reached an execution it publishes nothing but the
\* cancellation: no late artifact, completion or failure.
CancelWins ==
    [][\A e \in Executions : exec[e].hit =>
        /\ exec'[e].chunks = exec[e].chunks
        /\ By(e)' = By(e) \/ By(e)' = Append(By(e), [by |-> e, state |-> "canceled"])]_avars

\* A notification that ended without an error has tried every callback it read
\* until a final answer or the last attempt, and none after its answer.
PushSettled ==
    \A s \in Senders : push[s].pc = "done" =>
        \A c \in push[s].read :
            LET got == push[s].got[c] IN
            /\ got # <<>> /\ (Last(got) \in {"ok", "refused"} \/ Len(got) = MaxAttempts)
            /\ \A i \in DOMAIN got : got[i] \in {"ok", "refused"} => i = Len(got)

\* The bridge keeps what A2A expects of it: cancel() finds the execution, each
\* execution ends in one outcome with a whole artifact (execute, _stream_response),
\* and a notification is settled with every callback (send_notification).
BridgeSound == TypeOK /\ CancelFindsNewest /\ EndsWithOutcome /\ ArtifactWhole /\ PushSettled
=============================================================================
