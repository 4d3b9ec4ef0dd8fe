------------------------------ MODULE GoogleAdk ------------------------------
(***************************************************************************)
(* The Google ADK adapter (runtimes/google_adk): requests on one session,  *)
(* the session service over a SessionProvider, the tool adapter, native    *)
(* confirmations, and the snapshots of failed invocations.                 *)
(*                                                                         *)
(* ADK's runner is external: it loads the session, appends every event     *)
(* before it goes on, re-executes the unanswered calls of the invocation   *)
(* it resumes, and hands a confirmation to the call it is about.  In each  *)
(* run the model asks for the tool at most once.  The provider's           *)
(* operations are the atomic ones of VersionedStore; Sessions shows the    *)
(* four providers implement them.                                          *)
(*                                                                         *)
(* An event is <<kind, by, inv, of>>: the request whose run produced it,   *)
(* the invocation it belongs to, and the request whose tool call it is     *)
(* about.  A request makes one call, which is named after the request.     *)
(***************************************************************************)
EXTENDS Naturals, Sequences, FiniteSets, SequencesExt

CONSTANTS
    Requests,
    Setups      \* records: who takes part and with new input, whether they overlap, whether the session
                \* exists, the tool's classification, whether it is gated by approval,
                \* whether an operation registry deduplicates its calls

ASSUME SetupsAssumption ==
    \A s \in Setups :
        /\ s.who \subseteq Requests /\ s.fresh \subseteq s.who
        /\ {s.overlap, s.begun, s.gated, s.registry} \subseteq BOOLEAN
        /\ s.tool \in {"read_only", "unsafe"}

VARIABLES
    setup,      \* rigid
    sess,       \* the provider's row: version, whole (the ADK metadata is there), events
    req,        \* the requests
    ckpt,       \* ckpt[i]: the snapshot of invocation i
    claimed,    \* calls the operation registry knows
    ran,        \* ran[c]: executions of the tool for call c
    approved,   \* calls the caller has approved
    rolled      \* a restore has replaced the session

vars == <<setup, sess, req, ckpt, claimed, ran, approved, rolled>>

Kinds == {"user", "call", "resp", "ask", "yes", "no", "text"}
Event == Kinds \X Requests \X Requests \X Requests
KindOf(e) == e[1]
By(e) == e[2]
CallOf(e) == e[4]

NoSession == [ver |-> 0, whole |-> FALSE, events |-> <<>>]
NoSnapshot == [held |-> FALSE, events |-> <<>>]

Outside == {"ensure", "check", "restore", "delete", "exists", "create", "fill"}
InRunner == {"run", "get", "put", "model", "tool", "claim", "exec", "record"}
Ended == {"success", "paused", "failed"}
Active(r) == req[r].pc \notin Ended \cup {"idle"}

Quiet(r) == [pc |-> "idle", kind |-> "fresh", inv |-> r, out |-> <<>>, next |-> "idle",
             ver |-> 0, seen |-> <<>>, call |-> r, says |-> "none", called |-> FALSE, yielded |-> <<>>]

TypeOK ==
    /\ setup \in Setups
    /\ sess.ver \in Nat /\ sess.whole \in BOOLEAN /\ sess.events \in Seq(Event)
    /\ (sess.ver = 0 => sess = NoSession) /\ (~sess.whole => sess.events = <<>>)
    /\ \A r \in Requests :
        /\ req[r].pc \in Outside \cup InRunner \cup Ended \cup {"idle", "finish", "snap", "save"}
        /\ req[r].kind \in {"fresh", "resume", "approve"}
        /\ req[r].out \in Seq(Event) /\ req[r].seen \in Seq(Event) /\ req[r].yielded \in Seq(Event)
        /\ req[r].says \in {"none", "yes", "no"}
        /\ (req[r].pc \in {"get", "put"} => req[r].out # <<>>)
        /\ ckpt[r].held \in BOOLEAN /\ (ckpt[r].held => ckpt[r].events # <<>>)
        /\ ran[r] \in Nat
    /\ claimed \subseteq Requests /\ approved \subseteq Requests /\ rolled \in BOOLEAN

Init ==
    /\ setup \in Setups
    /\ sess = IF setup.begun THEN [ver |-> 1, whole |-> TRUE, events |-> <<>>] ELSE NoSession
    /\ req = [r \in Requests |-> Quiet(r)]
    /\ ckpt = [r \in Requests |-> NoSnapshot]
    /\ claimed = {} /\ approved = {} /\ rolled = FALSE
    /\ ran = [r \in Requests |-> 0]

Set(r, x) == req' = [req EXCEPT ![r] = x]
Dead(r) == [Quiet(r) EXCEPT !.pc = "failed"]
Go(r, p) == Set(r, IF p = "failed" THEN Dead(r) ELSE [req[r] EXCEPT !.pc = p])
Append2(r, es, p) == Set(r, [req[r] EXCEPT !.pc = "get", !.out = es, !.next = p])

stores == <<ckpt, claimed, ran, approved, rolled>>

------------------------------------------------------------------------------
(* invoke().                                                                 *)

MayEnter(r) ==
    /\ r \in setup.who /\ req[r].pc = "idle"
    /\ setup.overlap \/ \A q \in Requests : ~Active(q)

Invoke(r) ==
    /\ MayEnter(r) /\ r \in setup.fresh
    /\ Set(r, [Quiet(r) EXCEPT !.pc = "ensure"])
    /\ UNCHANGED <<setup, sess, stores>>

\* checkpoint_id: the stored snapshot is taken along.
Resume(r, i) ==
    /\ MayEnter(r) /\ ckpt[i].held
    /\ Set(r, [Quiet(r) EXCEPT !.pc = "restore", !.kind = "resume", !.inv = i, !.out = ckpt[i].events])
    /\ UNCHANGED <<setup, sess, stores>>

\* continuation_id: a decision on a call the caller was shown.
Decide(r, c, says) ==
    /\ MayEnter(r) /\ \E q \in Requests : req[q].pc = "paused" /\ req[q].call = c
    /\ Set(r, [Quiet(r) EXCEPT !.pc = "check", !.kind = "approve", !.call = c, !.says = says])
    /\ UNCHANGED <<setup, sess, stores>>

\* _ensure_session().  A row whose metadata is not there yet cannot be loaded.
EnsureSession(r) ==
    /\ req[r].pc = "ensure"
    /\ Go(r, IF sess.ver = 0 THEN "exists" ELSE IF sess.whole THEN "run" ELSE "failed")
    /\ UNCHANGED <<setup, sess, stores>>

Has(kind, c, events) == \E i \in DOMAIN events : KindOf(events[i]) \in kind /\ CallOf(events[i]) = c

\* _has_pending_confirmation(): the request for a confirmation, not yet answered.
HasPendingConfirmation(c) == sess.whole /\ Has({"ask"}, c, sess.events) /\ ~Has({"yes", "no"}, c, sess.events)

Check(r) ==
    /\ req[r].pc = "check"
    /\ IF HasPendingConfirmation(req[r].call)
         THEN /\ Go(r, "run")
              /\ approved' = IF req[r].says = "yes" THEN approved \cup {req[r].call} ELSE approved
         ELSE Go(r, "failed") /\ UNCHANGED approved
    /\ UNCHANGED <<setup, sess, ckpt, claimed, ran, rolled>>

------------------------------------------------------------------------------
(* The session service.                                                      *)

\* _restore_adk_checkpoint(): what the session holds is removed first.
Restore(r) ==
    /\ req[r].pc = "restore"
    /\ Go(r, IF sess.ver = 0 THEN "exists" ELSE IF sess.whole THEN "delete" ELSE "failed")
    /\ UNCHANGED <<setup, sess, stores>>

DeleteSession(r) ==
    /\ req[r].pc = "delete"
    /\ sess' = NoSession /\ rolled' = TRUE
    /\ Go(r, "exists")
    /\ UNCHANGED <<setup, ckpt, claimed, ran, approved>>

\* create_session(): AlreadyExistsError, or the provider's create() and then an
\* update that adds the ADK metadata.
SessionExists(r) ==
    /\ req[r].pc = "exists"
    /\ Go(r, IF sess.ver = 0 THEN "create" ELSE "failed")
    /\ UNCHANGED <<setup, sess, stores>>

CreateRow(r) ==
    /\ req[r].pc = "create"
    /\ sess' = [ver |-> 1, whole |-> FALSE, events |-> <<>>]
    /\ Go(r, "fill")
    /\ UNCHANGED <<setup, stores>>

FillRow(r) ==
    /\ req[r].pc = "fill"
    /\ IF sess.ver = 1
         THEN sess' = [ver |-> 2, whole |-> TRUE, events |-> <<>>] /\ Go(r, IF req[r].out = <<>> THEN "run" ELSE "get")
         ELSE Go(r, "failed") /\ UNCHANGED sess
    /\ UNCHANGED <<setup, stores>>

\* What a request does once its first outgoing event is dealt with.
Advanced(r) ==
    LET rest == Tail(req[r].out) IN
    [req[r] EXCEPT !.out = rest, !.ver = 0, !.seen = <<>>,
                   !.pc = IF rest # <<>> THEN "get" ELSE IF req[r].next = "idle" THEN "run" ELSE req[r].next,
                   !.yielded = IF req[r].next = "idle" THEN @ ELSE Append(@, Head(req[r].out))]

\* An exception below run_async() ends in the handler that stores a snapshot; one
\* while the session is restored does not.
Failed(r) ==
    IF req[r].kind = "approve" \/ (req[r].pc \in {"get", "put"} /\ req[r].next = "idle") THEN Dead(r)
    ELSE [req[r] EXCEPT !.pc = "snap", !.out = <<>>, !.ver = 0, !.seen = <<>>]

\* append_event() reads the row: an event for a session that is gone is dropped, one
\* that is there already is skipped.
AppendRead(r) ==
    /\ req[r].pc = "get"
    /\ Set(r, IF sess.ver = 0 THEN Advanced(r)
              ELSE IF ~sess.whole THEN Failed(r)
              ELSE IF Contains(sess.events, Head(req[r].out)) THEN Advanced(r)
              ELSE [req[r] EXCEPT !.pc = "put", !.ver = sess.ver, !.seen = sess.events])
    /\ UNCHANGED <<setup, sess, stores>>

\* Mutant of AppendWrite: the write states no version.
AppendWriteBlind(r) ==
    /\ req[r].pc = "put"
    /\ sess' = [ver |-> sess.ver + 1, whole |-> TRUE, events |-> Append(req[r].seen, Head(req[r].out))]
    /\ Set(r, Advanced(r))
    /\ UNCHANGED <<setup, stores>>

\* provider.update() with the version that was read, else StateConflictError.
AppendWrite(r) ==
    /\ req[r].pc = "put"
    /\ IF sess.ver = req[r].ver
         THEN /\ sess' = [ver |-> sess.ver + 1, whole |-> TRUE, events |-> Append(req[r].seen, Head(req[r].out))]
              /\ Set(r, Advanced(r))
         ELSE Set(r, Failed(r)) /\ UNCHANGED sess
    /\ UNCHANGED <<setup, stores>>

------------------------------------------------------------------------------
(* The runner and the tool adapter.                                          *)

Pending(events, i) ==
    {c \in Requests : Contains(events, <<"call", c, i, c>>) /\ ~Has({"resp"}, c, events)}

\* run_async(): a new message is appended; a resumed invocation goes on with a call
\* that has no response, if there is one.
RunAsync(r) ==
    /\ req[r].pc = "run"
    /\ IF ~sess.whole THEN Set(r, Failed(r))
       ELSE \/ /\ req[r].kind = "resume" /\ Pending(sess.events, req[r].inv) # {}
               /\ \E c \in Pending(sess.events, req[r].inv) :
                    Set(r, [req[r] EXCEPT !.pc = "tool", !.call = c, !.next = "model"])
            \/ /\ req[r].kind = "resume" /\ Pending(sess.events, req[r].inv) = {}
               /\ Set(r, [req[r] EXCEPT !.pc = "model", !.next = "model"])
            \/ req[r].kind = "fresh" /\ Append2(r, <<<<"user", r, r, r>>>>, "model")
            \/ req[r].kind = "approve" /\ Append2(r, <<<<req[r].says, r, r, req[r].call>>>>, "tool")
    /\ UNCHANGED <<setup, sess, stores>>

ModelCalls(r) ==
    /\ req[r].pc = "model" /\ ~req[r].called /\ req[r].kind # "approve"
    /\ Set(r, [req[r] EXCEPT !.pc = "get", !.out = <<<<"call", r, req[r].inv, r>>>>, !.next = "tool",
                             !.call = r, !.called = TRUE])
    /\ UNCHANGED <<setup, sess, stores>>

ModelAnswers(r) ==
    /\ req[r].pc = "model"
    /\ Append2(r, <<<<"text", r, req[r].inv, r>>>>, "finish")
    /\ UNCHANGED <<setup, sess, stores>>

Response(r) == <<"resp", r, req[r].inv, req[r].call>>

\* AdkToolAdapter.run_async(): a call that needs a confirmation asks for it and is
\* answered with an error, which ends the run; a denied one is answered with an error.
RunTool(r) ==
    /\ req[r].pc = "tool"
    /\ \/ /\ setup.gated /\ setup.tool # "read_only" /\ req[r].says = "none"
          /\ Append2(r, <<<<"ask", r, req[r].inv, req[r].call>>, Response(r)>>, "finish")
       \/ setup.gated /\ setup.tool # "read_only" /\ req[r].says = "no" /\ Append2(r, <<Response(r)>>, "model")
       \/ ~(setup.gated /\ setup.tool # "read_only" /\ req[r].says # "yes") /\ Go(r, "claim")
    /\ UNCHANGED <<setup, sess, stores>>

\* The operation registry answers a call it knows, in progress or finished.
Claim(r) ==
    /\ req[r].pc = "claim"
    /\ IF setup.registry /\ setup.tool # "read_only" /\ req[r].call \in claimed
         THEN Append2(r, <<Response(r)>>, "model") /\ UNCHANGED claimed
         ELSE Go(r, "exec") /\ claimed' = claimed \cup {req[r].call}
    /\ UNCHANGED <<setup, sess, ckpt, ran, approved, rolled>>

Execute(r) ==
    /\ req[r].pc = "exec"
    /\ ran' = [ran EXCEPT ![req[r].call] = @ + 1]
    /\ Go(r, "record")
    /\ UNCHANGED <<setup, sess, ckpt, claimed, approved, rolled>>

Record(r) ==
    /\ req[r].pc = "record"
    /\ Append2(r, <<Response(r)>>, "model")
    /\ UNCHANGED <<setup, sess, stores>>

------------------------------------------------------------------------------
(* The end of an invocation.                                                 *)

\* _approval_metadata(): the run yielded a request for a confirmation.
Asked(r) == Has({"ask"}, req[r].call, req[r].yielded)

\* The checkpoint is deleted and the response returned, a pause with its
\* continuation id when the run asked for a confirmation.
Finish(r) ==
    /\ req[r].pc = "finish"
    /\ ckpt' = [ckpt EXCEPT ![req[r].inv] = NoSnapshot]
    /\ Go(r, IF Asked(r) THEN "paused" ELSE "success")
    /\ UNCHANGED <<setup, sess, claimed, ran, approved, rolled>>

\* The model, a tool or the provider fails, or the time is up.
Fault(r) ==
    /\ Active(r) /\ req[r].pc \notin {"snap", "save"}
    /\ Set(r, IF req[r].pc \in InRunner THEN Failed(r) ELSE Dead(r))
    /\ UNCHANGED <<setup, sess, stores>>

\* stream(): the consumer leaves, and the task is cancelled and awaited; once the
\* handler is running, the cancellation ends it.
Abandon(r) ==
    /\ Active(r)
    /\ Set(r, IF req[r].pc \in InRunner THEN Failed(r) ELSE Dead(r))
    /\ UNCHANGED <<setup, sess, stores>>

\* _checkpoint_failed_adk_invocation() reads the session, or takes the events the
\* runner has yielded.
Snapshot(r) ==
    /\ req[r].pc = "snap"
    /\ Set(r, IF sess.ver # 0 /\ ~sess.whole THEN Dead(r)
              ELSE [req[r] EXCEPT !.pc = "save", !.seen = IF sess.events # <<>> THEN sess.events ELSE req[r].yielded])
    /\ UNCHANGED <<setup, sess, stores>>

\* Mutant of UnsafePending: a call made after a resume is not looked at.
UnsafePendingFirst(events, i) == setup.tool # "read_only" /\ i \in Pending(events, i)

\* _adk_has_unsafe_pending_tool(): a call of this invocation that is not read-only and
\* has no response.
UnsafePending(events, i) == setup.tool # "read_only" /\ Pending(events, i) # {}

SaveSnapshot(r) ==
    /\ req[r].pc = "save"
    /\ ckpt' = [ckpt EXCEPT ![req[r].inv] =
                  IF req[r].seen = <<>> \/ UnsafePending(req[r].seen, req[r].inv) THEN NoSnapshot
                  ELSE [held |-> TRUE, events |-> req[r].seen]]
    /\ Go(r, "failed")
    /\ UNCHANGED <<setup, sess, claimed, ran, approved, rolled>>

\* The checkpoint store fails: the first failure is what the caller sees.
SnapshotLost(r) ==
    /\ req[r].pc \in {"snap", "save"}
    /\ Go(r, "failed")
    /\ UNCHANGED <<setup, sess, stores>>

\* The process ends.  The session and the checkpoints are in external stores.
Crash ==
    /\ \E r \in Requests : Active(r)
    /\ req' = [r \in Requests |-> IF Active(r) THEN Dead(r) ELSE req[r]]
    /\ UNCHANGED <<setup, sess, stores>>

Serve(r) ==
    \/ EnsureSession(r) \/ Check(r) \/ Restore(r) \/ DeleteSession(r) \/ SessionExists(r) \/ CreateRow(r) \/ FillRow(r)
    \/ AppendRead(r) \/ AppendWrite(r) \/ RunAsync(r) \/ ModelCalls(r) \/ ModelAnswers(r) \/ RunTool(r)
    \/ Claim(r) \/ Execute(r) \/ Record(r) \/ Finish(r) \/ Snapshot(r) \/ SaveSnapshot(r)

Next ==
    \/ Crash
    \/ \E r \in Requests :
        \/ Invoke(r) \/ Fault(r) \/ Abandon(r) \/ SnapshotLost(r)
        \/ \E i \in Requests : Resume(r, i) \/ \E says \in {"yes", "no"} : Decide(r, i, says)
        \/ Serve(r)

Spec == Init /\ [][Next]_vars

------------------------------------------------------------------------------
(* Properties.                                                               *)

\* No restore, retry or concurrent append writes an event twice; and in a session
\* that was there and was not restored, a response never comes before its call.
TranscriptOrdered ==
    /\ \A i, j \in DOMAIN sess.events : sess.events[i] = sess.events[j] => i = j
    /\ setup.begun /\ ~rolled =>
        \A i \in DOMAIN sess.events : KindOf(sess.events[i]) = "resp" =>
            \E j \in 1..i : KindOf(sess.events[j]) = "call" /\ CallOf(sess.events[j]) = CallOf(sess.events[i])

\* A call with a side effect runs at most once, whatever fails, is resumed or is
\* approved again: always when an operation registry knows the call, and when the
\* requests of a session follow each other, unless a restore brings back a
\* confirmation that was answered since the snapshot was taken.
CallsOnce ==
    setup.tool = "unsafe" /\ (setup.registry \/ (~setup.overlap /\ ~(setup.gated /\ rolled)))
        => \A c \in Requests : ran[c] <= 1

\* A gated tool runs only for a call the caller has approved.
ApprovalGate == setup.gated /\ setup.tool = "unsafe" => \A c \in Requests : ran[c] > 0 => c \in approved

\* The events of a successful request stay in the session, whatever other requests
\* append meanwhile, until a resume restores an older snapshot.
TurnsKept ==
    setup.begun /\ ~rolled =>
        \A r \in Requests : req[r].pc = "success" => ToSet(req[r].yielded) \subseteq ToSet(sess.events)

\* A successful invocation leaves no checkpoint behind, also when it was resumed.
FinishedForgotten ==
    ~setup.overlap => \A r \in Requests : req[r].pc \in {"success", "paused"} => ~ckpt[req[r].inv].held

\* Side effects of a session's calls: none twice, none without the approval it needs,
\* and no finished invocation left to be resumed, whatever fails, crashes, is resumed,
\* approved twice or overlaps (invoke, AdkToolAdapter.run_async, the snapshots).
SideEffectsGuarded == CallsOnce /\ ApprovalGate /\ FinishedForgotten

\* The transcript keeps every turn of a successful request, once and in order, under
\* concurrent appends and the two steps of a creation (AdkSessionService).
TranscriptKept == TypeOK /\ TranscriptOrdered /\ TurnsKept
=============================================================================
