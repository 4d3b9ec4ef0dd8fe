---------------------------- MODULE ModelStream ----------------------------
(* A streamed model answer, as the OpenAI-compatible and the Anthropic       *)
(* adapters put it together (src/micro_agent/models/openai_compat.py,        *)
(* src/micro_agent/models/anthropic.py): text is passed on as it arrives,    *)
(* tool calls arrive in fragments under an index and become requests when    *)
(* the stream ends.                                                          *)
(*                                                                           *)
(* Environment: the service sends the text and the fragments of each call in *)
(* order, the calls interleaved as it likes, and its connection may break or *)
(* be closed before everything is sent.                                      *)
EXTENDS Integers, Sequences, FiniteSets

CONSTANTS
    StreamAnswers,        \* answers: wire, texts, calls (a sequence of fragment counts by index)
    NoName          \* the name of a call is not known

ASSUME StreamAssumption ==
    /\ StreamAnswers \subseteq [wire : {"openai", "anthropic"}, texts : Nat, calls : Seq(Nat)]
    /\ NoName \notin Nat

VARIABLES
    answer,         \* rigid: what the service means to send
    sent,           \* how much was sent: text chunks, fragments by call, the finish
    parts,          \* content_parts: the text received
    calls,          \* tool_calls by index: name, args
    deltas,         \* history: the deltas that the caller was given
    final           \* the final event, or "none"; "raised" when the stream broke

msvars == <<answer, sent, parts, calls, deltas, final>>

Indexes == 1..Len(answer.calls)

MsTypeOK ==
    /\ sent.text \in 0..answer.texts
    /\ \A i \in Indexes : sent.frags[i] \in 0..answer.calls[i]
    /\ DOMAIN calls \subseteq Indexes
    /\ \A i \in DOMAIN calls : calls[i].name \in Indexes \cup {NoName}
    /\ \A i \in DOMAIN calls : calls[i].args \in Seq(Indexes \X Nat)

MsInit ==
    /\ answer \in StreamAnswers
    /\ sent = [text |-> 0, frags |-> [i \in 1..Len(answer.calls) |-> 0], head |-> {}, done |-> FALSE]
    /\ parts = <<>>
    /\ calls = [i \in {} |-> [name |-> NoName, args |-> <<>>]]
    /\ deltas = <<>>
    /\ final = [kind |-> "none"]

Live == final.kind = "none" /\ ~sent.done

(* The text of a chunk is kept and yielded.                                  *)
TextDelta ==
    /\ Live /\ sent.text < answer.texts
    /\ sent' = [sent EXCEPT !.text = @ + 1]
    /\ parts' = Append(parts, sent.text + 1)
    /\ deltas' = Append(deltas, sent.text + 1)
    /\ UNCHANGED <<answer, calls, final>>

Known(i) == IF i \in DOMAIN calls THEN calls[i] ELSE [name |-> NoName, args |-> <<>>]

Put(i, call) == [j \in DOMAIN calls \cup {i} |-> IF j = i THEN call ELSE calls[j]]

(* The event that names the call: a fragment with a function name on the one *)
(* wire, the start of a tool_use block, which replaces, on the other.        *)
CallStarts(i) ==
    /\ Live /\ i \notin sent.head
    /\ sent' = [sent EXCEPT !.head = @ \cup {i}]
    /\ calls' = Put(i, IF answer.wire = "openai" THEN [Known(i) EXCEPT !.name = i] ELSE [name |-> i, args |-> <<>>])
    /\ UNCHANGED <<answer, parts, deltas, final>>

(* Mutant of FragmentOf: a fragment goes to the call with the highest index. *)
FragmentToLatest(i) ==
    LET last == CHOOSE j \in DOMAIN calls : \A k \in DOMAIN calls : k <= j
    IN Put(last, [Known(last) EXCEPT !.args = Append(@, <<i, sent.frags[i] + 1>>)])

(* A fragment of the arguments is appended to the call of its index.         *)
FragmentOf(i) == Put(i, [Known(i) EXCEPT !.args = Append(@, <<i, sent.frags[i] + 1>>)])

ArgumentDelta(i) ==
    /\ Live /\ i \in sent.head /\ sent.frags[i] < answer.calls[i]
    /\ sent' = [sent EXCEPT !.frags[i] = @ + 1]
    /\ calls' = FragmentOf(i)
    /\ UNCHANGED <<answer, parts, deltas, final>>

AllSent == sent.text = answer.texts /\ sent.head = Indexes /\ \A i \in Indexes : sent.frags[i] = answer.calls[i]

(* The chunk with the finish reason.                                         *)
FinishReason ==
    /\ Live /\ AllSent
    /\ sent' = [sent EXCEPT !.done = TRUE]
    /\ UNCHANGED <<answer, parts, calls, deltas, final>>

(* Arguments that do not parse are passed on raw, none at all as empty.      *)
ParseArguments(call) ==
    IF call.args = <<>> THEN "empty"
    ELSE IF call.name # NoName /\ call.args = [k \in 1..answer.calls[call.name] |-> <<call.name, k>>] THEN "whole" ELSE "raw"

ToolRequests(c) ==
    LET order == [n \in 1..Cardinality(DOMAIN c) |-> CHOOSE i \in DOMAIN c : Cardinality({j \in DOMAIN c : j <= i}) = n]
    IN [n \in 1..Cardinality(DOMAIN c) |-> [name |-> c[order[n]].name, args |-> ParseArguments(c[order[n]])]]

(* The body ends, early or not: the final event carries what has arrived.    *)
StreamEnd ==
    /\ final.kind = "none"
    /\ final' = [kind |-> "response", content |-> parts, requests |-> ToolRequests(calls),
                 reason |-> IF sent.done THEN "finished" ELSE "stop"]
    /\ UNCHANGED <<answer, sent, parts, calls, deltas>>

(* A transport error or a chunk that is not JSON.                            *)
StreamRaises ==
    /\ final.kind = "none"
    /\ final' = [kind |-> "raised"]
    /\ UNCHANGED <<answer, sent, parts, calls, deltas>>

MsNext ==
    \/ TextDelta \/ FinishReason \/ StreamEnd \/ StreamRaises
    \/ \E i \in Indexes : CallStarts(i) \/ ArgumentDelta(i)

MsSpec == MsInit /\ [][MsNext]_msvars

-----------------------------------------------------------------------------
(* However the service interleaves the fragments of several calls, a stream  *)
(* that ends after its finish reason yields the calls in the order of their  *)
(* indexes, each with its own name and its whole arguments, and the content  *)
(* is what the caller has already been shown.                                *)
Reassembled ==
    /\ MsTypeOK
    /\ final.kind = "response" =>
        /\ final.content = deltas
        /\ sent.done =>
              /\ Len(final.content) = answer.texts
              /\ final.requests = [i \in Indexes |-> [name |-> i, args |-> IF answer.calls[i] = 0 THEN "empty" ELSE "whole"]]
=============================================================================
