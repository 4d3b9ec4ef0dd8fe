----------------------------- MODULE Knowledge -----------------------------
(* The knowledge context of an invocation (src/micro_agent/knowledge/        *)
(* knowledge.py): the sources are asked one after the other, in the order of *)
(* their declaration, while documents are added and deleted, and what they   *)
(* return is deduplicated and clipped to the budgets.                        *)
(*                                                                           *)
(* A document is a content c with Size[c], its length when stripped, and its *)
(* relevance to the query.  Environment: an HTTP backend returns any         *)
(* results, or fails.                                                        *)
EXTENDS Integers, Sequences, FiniteSets

CONSTANTS
    Contents,       \* contents of documents
    NoDoc,          \* not a content
    Size, Relevance,
    DocIds,         \* document ids: an interval of integers
    Budgets,        \* setups: kind ("sqlite" or "http"), limit, each, total
    NSources,       \* declared sources
    MaxHttp         \* bound: results in an answer of the backend

ASSUME KnowledgeAssumption ==
    /\ Size \in [Contents -> Nat] /\ Relevance \in [Contents -> Nat] /\ NoDoc \notin Contents
    /\ DocIds \subseteq Int /\ IsFiniteSet(DocIds)
    /\ Budgets \subseteq [kind : {"sqlite", "http"}, limit : Nat \ {0}, each : Nat \ {0}, total : Nat \ {0}]
    /\ NSources \in Nat /\ MaxHttp \in Nat

VARIABLES
    budget,         \* rigid: the setup
    docs,           \* the stored documents by source and id
    asked,          \* sources already asked
    blocks,         \* the context: records of source, content and length
    seen,           \* the hashes of what was taken
    got,            \* history: the entries that each source returned
    outcome         \* "none", "context", "error"

knvars == <<budget, docs, asked, blocks, seen, got, outcome>>

(* The characters that blocks of the given sources take up.                  *)
Characters(s, sources) ==
    LET f[i \in 0..Len(s)] ==
            IF i = 0 THEN 0 ELSE f[i - 1] + (IF s[i].source \in sources THEN s[i].size ELSE 0)
    IN f[Len(s)]

Total(s) == Characters(s, 1..NSources)

KnTypeOK ==
    /\ docs \in [1..NSources -> [DocIds -> Contents \cup {NoDoc}]]
    /\ asked \in 0..NSources
    /\ \A i \in 1..Len(blocks) : /\ blocks[i].source \in 1..asked
                                 /\ blocks[i].content \in Contents
                                 /\ blocks[i].size \in 1..Size[blocks[i].content]
    /\ seen \subseteq Contents
    /\ outcome \in {"none", "context", "error"}

KnInit ==
    /\ budget \in Budgets
    /\ docs = [s \in 1..NSources |-> [d \in DocIds |-> NoDoc]]
    /\ asked = 0
    /\ blocks = <<>>
    /\ seen = {}
    /\ got = [s \in 1..NSources |-> <<>>]
    /\ outcome = "none"

context == <<budget, asked, blocks, seen, got, outcome>>

(* Insert or replace; content that is only white space is refused.           *)
AddDocument(s, d, c) ==
    /\ budget.kind = "sqlite" /\ outcome = "none"
    /\ Size[c] > 0
    /\ docs' = [docs EXCEPT ![s][d] = c]
    /\ UNCHANGED context

(* One document, or all of the source when no id is given.                   *)
DeleteDocument(s, ids) ==
    /\ budget.kind = "sqlite" /\ outcome = "none"
    /\ docs' = [docs EXCEPT ![s] = [d \in DocIds |-> IF d \in ids THEN NoDoc ELSE @[d]]]
    /\ UNCHANGED context

(* The matching documents by falling relevance and rising id, up to a limit. *)
Retrieved(s, limit) ==
    LET hits == {d \in DocIds : docs[s][d] # NoDoc /\ Relevance[docs[s][d]] > 0}
        Before(d, e) == \/ Relevance[docs[s][d]] > Relevance[docs[s][e]]
                        \/ Relevance[docs[s][d]] = Relevance[docs[s][e]] /\ d < e
        rank == [d \in hits |-> 1 + Cardinality({e \in hits : Before(e, d)})]
        n == IF Cardinality(hits) < limit THEN Cardinality(hits) ELSE limit
    IN [i \in 1..n |-> docs[s][CHOOSE d \in hits : rank[d] = i]]

(* An answer that is too long is an error; the rest is cut to the limit.     *)
FromBackend(limit, answer) == SubSeq(answer, 1, IF Len(answer) < limit THEN Len(answer) ELSE limit)

Lesser(a, b) == IF a < b THEN a ELSE b

(* Mutant of Remaining: only the budget of the source is looked at.          *)
RemainingOfSource(s, taken) == budget.each - Characters(taken, {s})

(* What is left of the source's budget and of the whole.                     *)
Remaining(s, taken) == Lesser(budget.each - Characters(taken, {s}), budget.total - Total(taken))

(* One entry of a source, on the blocks and hashes so far: blank and known   *)
(* content is skipped, an exhausted budget ends the source.  The hash is the *)
(* provider's: it is taken before the text is stripped.                      *)
Considered(s, st, c) ==
    LET room == Remaining(s, st.blocks)
    IN CASE ~st.on \/ Size[c] = 0 \/ c \in st.seen -> st
         [] st.on /\ Size[c] > 0 /\ c \notin st.seen /\ room <= 0 -> [st EXCEPT !.on = FALSE]
         [] OTHER -> [blocks |-> Append(st.blocks, [source |-> s, content |-> c, size |-> Lesser(Size[c], room)]),
                      seen |-> st.seen \cup {c}, on |-> TRUE]

(* The loop over the entries of one source.                                  *)
Formatted(s, entries) ==
    LET step[i \in 0..Len(entries)] ==
            IF i = 0 THEN [blocks |-> blocks, seen |-> seen, on |-> TRUE]
            ELSE Considered(s, step[i - 1], entries[i])
    IN step[Len(entries)]

(* One round of retrieve_knowledge_context(): between the answer of the      *)
(* provider and the next request nothing else runs.                          *)
TakeFrom(s, entries) ==
    LET f == Formatted(s, entries)
    IN /\ blocks' = f.blocks
       /\ seen' = f.seen
       /\ asked' = s
       /\ got' = [got EXCEPT ![s] = entries]
       /\ UNCHANGED <<budget, docs, outcome>>

RetrieveSqlite ==
    /\ outcome = "none" /\ budget.kind = "sqlite"
    /\ asked < NSources /\ Total(blocks) < budget.total
    /\ TakeFrom(asked + 1, Retrieved(asked + 1, budget.limit))

RetrieveHttp ==
    /\ outcome = "none" /\ budget.kind = "http"
    /\ asked < NSources /\ Total(blocks) < budget.total
    /\ \E n \in 0..MaxHttp : \E answer \in [1..n -> {c \in Contents : Size[c] > 0}] :
            TakeFrom(asked + 1, FromBackend(budget.limit, answer))

(* An unreachable backend or an invalid answer ends the invocation's context.*)
RetrieveFails ==
    /\ outcome = "none" /\ budget.kind = "http"
    /\ asked < NSources /\ Total(blocks) < budget.total
    /\ outcome' = "error"
    /\ UNCHANGED <<budget, docs, asked, blocks, seen, got>>

ContextDone ==
    /\ outcome = "none"
    /\ asked = NSources \/ Total(blocks) >= budget.total
    /\ outcome' = "context"
    /\ UNCHANGED <<budget, docs, asked, blocks, seen, got>>

KnNext ==
    \/ \E s \in 1..NSources :
          \/ \E d \in DocIds, c \in Contents : AddDocument(s, d, c)
          \/ \E ids \in {DocIds} \cup {{d} : d \in DocIds} : DeleteDocument(s, ids)
    \/ RetrieveSqlite \/ RetrieveHttp \/ RetrieveFails \/ ContextDone

KnSpec == KnInit /\ [][KnNext]_knvars

-----------------------------------------------------------------------------
(* The context is bounded and carries a content once: no source exceeds its  *)
(* max_context_characters, all together stay within max_total_characters,    *)
(* and no hash is repeated although documents move between the sources while *)
(* they are asked.                                                           *)
ContextBounded ==
    /\ Total(blocks) <= budget.total
    /\ \A s \in 1..NSources : Characters(blocks, {s}) <= budget.each
    /\ \A i, j \in 1..Len(blocks) : blocks[i].content = blocks[j].content => i = j

(* A source that uses up its own budget, or repeats an earlier one, does not *)
(* silence the sources after it: each source is represented in the context,  *)
(* unless all it returned was already there or the total was used up.        *)
EverySourceHeard ==
    outcome = "context" =>
        \A s \in 1..asked :
            \/ \E b \in 1..Len(blocks) : blocks[b].source = s
            \/ Total(blocks) >= budget.total
            \/ \A i \in 1..Len(got[s]) : \E b \in 1..Len(blocks) : blocks[b].content = got[s][i]

(* The context of an invocation keeps its budgets and hears every source,    *)
(* whatever is added and deleted while the sources are asked.                *)
ContextSound == KnTypeOK /\ ContextBounded /\ EverySourceHeard
=============================================================================
