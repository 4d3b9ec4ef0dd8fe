---------------------------- MODULE MCInvocation ----------------------------
(* Invocation for TLC: resumed turns, and approvals in both stores.        *)
EXTENDS Invocation

\* A streaming agent without approvals whose turns are resumed.
Resumes == [approval |-> FALSE, atomicTake |-> TRUE, streaming |-> TRUE,
            concurrent |-> FALSE, followups |-> {"resume"}, requests |-> 2]

\* Approvals in one process: the in-memory store never suspends.
InMemory == [approval |-> TRUE, atomicTake |-> TRUE, streaming |-> FALSE,
             concurrent |-> TRUE, followups |-> {"approve"}, requests |-> 3]

\* Approvals in Redis, the client's requests one after another.
Redis == [InMemory EXCEPT !.atomicTake = FALSE, !.concurrent = FALSE]

TurnSetups == {Resumes, InMemory, Redis}
SequentialSetups == {[InMemory EXCEPT !.concurrent = FALSE, !.requests = 2]}
=============================================================================
