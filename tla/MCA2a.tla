-------------------------------- MODULE MCA2a --------------------------------
(* The A2A bridge and the A2A task stores, one of them at a time. *)
EXTENDS A2aServer, A2aStore, TLC

CONSTANTS e1, e2, a, b, w1, w2

VARIABLE part

mcvars == <<avars, svars, part>>

MCSymmetry == Permutations({w1, w2})
MCTaskOf == e1 :> "t" @@ e2 :> "t"
MCAnswers == {<<a>>, <<a, b>>, <<b, a>>}

MCInit ==
    /\ part \in {"execute", "push", "store"} /\ Init /\ StoreInit
    /\ part # "execute" => streaming = FALSE
    /\ part # "store" => kind = "sqlite"

MCNext ==
    /\ UNCHANGED part
    /\ \/ /\ part = "execute" /\ UNCHANGED svars
          /\ (\E e \in Executions : ExecStep(e)) \/ (\E t \in Tasks : Cancel(t))
       \/ /\ part = "push" /\ UNCHANGED svars
          /\ \/ \E s \in Senders : PushStep(s)
             \/ \E c \in Callbacks : SetInfo(c)
             \/ \E gone \in SUBSET Callbacks : DeleteInfo(gone)
       \/ part = "store" /\ StoreNext /\ UNCHANGED avars

MCSpec == MCInit /\ [][MCNext]_mcvars
=============================================================================
