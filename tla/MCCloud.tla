------------------------------ MODULE MCCloud ------------------------------
(* The gateway and the three control planes, one of them at a time.  The     *)
(* gateway runs as a fleet in front of one target, over two targets with     *)
(* retries and streams, with a failing state store, and as a single replica  *)
(* without one.                                                              *)
EXTENDS Gateway, Registry, ConfigPlane, Observability, TLC

CONSTANTS a1, a2, c1, c2, d1, d2, b1, b2, b3, q1, q2, q3, r1, r2, t1, t2, g1, g2

VARIABLE part

Interchangeable == Permutations(Agents) \cup Permutations(Calls) \cup Permutations(Reads)

mcvars == <<vars, rvars, cvars, ovars, part>>

MCContents ==
    b1 :> [span |-> 1, usage |-> 1, audit |-> 0]
    @@ b2 :> [span |-> 2, usage |-> 0, audit |-> 1]
    @@ b3 :> [span |-> 1, usage |-> 0, audit |-> 1]

MCCallerOf == q1 :> g1 @@ q2 :> g2 @@ q3 :> g1
Two == q1 :> r1 @@ q2 :> r2
One == q1 :> r1 @@ q2 :> r1

MCSetups ==
    {[shared |-> TRUE, faults |-> FALSE, order |-> <<t1>>, at |-> Two @@ q3 :> r2,
      retries |-> {FALSE}, streams |-> {FALSE}, refills |-> 1],
     [shared |-> TRUE, faults |-> FALSE, order |-> <<t1, t2>>, at |-> q1 :> r1,
      retries |-> {TRUE}, streams |-> BOOLEAN, refills |-> 0],
     [shared |-> TRUE, faults |-> TRUE, order |-> <<t1>>, at |-> Two,
      retries |-> {FALSE}, streams |-> BOOLEAN, refills |-> 0],
     [shared |-> FALSE, faults |-> FALSE, order |-> <<t1, t2>>, at |-> One,
      retries |-> BOOLEAN, streams |-> BOOLEAN, refills |-> 0]}

MCInit ==
    /\ part \in {"gateway", "registry", "config", "observability"}
    /\ Init /\ RegInit /\ CfgInit /\ ObsInit
    /\ part # "gateway" => setup.order = <<t1>> /\ ~setup.faults
    /\ part # "registry" => rkind = "memory"
    /\ part # "config" => ckind = "memory"
    /\ part # "observability" => okind = "memory"

MCNext ==
    /\ UNCHANGED part
    /\ \/ part = "gateway" /\ Next /\ UNCHANGED <<rvars, cvars, ovars>>
       \/ part = "registry" /\ RegNext /\ UNCHANGED <<vars, cvars, ovars>>
       \/ part = "config" /\ CfgNext /\ UNCHANGED <<vars, rvars, ovars>>
       \/ part = "observability" /\ ObsNext /\ UNCHANGED <<vars, rvars, cvars>>

MCSpec == MCInit /\ [][MCNext]_mcvars
=============================================================================
