-------------------------- MODULE DrainingService --------------------------
(***************************************************************************)
(* What DefaultMicroAgent promises its callers, with no lock, counter,     *)
(* event or task: a service that is opened once, admits at most Limit      *)
(* calls at a time, and closes only after every admitted call has left.    *)
(* A close that failed may be tried again.                                 *)
(***************************************************************************)
EXTENDS Integers, FiniteSets

CONSTANTS Clients,   \* who may be served
          Limit      \* how many at a time; 0 stands for no limit

VARIABLES phase,     \* "down", "up", "draining" or "closed"
          serving    \* the clients being served

svars == <<phase, serving>>

SInit == phase = "down" /\ serving = {}

\* The service opens, or fails to.
Open ==
    /\ phase = "down"
    /\ phase' \in {"up", "closed"}
    /\ UNCHANGED serving

Enter(c) ==
    /\ phase = "up"
    /\ Limit # 0 => Cardinality(serving) < Limit
    /\ c \notin serving
    /\ serving' = serving \cup {c}
    /\ UNCHANGED phase

Leave(c) ==
    /\ c \in serving
    /\ serving' = serving \ {c}
    /\ UNCHANGED phase

BeginDrain ==
    /\ phase # "draining"
    /\ phase' = "draining"
    /\ UNCHANGED serving

Closed ==
    /\ phase = "draining"
    /\ serving = {}
    /\ phase' = "closed"
    /\ UNCHANGED serving

SNext ==
    \/ Open \/ BeginDrain \/ Closed
    \/ \E c \in Clients : Enter(c) \/ Leave(c)

SSpec == SInit /\ [][SNext]_svars
=============================================================================
