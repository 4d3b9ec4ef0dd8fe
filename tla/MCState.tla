------------------------------- MODULE MCState -------------------------------
(* Small instances of Sessions and MemoryStore.  The two share nothing, so each *)
(* behaviour runs one of them; part says which.                                *)
EXTENDS Sessions, MemoryStore, TLC

CONSTANTS i1, i2, e1, b1

VARIABLE part

MCCasts == {{i1, i2}, {i1, e1}, {i1, b1}}
MCFirstTurns == {{i1, i2}}
MCSymmetry == Permutations(Keys) \cup Permutations(Storers) \cup Permutations({i1, i2})

\* The Redis commands of a store interleave in more ways: there the writes are fewer.
MCRedisStores == 3

StateInit ==
    /\ Init /\ MemInit /\ part \in {"sessions", "memory"}
    /\ part = "sessions" => mbackend = "memory"
    /\ part = "memory" => backend = "memory" /\ ~ttl /\ cast = {i1, b1}

StateNext ==
    \/ part = "sessions" /\ Next /\ UNCHANGED <<mvars, part>>
    \/ /\ part = "memory" /\ MemNext /\ UNCHANGED <<vars, part>>
       /\ mbackend = "redis" => clock' <= MCRedisStores

StateSpec == StateInit /\ [][StateNext]_<<vars, mvars, part>>
=============================================================================
