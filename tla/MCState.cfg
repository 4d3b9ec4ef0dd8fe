SPECIFICATION StateSpec
CONSTANTS
    i1 = i1
    i2 = i2
    e1 = e1
    b1 = b1
    Workers = {i1, i2, e1, b1}
    Invocations = {i1, i2}
    Events = {e1}
    Casts <- MCCasts
    Backends = {"memory", "sqlite", "redis", "postgres"}
    Ttls = {TRUE, FALSE}
    MaxWrites = 4
    MaxResumes = 1
    Deletes = TRUE
    Keys = {k1, k2, k3}
    Storers = {s1, s2}
    MemBackends = {"memory", "redis", "postgres"}
    MaxEntries = 1
    MaxStores = 4
SYMMETRY MCSymmetry
INVARIANTS SessionTurns  
PROPERTIES EntriesVersioned 
CHECK_DEADLOCK FALSE
