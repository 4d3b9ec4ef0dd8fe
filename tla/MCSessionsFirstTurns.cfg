SPECIFICATION StateSpec
CONSTANTS
    i1 = i1
    i2 = i2
    e1 = e1
    b1 = b1
    Workers = {i1, i2, e1, b1}
    Invocations = {i1, i2}
    Events = {e1}
    Casts <- MCFirstTurns
    Backends = {"postgres"}
    Ttls = {FALSE}
    MaxWrites = 4
    MaxResumes = 1
    Deletes = FALSE
    Keys = {k1}
    Storers = {s1}
    MemBackends = {"memory"}
    MaxEntries = 1
    MaxStores = 1
INVARIANT NoUpdateLost
CHECK_DEADLOCK FALSE
