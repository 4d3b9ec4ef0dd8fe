SPECIFICATION MCSpec
CONSTANTS
    q1 = q1
    q2 = q2
    q3 = q3
    r1 = r1
    r2 = r2
    t1 = t1
    t2 = t2
    g1 = g1
    g2 = g2
    Requests = {q1, q2, q3}
    Replicas = {r1, r2}
    Targets = {t1, t2}
    Callers = {g1, g2}
    CallerOf <- MCCallerOf
    Setups <- MCSetups
    MaxConcurrency = 1
    FailureThreshold = 1
    Rate = 1
    MaxBuckets = 1
    a1 = a1
    a2 = a2
    c1 = c1
    c2 = c2
    d1 = d1
    d2 = d2
    b1 = b1
    b2 = b2
    b3 = b3
    Agents = {a1, a2}
    Calls = {c1, c2}
    RegBackends = {"memory", "sqlite"}
    MaxRegistrations = 2
    Payloads = {"p", "q"}
    Operators = {"o"}
    Reads = {d1, d2}
    CfgBackends = {"memory", "sqlite"}
    MaxVersions = 3
    Batches = {b1, b2, b3}
    Contents <- MCContents
    BadBatches = {b3}
    ObsBackends = {"memory", "sqlite"}
    MaxRecords = 2
    MaxStamps = 5
SYMMETRY Interchangeable
INVARIANTS  OneProbe  VersionsStand BatchesKept
PROPERTIES LiveKept
CHECK_DEADLOCK FALSE
