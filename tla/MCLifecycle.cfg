CONSTANTS
    c1 = c1
    c2 = c2
    c3 = c3
    s1 = s1
    s2 = s2
    Callers = {c1, c2, c3}
    Stoppers = {s1, s2}
    MaxConcurrency = 2
    ShutdownTimeout = TRUE
    StopCancellable = TRUE
SPECIFICATION FairSpec
INVARIANTS NoLostWakeup CapacityRespected DrainedBeforeClose
PROPERTIES StopTerminates WaitersAnswered ImplementsService
