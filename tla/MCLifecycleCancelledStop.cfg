CONSTANTS
    c1 = c1
    c2 = c2
    s1 = s1
    s2 = s2
    Callers = {c1, c2}
    Stoppers = {s1, s2}
    MaxConcurrency = 1
    ShutdownTimeout = TRUE
    StopCancellable = TRUE
SPECIFICATION FairSpec
PROPERTY StopAlwaysEnds
