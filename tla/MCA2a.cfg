SPECIFICATION MCSpec
CONSTANTS
    e1 = e1
    e2 = e2
    a = a
    b = b
    w1 = w1
    w2 = w2
    Executions = {e1, e2}
    Tasks = {"t"}
    TaskOf <- MCTaskOf
    Letters = {a, b}
    MaxDeltas = 2
    Answers <- MCAnswers
    MaxCancels = 2
    Senders = {s1}
    Callbacks = {c1, c2, c3}
    BadUrls = {c3}
    MaxAttempts = 2
    StoreWorkers = {w1, w2}
    TaskKeys = {"k1", "k2"}
    StoreBackends = {"sqlite", "redis"}
    MaxSaves = 2
    PageSize = 1
SYMMETRY MCSymmetry
  
PROPERTIES CancelWins ReadsLatest
CHECK_DEADLOCK FALSE
