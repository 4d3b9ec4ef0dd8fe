CONSTANTS
    w1 = w1
    w2 = w2
    w3 = w3
    Ops = {w1, w2, w3}
    TtlCoversWork = TRUE
SPECIFICATION FairSpec
INVARIANTS ExclusiveExecution
PROPERTIES ImplementsContract AbandonedKeyFreed
CHECK_DEADLOCK FALSE
