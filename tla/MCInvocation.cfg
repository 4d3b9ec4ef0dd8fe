SPECIFICATION FairSpec
CONSTANTS
  Slots = {1, 2, 3}
  None = None
  MaxIterations = 3
  WaveMax = 2
  RetryMax = 1
  Setups <- TurnSetups
  Failures = {"retryable", "final"}
INVARIANTS CheckpointsComplete NoUnsafeReplay 
PROPERTIES  InvocationEnds
CHECK_DEADLOCK FALSE
