SPECIFICATION Spec
CONSTANTS
  Slots = {1, 2}
  None = None
  MaxIterations = 2
  WaveMax = 1
  RetryMax = 1
  Setups <- SequentialSetups
  Failures = {"retryable"}
PROPERTY PauseReported
CHECK_DEADLOCK FALSE
