SPECIFICATION Spec
CONSTANTS
  Batch <- MCBatch
  Modes <- MCModes
  Parallel = 1
  Rounds = 2
  QueueSize = 1
  StoreAttempts = 2
  NoTrace = NoTrace
INVARIANTS
  FinalStepIsLast
CHECK_DEADLOCK FALSE
