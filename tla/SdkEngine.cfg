SPECIFICATION FairSpec
CONSTANTS
  Batch <- MCBatch
  Modes <- MCModes
  Parallel = 1
  Rounds = 2
  QueueSize = 1
  StoreAttempts = 2
  NoTrace = NoTrace
INVARIANTS
  TypeOK
  OwnSteps
  FlushedIsSettled
  EpisodesKeepTheirTask
PROPERTIES
  ExecuteReturns
CHECK_DEADLOCK FALSE
