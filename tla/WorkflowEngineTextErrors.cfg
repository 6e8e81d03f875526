SPECIFICATION Spec
CONSTANTS
  TaskIds <- MCTaskIds
  PoolSize = 2
  RetryLimit = 2
  RaiseOnError = TRUE
  Outcomes <- MCTextErrors
  CallLimit = 1
  NoWorkflow = NoWorkflow
INVARIANTS
  RaisesAfterRetries
CHECK_DEADLOCK FALSE
