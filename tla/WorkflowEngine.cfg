SPECIFICATION FairSpec
CONSTANTS
  TaskIds <- MCTaskIds
  PoolSize = 2
  RetryLimit = 2
  RaiseOnError = TRUE
  Outcomes <- AllOutcomes
  CallLimit = 2
  NoWorkflow = NoWorkflow
INVARIANTS
  TypeOK
  Exclusive
  PoolConserved
  RunsInItsMode
  ResultsAlign
PROPERTIES
  CallEnds
  PoolRefills
  KeepsContract
CHECK_DEADLOCK FALSE
