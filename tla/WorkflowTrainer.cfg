SPECIFICATION Spec
CONSTANTS
  MaskUnknown = TRUE
  MaskError = TRUE
  Tasks = 2
  RolloutN = 2
  EpisodeKinds <- MCKinds
  Options <- MCOptions
  TrainBatchSize = 2
  WorldSize = 3
  TotalTrainingSteps = 3
  GenerationLimit = 2
INVARIANTS
  TypeOK
  RowsKeepTheirTask
  WorkersShareEvenly
  LearnsWhatIsKept
  FatalIsNotPushedDown
  GatheredTasks
  SampledTasks
CHECK_DEADLOCK FALSE
