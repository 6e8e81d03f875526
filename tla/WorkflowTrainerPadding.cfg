SPECIFICATION Spec
CONSTANTS
  MaskUnknown = TRUE
  MaskError = TRUE
  Tasks = 1
  RolloutN = 2
  EpisodeKinds <- MCWholeKinds
  Options <- MCLaunched
  TrainBatchSize = 1
  WorldSize = 4
  TotalTrainingSteps = 2
  GenerationLimit = 1
INVARIANTS
  PaddingLearnsNothing
CHECK_DEADLOCK FALSE
