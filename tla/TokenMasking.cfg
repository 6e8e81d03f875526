SPECIFICATION MaskingSpec
CONSTANTS
  Threshold = 3
  Trajectories <- MCTrajectories
  Masks <- MCMasks
INVARIANTS
  MaskingTypeOK
  ScanIsCorrect
  MaskIsCorrect
  LearnsBeforeCascade
CHECK_DEADLOCK FALSE
