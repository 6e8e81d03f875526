SPECIFICATION Spec
CONSTANTS
  MaxLLMCalls = 2
  BadStepLimit = 3
  Replies <- MCReplies
  ToolResults <- MCToolResults
INVARIANTS
  AnswerIsTheModels
CHECK_DEADLOCK FALSE
