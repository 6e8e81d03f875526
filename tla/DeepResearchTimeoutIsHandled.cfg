SPECIFICATION WorkflowSpec
CONSTANTS
  MaxLLMCalls = 4
  BadStepLimit = 3
  Threshold = 3
  Replies <- MCReplies
  ToolResults <- MCToolResults
INVARIANTS
  TimeoutIsHandled
CHECK_DEADLOCK FALSE
