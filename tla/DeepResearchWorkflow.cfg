SPECIFICATION FairWorkflowSpec
CONSTANTS
  MaxLLMCalls = 5
  BadStepLimit = 3
  Threshold = 3
  Replies <- MCReplies
  ToolResults <- MCToolResults
INVARIANTS
  WorkflowTypeOK
  Alternation
  CascadeStops
  BudgetAccounting
  StepsMatchRounds
  CascadeIsFatal
  UnfinishedIsFatal
  KeptPrefixIsClean
  MaskedEarnsNothing
PROPERTIES
  ConversationGrows
  KeepsContract
CHECK_DEADLOCK FALSE
