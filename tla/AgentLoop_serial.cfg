SPECIFICATION FairSpec
CONSTANTS
  Invocations = {1, 2, 3}
  MaxConcurrent = 1
  ContextWindow = 83
  ThresholdPct = 50
  ProtectedTurns = 2
  PromptTokens = 1
  TurnTokens = {20}
  SummaryTokens = {1}
  MaxIterations = 1
  MaxToolCalls = 1
  MaxFaults = 1
INVARIANTS IndexFollowsAppend ToolPairsTogether CompactedContextComplete
PROPERTY InvocationsEnd
CHECK_DEADLOCK FALSE
