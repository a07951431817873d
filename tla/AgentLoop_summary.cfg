SPECIFICATION Spec
CONSTANTS
  Invocations = {1, 2, 3}
  MaxConcurrent = 1
  ContextWindow = 160
  ThresholdPct = 50
  ProtectedTurns = 1
  PromptTokens = 1
  TurnTokens = {20}
  SummaryTokens = {1}
  MaxIterations = 2
  MaxToolCalls = 1
  MaxFaults = 0
INVARIANT SummaryReachesLlm
CHECK_DEADLOCK FALSE
