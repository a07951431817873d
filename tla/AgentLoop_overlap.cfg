SPECIFICATION Spec
CONSTANTS
  Invocations = {1, 2}
  MaxConcurrent = 2
  ContextWindow = 60
  ThresholdPct = 50
  ProtectedTurns = 1
  PromptTokens = 1
  TurnTokens = {20}
  SummaryTokens = {1}
  MaxIterations = 1
  MaxToolCalls = 1
  MaxFaults = 1
INVARIANT SummaryOnlyForArchived
PROPERTIES RecentTurnsSurvive ImplementsLedger
CHECK_DEADLOCK FALSE
