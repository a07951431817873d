SPECIFICATION SpecCompaction
CONSTANTS
  Requests = {1, 2}
  Bodies <- SomeBodies
  Defaults <- SomeDefaults
  MaxTurns = 4
  RolesUsed = {"user", "tool_use", "tool_result"}
  Sizes = {1, 3}
  Windows = {8, 25}
  Budgets = {2}
  Marker = 1
INVARIANTS PatchStays PairsStayTogether TruncationIsTight SummaryCutIsTight
CHECK_DEADLOCK FALSE
