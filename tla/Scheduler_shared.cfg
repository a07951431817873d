SPECIFICATION Spec
CONSTANTS
  j1 = j1
  j2 = j2
  a1 = a1
  NoJob = NoJob
  Jobs = {j1, j2}
  Agents = {a1}
  AgentOf <- SharedAgent
  Periods = {1}
  Requests = {1, 2, 3}
  Operations = {"create", "resume"}
  MaxTime = 2
  MaxFaults = 1
  MaxCrashes = 1
SYMMETRY JobSymmetry
INVARIANTS OneRunPerAgent RunningIsAccurate
