SPECIFICATION FairSpec
CONSTANTS
  j1 = j1
  j2 = j2
  a1 = a1
  NoJob = NoJob
  Jobs = {j1}
  Agents = {a1}
  AgentOf <- OneJob
  Periods = {1}
  Requests = {1, 2, 3}
  Operations = {"create", "update", "pause", "resume", "delete"}
  MaxTime = 2
  MaxFaults = 0
  MaxCrashes = 1
INVARIANTS OneTimeFiresOnce OncePerPeriod
PROPERTY DueJobFires
