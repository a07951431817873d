SPECIFICATION Spec
CONSTANTS
  t1 = t1
  t2 = t2
  s1 = s1
  s2 = s2
  h1 = h1
  d1 = d1
  d2 = d2
  NoId = NoId
  Attempts = {1, 2}
  Tenants = {t1, t2}
  Ids = {d1, d2}
  Subs = {s1, s2}
  SubTenant <- SubsOfOne
  Threads = {h1}
  ThreadTenant <- ThreadOfOne
  MaxFaults = 1
  MaxCrashes = 1
INVARIANTS AtMostOnce RefusedWasRecorded AcceptedMeansTried SplitsOnlyByRaces NothingLeftOpen
SYMMETRY Alike
CHECK_DEADLOCK FALSE
