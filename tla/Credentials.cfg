SPECIFICATION Spec
CONSTANTS
  Requests = {1, 2, 3, 4}
  Agents = {a1}
  Tools = {t1, t2}
  MaxInFlight = 2
  None = None
INVARIANTS RetiredStaysRetired CompletedMeansStored AnsweredOnce
SYMMETRY Alike
CHECK_DEADLOCK FALSE
