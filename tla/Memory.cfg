SPECIFICATION Spec
CONSTANTS
  Requests = {1, 2, 3, 4}
  Agents = {a1}
  Users = {u1}
  Nobody = Nobody
  Keys = {k1}
  Choices <- SomeChoices
  MaxInFlight = 2
  MaxWrites = 1
INVARIANTS PrivateStaysPrivate WrittenIsKnown
CHECK_DEADLOCK FALSE
