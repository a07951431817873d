SPECIFICATION Spec
CONSTANTS
  Requests = {1, 2, 3, 4, 5}
  Identities = {i1}
  Clients = {c1}
  Agents = {a1, a2}
  People = {p1}
  Names = {n1}
  MaxInFlight = 2
  None = None
INVARIANTS SpentOnce ReissueRetires RevocationReaches ConversationsStayApart
SYMMETRY Alike
CHECK_DEADLOCK FALSE
