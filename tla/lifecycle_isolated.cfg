SPECIFICATION Spec
CONSTANTS
  Orders = {o1, o2}
  Agents = {a1, a2}
  Requests = {r1, r2}
  NoAgent = NoAgent
  NoOrder = NoOrder
  Isolated = TRUE
  MaxCredits = 2
SYMMETRY Symmetry
INVARIANTS CreditedOnce ReleasedIsDead OfflineHoldsNothing
PROPERTY ImplementsOrderMachine
CHECK_DEADLOCK FALSE
