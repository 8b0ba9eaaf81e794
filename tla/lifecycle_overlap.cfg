SPECIFICATION Spec
CONSTANTS
  Orders = {o1}
  Agents = {a1, a2}
  Requests = {r1, r2}
  NoAgent = NoAgent
  NoOrder = NoOrder
  Isolated = FALSE
  MaxCredits = 1
SYMMETRY Symmetry
INVARIANT DeliveredEventIffCredited
PROPERTY NoHandover
CHECK_DEADLOCK FALSE
