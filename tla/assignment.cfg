SPECIFICATION Spec
CONSTANTS
  Orders = {1}
  Agents = {a1, a2}
  Workers = {w1, w2}
  Requests = {r1}
  MaxAttempts = 1
  Batch = 1
  Candidates = 2
  NoAgent = NoAgent
  NoOrder = NoOrder
  Faults = TRUE
  Isolated = TRUE
SYMMETRY Symmetry
INVARIANT RoundsBounded
PROPERTIES WinnerIsEntitled LiveOfferNeverGrows
CHECK_DEADLOCK FALSE
