SPECIFICATION FairSpec
CONSTANTS
  Orders = {1}
  Agents = {a1}
  Workers = {w1, w2}
  Requests = {r1}
  MaxAttempts = 1
  Batch = 1
  Candidates = 2
  NoAgent = NoAgent
  NoOrder = NoOrder
  Faults = FALSE
  Isolated = FALSE
PROPERTY ReadyIsServed
CHECK_DEADLOCK FALSE
