SPECIFICATION FairSpec
CONSTANTS
  Procs = {api, worker}
  Requests = {q1}
  Prefetch = 2
  None = None
  MaxChanges = 2
  MaxFaults = 2
INVARIANTS TypeOK StaleIsAnnounced NoOrderOnceClosed PricedIsWhole
PROPERTY EventsAreSettled
CHECK_DEADLOCK FALSE
