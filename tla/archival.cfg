SPECIFICATION FairSpec
CONSTANTS
  OrderCount = 2
  Orders <- MCOrders
  Procs = {w1, w2}
  Batch = 1
  Absent = Absent
  MaxUpdates = 1
  MaxFaults = 2
INVARIANTS NothingLost OneMover LookupFinds
PROPERTY LastYearIsArchived
CHECK_DEADLOCK FALSE
