SPECIFICATION FairSpec
CONSTANTS
  o1 = o1
  o2 = o2
  Events = {1, 2, 3, 4}
  AggregateOf <- MCAggregateOf
  Drainers = {d1, d2}
  Batch = 2
  MaxFaults = 2
INVARIANTS DispatchedIsPublished CopiesAreFaults
PROPERTIES FirstCopiesInOrder VisibleIsDispatched
CHECK_DEADLOCK FALSE
