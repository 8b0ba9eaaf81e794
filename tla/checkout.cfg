SPECIFICATION FairSpec
CONSTANTS
  o1 = o1
  o2 = o2
  failed1 = failed1
  paid1 = paid1
  Orders = {o1, o2}
  Online = {o1}
  Events = {failed1, paid1}
  OrderOf <- MCOrderOf
  Succeeds = {paid1}
  Slots = {w1, w2}
  NoRow = NoRow
  NoEvent = NoEvent
  Faults = TRUE
INVARIANTS PlacedIsPaid PlacedIsAnnounced StampedIsAccounted PlacedHoldsStock SucceededIsCaptured
PROPERTY PaidIsPlaced
CHECK_DEADLOCK FALSE
