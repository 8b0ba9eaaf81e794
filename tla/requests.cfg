SPECIFICATION FairSpec
CONSTANTS
  r1 = r1
  r2 = r2
  Runs = {r1, r2}
  Stock = 1
  MaxFaults = 3
INVARIANTS OneOrderOneAnswer 
PROPERTY IsAnswered
CHECK_DEADLOCK FALSE
