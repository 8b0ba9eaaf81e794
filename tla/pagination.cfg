SPECIFICATION FairWalk
CONSTANTS
  Ids = {1, 2, 3}
  Initially = {1, 2, 3}
  PerMs = 2
  MaxTime = 3
  YearStart = 2
  Limits = {1, 2}
INVARIANTS WalkTypeOK TiesReturnedOnce
PROPERTIES PagesInOrder WalkEnds
CHECK_DEADLOCK FALSE
