\* A watching and a commanding page, one loss.
CONSTANTS
  Browser = {watcher, operator}
  Operator = {operator}
  MaxEvents = 3
  MaxBatch = 2
  MaxDrops = 1
SPECIFICATION FeedSpec
INVARIANTS
  AppliedOnceInOrder
  WatcherMissesOnlyWhileAway
PROPERTY CatchesUp
\* A finished session leaves its pages idle.
CHECK_DEADLOCK FALSE
