\* The rebuild claim of the command center against its merge by sequence.
CONSTANTS
  Browser = {watcher}
  Operator = {}
  MaxEvents = 3
  MaxBatch = 1
  MaxDrops = 1
SPECIFICATION FeedSpec
INVARIANT RebuildsFromStream
\* A finished session leaves its pages idle.
CHECK_DEADLOCK FALSE
