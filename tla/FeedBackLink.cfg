CONSTANTS
  MaxDials = 3
  MaxDialFailures = 1
  MaxFeedBacks = 2
  MaxRepeats = 1
  MaxTasks = 2
SPECIFICATION FairSpec
INVARIANTS WholeTasks FeedBackInOrder
PROPERTIES FeedBackIsWritten ReconnectsIfClosed
CHECK_DEADLOCK FALSE
