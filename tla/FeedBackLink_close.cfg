CONSTANTS
  MaxDials = 3
  MaxDialFailures = 1
  MaxFeedBacks = 2
  MaxRepeats = 1
  MaxTasks = 2
SPECIFICATION FairSpec
PROPERTIES Reconnects
CHECK_DEADLOCK FALSE
