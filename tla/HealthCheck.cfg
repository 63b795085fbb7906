CONSTANTS
  MaxStarts = 2
  CheckTimes = 2
SPECIFICATION FairCheckerSpec
INVARIANTS DownAfterFailures QuietEndIsExplained
PROPERTIES DeadServiceIsReported CheckersEnd
CHECK_DEADLOCK FALSE
