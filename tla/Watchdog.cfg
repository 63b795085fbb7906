CONSTANTS
  MaxPids = 5
  MaxFailures = 2
SPECIFICATION FairWatchdogSpec
INVARIANTS OneOfEach
PROPERTIES ComesBack
CHECK_DEADLOCK FALSE
