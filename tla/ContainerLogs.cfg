CONSTANTS
  start1 = start1  start2 = start2  stop1 = stop1
  s1 = s1
  Starters <- MCStarters
  Stoppers <- MCStoppers
  Sessions <- MCSessions
  MaxLines = 1
SPECIFICATION FairSpec
INVARIANTS OneLateLine SessionHasReporter
 
CHECK_DEADLOCK FALSE
