CONSTANTS
  Adders = {"manager", "publisher"}
  Types = {"oom", "oomKill", "creation"}
  Clients = {"c"}
  Containers = {"", "/", "/a"}
  PrefixesOf <- MCPrefixesOf
  MaxTime = 3
  MaxAge = 2
  MaxItems = 2
  ChannelCap = 1
  WatchRequests <- MCWatchRequests
  ContainerOf <- MCContainerOf
  VictimOf <- MCVictimOf
  MaxChanges = 1
  Changing = {"/a"}
  QueryAdds <- MCQueryAdds
  QueryRequests <- MCQueryRequests
  MaxOoms = 2
  Limited = {1}
  MaxOther = 1
  LineBuffer = 1
  OutBuffer = 1
SPECIFICATION FairSpec
INVARIANTS KillsAreReported  SendsAreOpen AnswersAreExact
PROPERTIES KillsBecomeEvents
CHECK_DEADLOCK FALSE
