CONSTANTS
  t1 = t1  t2 = t2  t3 = t3
  c1 = c1  c2 = c2  none = none
  Tasks <- MCTasks2
  Containers <- MCContainers1
  NoContainer = none
  Kinds = {"StartContainer", "StopContainer"}
  HealthChecks = {TRUE}
  MaxDeaths = 0
SPECIFICATION FairSpec
PROPERTIES StopIsReported ImplementsProtocol
