CONSTANTS
  t1 = t1  t2 = t2  t3 = t3
  c1 = c1  c2 = c2  none = none
  Tasks <- MCTasks2
  Containers <- MCContainers1
  NoContainer = none
  Kinds = {"PullImage", "CreateContainer", "RunContainer", "StartContainer", "StopContainer", "RestartContainer", "RemoveContainer", "Unknown"}
  HealthChecks = {FALSE}
  MaxDeaths = 1
SPECIFICATION Spec
INVARIANTS TypeOK WaitGroupCountsStops StopsPaidByStarts
PROPERTY StopReportedNormal
SYMMETRY Symmetry
