CONSTANTS
  Hosts = {"here", "there"}
  Local = "here"
  Policies = {1, 2}
  MaxFaults = 1
  MaxDeaths = 1
  k1 = k1  k2 = k2
  Keepers <- MCKeepers
  Names = {"web"}
  NameOf <- MCNameOf
  Intervals = {2}
  BufferDuration = 1
  MaxTime = 2
SPECIFICATION Spec
INVARIANTS PoliciesAreKept PointsConserved 
SYMMETRY Symmetry
CHECK_DEADLOCK FALSE
