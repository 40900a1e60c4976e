SPECIFICATION Spec
CONSTANTS
  o1 = o1
  o2 = o2
  o3 = o3
  u = u
  v = v
  INVALID = INVALID
  Objects = {o1, o2, o3}
  Owners = {u, v}
  OwnerOf <- MCOwnerOf
  Handles = {h1, h2, h3}
  Kills = TRUE
  StopTimesOut = FALSE
SYMMETRY Symmetry
INVARIANT KillReachesAll
PROPERTY ZeroMeansNoneRuns
