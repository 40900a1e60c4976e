SPECIFICATION FairSpec
CONSTANTS
  c1 = c1
  c2 = c2
  p1 = p1
  p2 = p2
  n1 = n1
  e1 = e1
  e2 = e2
  NULL = NULL
  Clients = {c1}
  Owner = c1
  Registrars = {}
  Packs = {p1, n1}
  Fresh = {n1}
  Kind <- MCKindNoQueue
  Garbage <- MCGarbage
  Events = {e1, e2}
  Methods = {1, 2}
  MaxEvents = 2
  MaxID = 0
  Resubmit = TRUE
  Periodic = TRUE
  Timed = TRUE
  StopTimesOut = FALSE
INVARIANTS RegisteredIsHeard RightMethod
PROPERTIES StopEndsThread WorkTaken PeriodKept EventHeard
