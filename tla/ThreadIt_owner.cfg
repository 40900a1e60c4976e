SPECIFICATION Spec
CONSTANTS
  c1 = c1
  c2 = c2
  p1 = p1
  p2 = p2
  n1 = n1
  e1 = e1
  e2 = e2
  NULL = NULL
  Clients = {c1, c2}
  Owner = c1
  Registrars = {c2}
  Packs = {p1, p2, n1}
  Fresh = {n1}
  Kind <- MCKind
  Garbage <- MCGarbage
  Events = {e1}
  Methods = {1, 2}
  MaxEvents = 1
  MaxID = 1
  Resubmit = FALSE
  Periodic = FALSE
  Timed = FALSE
  StopTimesOut = FALSE
INVARIANTS OneOwner ResultReady
PROPERTIES ToldAsAnswered ImplementsActiveObject
