\* b replies to a, whom it may not know, and notifies c, c replies to nobody; b cleans its list, of
\* an observer that does not expire.  The program may drop a and b, and has
\* nothing left to do when its requests are used up.
SPECIFICATION FairSpec
CONSTANTS
  a = a
  b = b
  c = c
  NULL = NULL
  Main = Main
  Instances = {a, b, c}
  Kept = {c}
  Requests <- MCLosing
  MaxRequests = 3
  Observers <- MCAnonymous
  Cleans = {b}
PROPERTIES UsesActiveObjects DestructorReturns RequestAnswered
CHECK_DEADLOCK FALSE
