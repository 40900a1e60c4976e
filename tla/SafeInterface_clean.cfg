\* As SafeInterface_messages, but the observer's target may be let go.
SPECIFICATION FairSpec
CONSTANTS
  a = a
  b = b
  c = c
  NULL = NULL
  Main = Main
  Instances = {a, b, c}
  Kept = {}
  Requests <- MCRequests
  MaxRequests = 2
  Observers <- MCAnonymous
  Cleans = {b}
PROPERTY CleanEnds
CHECK_DEADLOCK FALSE
