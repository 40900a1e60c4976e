\* As SafeInterface_messages, but c replies to b, and nobody is kept.
SPECIFICATION Spec
CONSTANTS
  a = a
  b = b
  c = c
  NULL = NULL
  Main = Main
  Instances = {a, b, c}
  Kept = {}
  Requests <- MCRequests
  MaxRequests = 2
  Observers <- MCSourced
  Cleans = {}
INVARIANT OutlivesThread
CHECK_DEADLOCK FALSE
