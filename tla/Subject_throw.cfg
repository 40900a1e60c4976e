\* After an observer has thrown the critical section is never left: the
\* clients may all be waiting for it (and the notifier reaches MaxDepth).
SPECIFICATION Spec
CONSTANTS
  c1 = c1
  c2 = c2
  a1 = a1
  a2 = a2
  b1 = b1
  NULL = NULL
  Clients = {c1, c2}
  Notifiers = {n1}
  Observers = {a1, a2, b1}
  ClientOf <- MCClientOf
  Throws = TRUE
  MaxDepth = 2
INVARIANTS SectionFree
CHECK_DEADLOCK FALSE
