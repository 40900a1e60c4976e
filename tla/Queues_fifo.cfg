\* With the semaphore t2 clears, t1 and t3 also release the semaphore without
\* an item, and no insert overlaps a clear.  With the event every thread calls
\* every method, and all may end up in waitItem (INFINITE): it may stop.
SPECIFICATION MCSpec
CONSTANTS
  Threads = {t1, t2, t3}
  Items = {i1, i2, i3}
  MaxCount = 3
  Signallers = {t1, t3}
  Clearers = {t2}
  ClearExclusive = TRUE
INVARIANTS NoLostSignal EventCovers
PROPERTIES ImplementsFifo WaitersServed
CHECK_DEADLOCK FALSE
