\* As Queues_fifo, but an insert may overlap a clear.
SPECIFICATION FairSpec
CONSTANTS
  Threads = {t1, t2, t3}
  Items = {i1, i2}
  MaxCount = 2
  Signallers = {}
  Clearers = {t2}
  ClearExclusive = FALSE
PROPERTY WaitersServed
CHECK_DEADLOCK FALSE
