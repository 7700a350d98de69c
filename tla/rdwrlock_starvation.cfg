SPECIFICATION FairSpec
CONSTANTS
  Threads = {t1, t2, t3, t4}
  TimedWriters = {t1}
  TimedReaders = {}
  MaxTimedWrites = 1
PROPERTY WritersServed
