SPECIFICATION FairSpec
CONSTANTS
  Threads = {t1, t2, t3}
  TimedWriters = {t1}
  TimedReaders = {t3}
  MaxTimedWrites = 2
INVARIANTS SemaphoresAccounted
PROPERTIES ImplementsLock LineIsFair
