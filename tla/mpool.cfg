SPECIFICATION FairSpec
CONSTANTS
  MaxElts = 2
  Threads = {t1, t2}
  NoThread = NoThread
  Handles = {h1, h2, h3}
  NoHandle = NoHandle
  MaxInterrupts = 1
INVARIANTS Partition RefsExact TokenAccounting
PROPERTIES ImplementsPool FreeChunkBecomesAvailable ReleaseReturns
CHECK_DEADLOCK FALSE
