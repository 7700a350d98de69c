SPECIFICATION Spec
CONSTANTS
  MaxElts = 2
  Threads = {t1, t2}
  NoThread = NoThread
  Handles = {h1, h2, h3}
  NoHandle = NoHandle
  MaxInterrupts = 1
INVARIANT RequestFindsChunk
CHECK_DEADLOCK FALSE
