SPECIFICATION FairSpec
CONSTANTS
  Publishers = {p1, p2}
  NoThread = NoThread
  Pids = {1}
  Sizes = {1}
  EltSizes <- OnePoolSizes
  PoolElts <- OnePoolElts
  QueueSize = 1
  MaxSubs = 2
  MaxRxqs = 2
  MaxPackets = 3
  Async = TRUE
  Fronters = {}
INVARIANT HeldNotFree
CHECK_DEADLOCK FALSE
