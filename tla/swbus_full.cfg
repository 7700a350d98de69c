SPECIFICATION FairSpec
CONSTANTS
  Publishers = {p1}
  NoThread = NoThread
  Pids = {1}
  Sizes = {1}
  EltSizes <- OnePoolSizes
  PoolElts <- OnePoolElts
  QueueSize = 1
  MaxSubs = 1
  MaxRxqs = 2
  MaxPackets = 2
  Async = FALSE
  Fronters = {}
PROPERTY PublishReturns
CHECK_DEADLOCK FALSE
