SPECIFICATION FairSpec
CONSTANTS
  Publishers = {p1, p2}
  NoThread = NoThread
  Pids = {1}
  Sizes = {1, 3}
  EltSizes <- TwoPoolSizes
  PoolElts <- TwoPoolElts
  QueueSize = 2
  MaxSubs = 2
  MaxRxqs = 2
  MaxPackets = 2
  Async = FALSE
  Fronters = {}
INVARIANTS RefsAccount PacketIntact SyncBarrier TotalOrder EverySubscriberNotified
PROPERTIES PublishReturns ChunksReturn
CHECK_DEADLOCK FALSE
