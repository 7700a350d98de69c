SPECIFICATION FairSpec
CONSTANTS
  Threads = {t1, t2, t3}
  Strangers = {t3}
  NoThread = NoThread
INVARIANTS OneOwner NoLostWakeup
PROPERTY WaitEndsWhenAvailable
CHECK_DEADLOCK FALSE
