SPECIFICATION FairSpec
CONSTANTS
  t1 = t1
  t2 = t2
  t3 = t3
  Threads <- MCThreads
  NoThread = NoThread
  InitValue = 0
  MaxPosts = 2
INVARIANTS
  TypeOK
  TokenStillThere
  TokensConserved
  NoLostWakeup
  NoUseAfterDestroy
PROPERTIES
  ImplementsSemaphore
  WaiterServed
  TimedWaitReturns
CHECK_DEADLOCK FALSE
