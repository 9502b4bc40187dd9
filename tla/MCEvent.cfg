SPECIFICATION FairSpec
CONSTANTS
  t1 = t1
  t2 = t2
  t3 = t3
  Threads <- MCThreads
  NoThread = NoThread
  MaxSets = 2
INVARIANTS
  TypeOK
  NobodySleepsThroughSet
  BroadcastIsTrue
  NoUseAfterDestroy
PROPERTIES
  ImplementsEventFlag
  WaiterReleased
  TimedWaitReturns
CHECK_DEADLOCK FALSE
