SPECIFICATION FairSpec
CONSTANTS
  t1 = t1
  t2 = t2
  t3 = t3
  m1 = m1
  m2 = m2
  m3 = m3
  c1 = c1
  b1 = b1
  Thread <- ThreeThreads
  NoThread = NoThread
  Mutex <- ThreeMutexes
  Cond <- OneCond
  Barrier <- OneBarrier
  Stray <- StrayMutex
  NoId = NoId
  Programs <- AllPrograms
  Counts <- SomeCounts
  Timeouts <- SomeTimeouts
  MS_PER_SEC = 2
  NS_PER_MS = 2
  MaxTime = 8
  MaxRound = 2
INVARIANTS
  Sound
  LocksKept
  TimeoutNotEarly
PROPERTIES
  TimedWaitEnds
  ValidHandlesAreTaken
CHECK_DEADLOCK FALSE
