SPECIFICATION FairSpec
CONSTANTS
  t1 = t1
  t2 = t2
  t3 = t3
  NoThread = NoThread
  Threads <- MCThreads
  MaxDepth = 2
INVARIANTS
  MutualExclusion
  OwnerAsserted
  NoLostWakeup
PROPERTIES
  ReleasedBeforeTaken
  FreeIsTaken
  ImplementsMonitor
