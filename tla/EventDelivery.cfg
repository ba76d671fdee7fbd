SPECIFICATION FairSpec
CONSTANTS
  c1 = c1
  c2 = c2
  c3 = c3
  w1 = w1
  w2 = w2
  e1 = e1
  e2 = e2
  FailSafe = failsafe
  Timer = timer
  Main = main
  Nobody = nobody
  NoQueue = noqueue
  Events = {e1, e2}
  TimerEvents = {e2}
  Clients = {c1, c2}
  Workers = {w1}
  Overlap = {}
  Overdue = FALSE
  MaxCalls = 1
  MaxPosts = 2
  MaxFires = 1
INVARIANTS
  CrashOnlyInShutdown
PROPERTIES
  EveryPostHandled
  ShutdownEnds
