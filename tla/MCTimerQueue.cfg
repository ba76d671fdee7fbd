SPECIFICATION FairSpec
CONSTANTS
  c1 = c1
  t1 = t1
  t2 = t2
  Thread = Thread
  Main = Main
  NoTimer = NoTimer
  Clients <- MCClients
  Timers <- MCTimers
  Delays <- MCDelays
  MaxTime = 2
  MaxStarts = 3
CHECK_DEADLOCK FALSE
INVARIANTS
  TypeOK
  NotSleptOver
  Sorted
  ExitHeard
PROPERTIES
  EveryAlarmRings
  ThreadExits
