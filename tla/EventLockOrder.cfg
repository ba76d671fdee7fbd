SPECIFICATION Spec
CONSTANTS
  c1 = c1
  c2 = c2
  c3 = c3
  w1 = w1
  w2 = w2
  e1 = e1
  e2 = e2
  FailSafe = failsafe
  Timer = timer
  Main = main
  Nobody = nobody
  NoQueue = noqueue
  Events = {e1}
  TimerEvents = {}
  Clients = {c1}
  Workers = {w1}
  Overlap = {"close"}
  Overdue = FALSE
  MaxCalls = 2
  MaxPosts = 1
  MaxFires = 0
INVARIANTS
  NoCircularWait
CHECK_DEADLOCK FALSE
