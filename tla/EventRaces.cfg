SPECIFICATION Spec
CONSTANTS
  c1 = c1
  c2 = c2
  c3 = c3
  w1 = w1
  w2 = w2
  e1 = e1
  e2 = e2
  FailSafe = failsafe
  Timer = timer
  Main = main
  Nobody = nobody
  NoQueue = noqueue
  Events = {e1}
  TimerEvents = {}
  Clients = {c1, c2, c3}
  Workers = {w1, w2}
  Overlap = {"close", "post"}
  Overdue = TRUE
  MaxCalls = 1
  MaxPosts = 2
  MaxFires = 2
INVARIANTS
  TypeOK
  CurrentQueueAccurate
  ClosedStaysQuiet
  HandledAtMostPosted
SYMMETRY ClientSymmetry
CHECK_DEADLOCK FALSE
