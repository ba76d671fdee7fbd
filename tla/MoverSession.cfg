SPECIFICATION Spec
CONSTANTS
  a = a
  b = b
  c = c
  Movers = {a, b}
  Uploaders = {a}
  Links <- OneLink
  Hashes = {1, 2, 3}
  Empty = 3
  Uploads = {1}
  Racy <- AllEnds
  Broken <- AllEnds
  MinIHave = 1
  MaxIHave = 3
  MinIWant = 2
  MaxIWant = 3
  MaxResets = 1
INVARIANTS
  TypeOK
  RequestsWereOffered
  DataWasRequested
  OwedInFlight
CHECK_DEADLOCK FALSE
