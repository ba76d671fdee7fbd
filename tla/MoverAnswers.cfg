SPECIFICATION FairSpec
CONSTANTS
  a = a
  b = b
  c = c
  Movers = {a, b}
  Uploaders = {a}
  Links <- OneLink
  Hashes = {1, 2}
  Empty = 2
  Uploads = {1}
  Racy <- AllEnds
  Broken <- AllEnds
  MinIHave = 0
  MaxIHave = 2
  MinIWant = 1
  MaxIWant = 2
  MaxResets = 1
PROPERTIES
  HangUpPropagates
  RequestsAnswered
  ConnectionEnds
CHECK_DEADLOCK FALSE
