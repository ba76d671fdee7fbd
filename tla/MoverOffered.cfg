SPECIFICATION Spec
CONSTANTS
  a = a
  b = b
  c = c
  Movers = {a, b}
  Uploaders = {}
  Links <- OneLink
  Hashes = {1, 2, 3}
  Empty = 3
  Uploads = {}
  Racy <- NoEnds
  Broken <- NoEnds
  MinIHave = 1
  MaxIHave = 3
  MinIWant = 2
  MaxIWant = 3
  MaxResets = 1
PROPERTIES
  OnlyOfferedSent
CHECK_DEADLOCK FALSE
