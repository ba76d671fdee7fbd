SPECIFICATION FairSpec
CHECK_DEADLOCK FALSE
CONSTANTS
  timer = timer
  uploader = uploader
  None = None
  Callers <- MCCallers
  MaxArrivals = 3
  MaxCalls = 2
INVARIANTS
  NoHalfClosed
  CrashOnlyByOthers
PROPERTIES
  NobodyStuck
  EndCloses
