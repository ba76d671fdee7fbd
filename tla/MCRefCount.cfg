SPECIFICATION FairSpec
CHECK_DEADLOCK FALSE
CONSTANTS
  t1 = t1
  t2 = t2
  t3 = t3
  w1 = w1
  w2 = w2
  w3 = w3
  Threads <- MCThreads
  Owners <- MCOwners
  Holders <- MCHolders
  Closed <- MCClosed
  MaxRefs = 4
INVARIANTS
  HeldIsAlive
  CountsAgree
PROPERTIES
  LooseOnlyByOthers
  DeletedInTheEnd
