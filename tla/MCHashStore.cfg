SPECIFICATION Spec
CHECK_DEADLOCK FALSE
CONSTANTS
  h1 = h1
  h2 = h2
  h3 = h3
  None = None
  Deleted = Deleted
  Torn = Torn
  Hashes <- MCHashes
  Received <- MCReceived
  MaxCrashes = 2
  MaxExpired = 2
  MaxShort = 2
SYMMETRY HashSymmetry
INVARIANTS
  KeptIsKnown
  WriteAhead
  ListedIsWhole
  FreeIsFree
PROPERTIES
  LoggedOnce
