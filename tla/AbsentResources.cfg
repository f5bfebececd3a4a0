SPECIFICATION FairSpec
CONSTANTS
  Resources = {r1, r2, r3}
  Clients = {c1, c2}
  NoResource = NoResource
  Capacity = 2
  MaxTriesValues = {0, 1}
  MinCheckIntervals = {1}
  TryAgainIntervals = {1, 3}
  InitialMaxTries = 2
  InitialMinCheckInterval = 3
  InitialTryAgainInterval = 3
  MaxAge = 4
INVARIANTS TypeOK TriesBounded
PROPERTIES NoEarlyRetry AbsenceEnds
