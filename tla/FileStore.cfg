SPECIFICATION FairSpec
CONSTANTS
  Requests = {x1, x2}
  Resources = {k1, k2}
  NoResource = NoResource
  Hidden = {k2}
  NoEntry = NoEntry
  MaxRunning = 2
  MaxEntries = 2
  MayRestart = TRUE
  MaxFaults = 3
INVARIANT TypeOK
PROPERTIES NoEarlyReissue BecomesLocal
CHECK_DEADLOCK FALSE
