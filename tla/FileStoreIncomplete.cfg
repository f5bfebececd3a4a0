SPECIFICATION Spec
CONSTANTS
  Requests = {x1}
  Resources = {k1}
  NoResource = NoResource
  Hidden = {}
  NoEntry = NoEntry
  MaxRunning = 1
  MaxEntries = 1
  MayRestart = FALSE
  MaxFaults = 1
INVARIANT LocalFileIsComplete
CHECK_DEADLOCK FALSE
