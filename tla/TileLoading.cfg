SPECIFICATION FairSpec
CONSTANTS
  Requests = {x1, x2}
  Resources = {t1}
  NoResource = NoResource
  Loaders = {l1, l2}
  MaxRunning = 2
  MaxFaults = 3
INVARIANTS TypeOK IncompleteOnlyIfDamaged
PROPERTY TileIsLoaded
