SPECIFICATION FairSpec
CONSTANTS
  a1 = a1
  a2 = a2
  b1 = b1
  c1 = c1
  Tasks <- MCThreeTasks
  Url <- MCUrl
  Workers = {w1, w2}
  Clients = {r1}
  NoTask = NoTask
  NoClient = NoClient
  QueueSize = 2
  PoolSizes = {}
  InitialPoolSize = 2
  MayShutDown = TRUE
INVARIANT ActiveMatchesRegistered
PROPERTIES EveryFutureSettles ShutdownEnds ImplementsRequestService
CHECK_DEADLOCK FALSE
