SPECIFICATION Spec
CONSTANTS
  a1 = a1
  a2 = a2
  a3 = a3
  b1 = b1
  c1 = c1
  Tasks <- MCTasks
  Name <- MCName
  Workers = {w1, w2}
  Clients = {r1, r2}
  NoTask = NoTask
  NoClient = NoClient
  QueueSize = 2
  InitialPoolSize = 2
  MayShutDown = TRUE
SYMMETRY Symmetry
INVARIANTS TypeOK NoDuplicateQueued ActiveNotStale
PROPERTY ImplementsRequestService
CHECK_DEADLOCK FALSE
