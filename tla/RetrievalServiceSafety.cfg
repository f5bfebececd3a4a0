SPECIFICATION Spec
CONSTANTS
  a1 = a1
  a2 = a2
  b1 = b1
  c1 = c1
  Tasks <- MCTasks
  Url <- MCUrl
  Workers = {w1, w2}
  Clients = {r1, r2}
  NoTask = NoTask
  NoClient = NoClient
  QueueSize = 1
  PoolSizes = {0, 1, 2}
  InitialPoolSize = 2
  MayShutDown = FALSE
SYMMETRY Symmetry
INVARIANTS TypeOK NoDuplicateQueued ActiveMatchesRegistered QueueOverrunBounded
INVARIANT QueueIsServed
CHECK_DEADLOCK FALSE
