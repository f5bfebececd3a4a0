SPECIFICATION Spec
CONSTANTS
  a1 = a1
  a2 = a2
  a3 = a3
  b1 = b1
  c1 = c1
  Tasks <- MCThreeTasks
  Name <- MCName
  Workers = {w1, w2}
  Clients = {r1}
  NoTask = NoTask
  NoClient = NoClient
  QueueSize = 1
  InitialPoolSize = 2
  MayShutDown = FALSE
INVARIANT ExecutingAreActive
CHECK_DEADLOCK FALSE
