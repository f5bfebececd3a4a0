SPECIFICATION FairSpec
CONSTANTS
  k1 = k1
  k2 = k2
  k3 = k3
  o1 = o1
  o2 = o2
  Threads = {t1, t2}
  Keys = {k1, k2, k3}
  Objects = {o1, o2}
  Sizes = {0, 1, 2}
  Additions <- MCAdditions
  Capacities = {1, 3}
  LowWaters <- MCLowWaters
  InitialCapacity = 2
  InitialLowWater = 1
  MaxTime = 1
  Null = Null
  NoThread = NoThread
INVARIANTS TypeOK UsedIsTotalSize OneReportPerAdd WithinCapacity
INVARIANT StuckOnlyIfTooLarge
PROPERTY LockIsReleased
