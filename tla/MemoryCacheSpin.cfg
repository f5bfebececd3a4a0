SPECIFICATION FairSpec
CONSTANTS
  k1 = k1
  k2 = k2
  k3 = k3
  o1 = o1
  o2 = o2
  Threads = {t1}
  Keys = {k1, k2, k3}
  Objects = {o1, o2}
  Sizes = {0, 1, 2}
  Additions <- MCAdditions
  Capacities = {1}
  LowWaters = {}
  InitialCapacity = 2
  InitialLowWater = 1
  MaxTime = 1
  Null = Null
  NoThread = NoThread
PROPERTY AddEnds
