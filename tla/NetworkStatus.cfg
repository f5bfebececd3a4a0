SPECIFICATION FairSpec
CONSTANTS
  Hosts = {h1}
  Clients = {c1, c2}
  NoHost = NoHost
  NoInfo = NoInfo
  AttemptLimits = {0, 1, 2}
  TryAgainIntervals = {0, 2}
  CheckIntervals = {2}
  MaxAge = 2
INVARIANTS TypeOK UnavailableIsAnnounced
PROPERTIES NoEarlyAttempt HostIsTriedAgain OutageIsNoticed RecoveryIsNoticed
