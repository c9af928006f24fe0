SPECIFICATION FairSpec
CONSTANTS
  s1 = s1
  t1 = t1
  t2 = t2
  k1 = k1
  k2 = k2
  None = None
  Servers <- MCServers
  Threads <- MCThreads
  Controllers <- MCControllers
  Timeout = 1
INVARIANTS
  KnownIsReported
PROPERTIES
  NoFalseAlarm
  StopsForGood
  FailureReported
  RecoveryReported
