SPECIFICATION FairSpec
CONSTANTS
  s1 = s1
  c1 = c1
  c2 = c2
  Checker = Checker
  Servers <- MCServers
  Callers <- MCCallers
  DegradedAfter = 1
  OfflineAfter = 2
  MaxLag = 2
INVARIANTS
  NoFalseAlarm
  NewsUnderWay
PROPERTIES
  SilenceNoticed
