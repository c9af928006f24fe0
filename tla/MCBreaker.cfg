SPECIFICATION FairSpec
CONSTANTS
  c1 = c1
  c2 = c2
  Callers <- MCTwoCallers
  FailureThreshold = 2
  RecoveryTimeout = 1
  HalfOpenSuccesses = 2
  RateLimit = 60
  Window = 1
  MaxEvents = 4
INVARIANTS
  CountsConsecutive
  TrialsBounded
  FailureTrips
PROPERTIES
  OpenEnds
  MendedCloses
