SPECIFICATION FairSpec
CONSTANTS
  p1 = p1
  p2 = p2
  alice = alice
  bob = bob
  None = None
  Primary = Primary
  SeatCount = 2
  Peers <- MCOnePeer
  Owners <- MCOneOwner
  MaxVersion = 5
  MaxResets = 1
  QuietResets = TRUE
INVARIANTS
  LagIsUnderWay
  VersionsAgree
  PendingCoversWaiting
PROPERTIES
  NoRegression
  ReplicasConverge
