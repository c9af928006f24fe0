SPECIFICATION SystemFairSpec
CONSTANTS
  i1 = i1
  i2 = i2
  i3 = i3
  alice = alice
  bob = bob
  b1 = b1
  p1 = p1
  None = None
  Primary = Primary
  SeatCount = 1
  RequestIds <- MCRequestIds
  LeaseIds <- MCTwoLeaseIds
  Owners <- MCOwners
  Bookers <- MCBookers
  Peers <- MCPeers
  Ttl = 1
  MaxAttempts = 2
  MaxClock = 1
  MaxVersion = 9
  MaxResets = 1
  QuietResets = FALSE
INVARIANTS
  HeldInPrimary
  NoPhantomSale
  HoldReachesPeers
PROPERTIES
  DrivesReplication
  BookingReturns
