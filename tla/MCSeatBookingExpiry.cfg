SPECIFICATION FairSpec
CONSTANTS
  s1 = s1
  s2 = s2
  unknown = unknown
  i1 = i1
  i2 = i2
  i3 = i3
  alice = alice
  bob = bob
  b1 = b1
  b2 = b2
  None = None
  Seats <- MCOneSeat
  RequestIds <- MCOneRequestId
  LeaseIds <- MCTwoLeaseIds
  Owners <- MCOneOwner
  Bookers <- MCOneBooker
  Ttls = {1}
  Ttl = 1
  MaxAttempts = 2
  MaxClock = 3
PROPERTIES
  ExpiredLockReturns
