SPECIFICATION Spec
CONSTANTS
  s1 = s1
  s2 = s2
  unknown = unknown
  i1 = i1
  i2 = i2
  i3 = i3
  alice = alice
  bob = bob
  b1 = b1
  b2 = b2
  None = None
  Seats <- MCSeats
  RequestIds <- MCRequestIds
  LeaseIds <- MCLeaseIds
  Owners <- MCOwners
  Bookers <- MCBookers
  Ttls = {2}
  Ttl = 2
  MaxAttempts = 2
  MaxClock = 4
SYMMETRY Symmetry
INVARIANTS
  NoLeftoverLease
  CountdownIsBacked
  IdIsOwn
  ReserveNeverConflicts
PROPERTIES
  SoldUnderLease
  OwnerKept
  ImplementsExclusiveLease
