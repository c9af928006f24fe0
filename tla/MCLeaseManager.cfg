SPECIFICATION LeaseSpec
CONSTANTS
  s1 = s1
  s2 = s2
  i1 = i1
  i2 = i2
  i3 = i3
  alice = alice
  bob = bob
  None = None
  Seats <- MCSeats
  LeaseIds <- MCLeaseIds
  Owners <- MCOwners
  Ttls = {0, 1, 2}
  MaxClock = 5
SYMMETRY Symmetry
INVARIANTS
  TablesAgree
PROPERTIES
  NoTakeover
  ImplementsExclusiveLease
