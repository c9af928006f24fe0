---------------------------- MODULE MCSeatBooking ----------------------------
EXTENDS SeatBooking, TLC

CONSTANTS s1, s2, unknown, i1, i2, i3, alice, bob, b1, b2

MCSeats == {s1, s2}
MCOneSeat == {s1}
MCRequestIds == {s1, s2, unknown}
MCOneRequestId == {s1}
MCLeaseIds == {i1, i2, i3}
MCTwoLeaseIds == {i1, i2}
MCOwners == {alice, bob}
MCOneOwner == {alice}
MCBookers == {b1, b2}
MCOneBooker == {b1}

\* Seats, ids, requesters and threads are only compared for equality.
Symmetry ==
  Permutations(MCSeats) \cup Permutations(MCLeaseIds)
  \cup Permutations(MCOwners) \cup Permutations(MCBookers)
===============================================================================
