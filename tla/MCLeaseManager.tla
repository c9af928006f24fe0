---------------------------- MODULE MCLeaseManager ----------------------------
EXTENDS LeaseManager, TLC

CONSTANTS s1, s2, i1, i2, i3, alice, bob

MCSeats == {s1, s2}
MCLeaseIds == {i1, i2, i3}
MCOwners == {alice, bob}

\* Seats, ids and owners are only compared for equality.
Symmetry == Permutations(MCSeats) \cup Permutations(MCLeaseIds) \cup Permutations(MCOwners)
===============================================================================
