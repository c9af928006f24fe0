-------------------------- MODULE MCSeatReplication --------------------------
EXTENDS SeatReplication

CONSTANTS p1, p2, alice, bob

MCPeers == {p1, p2}
MCOnePeer == {p1}
MCOwners == {alice, bob}
MCOneOwner == {alice}
===============================================================================
