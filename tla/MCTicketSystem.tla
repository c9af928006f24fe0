--------------------------- MODULE MCTicketSystem ---------------------------
EXTENDS TicketSystem

CONSTANTS i1, i2, i3, alice, bob, b1, p1

MCRequestIds == 1 .. SeatCount
MCLeaseIds == {i1, i2, i3}
MCTwoLeaseIds == {i1, i2}
MCOwners == {alice, bob}
MCBookers == {b1}
MCPeers == {p1}
===============================================================================
