---------------------------- MODULE ExclusiveLease ----------------------------
(***************************************************************************)
(* What a lease authority promises, with neither clock nor dictionaries:   *)
(* each seat is covered by at most one lease at a time, a lease is granted *)
(* only while its seat is free, and a lease that has ended never comes     *)
(* back.  LeaseManager and SeatBooking are shown to implement it.          *)
(***************************************************************************)
CONSTANTS Seats, LeaseIds, None

VARIABLES
  active,   \* active[s]: the lease that covers seat s, or None
  granted   \* the leases granted so far

vars == <<active, granted>>

Init ==
  /\ active = [s \in Seats |-> None]
  /\ granted = {}

\* A free seat is given to a lease never used before.
Grant(s, id) ==
  /\ active[s] = None
  /\ id \notin granted
  /\ active' = [active EXCEPT ![s] = id]
  /\ granted' = granted \cup {id}

\* A lease that is over as soon as it is granted.
Spend(id) ==
  /\ id \notin granted
  /\ granted' = granted \cup {id}
  /\ UNCHANGED active

\* Some of the running leases end: by expiry, release or a reset.
End(S) ==
  /\ active' = [s \in Seats |-> IF s \in S THEN None ELSE active[s]]
  /\ UNCHANGED granted

Next ==
  \/ \E s \in Seats, id \in LeaseIds : Grant(s, id)
  \/ \E id \in LeaseIds : Spend(id)
  \/ \E S \in SUBSET Seats : End(S)

Spec == Init /\ [][Next]_vars
===============================================================================
