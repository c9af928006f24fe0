------------------------------ MODULE LeaseTable ------------------------------
(***************************************************************************)
(* The data of DistributedLeaseManager (src/locking/lease_manager.py): one *)
(* dictionary from seats to leases, one from lease ids to leases, and what *)
(* the methods do to the pair.  Every operator takes a table and returns   *)
(* the table the method leaves behind, so that a caller that makes several *)
(* calls under one lock (confirm_seat: validate, then release) composes    *)
(* them in a single step.                                                  *)
(***************************************************************************)
EXTENDS Naturals

CONSTANTS
  Seats,      \* the seats on sale
  LeaseIds,   \* the uuid4 values the manager may draw
  Owners,     \* the requesters a lease can be held for
  None        \* what dict.get returns for a missing key

\* The leaseholder's server is named in one error message only and is left out.
Lease == [lease_id: LeaseIds, seat_id: Seats, owner: Owners, expires_at: Nat]

ASSUME NoneAssumption == None \notin Lease

LeaseOrNone == Lease \cup {None}

Table == [bySeat: [Seats -> LeaseOrNone], byId: [LeaseIds -> LeaseOrNone]]

EmptyTable ==
  [bySeat |-> [s \in Seats |-> None], byId |-> [i \in LeaseIds |-> None]]

(***************************************************************************)
(* The two dictionaries are inverse views of one set of leases.            *)
(***************************************************************************)
Consistent(T) ==
  /\ \A s \in Seats : T.bySeat[s] # None =>
       /\ T.bySeat[s].seat_id = s
       /\ T.byId[T.bySeat[s].lease_id] = T.bySeat[s]
  /\ \A i \in LeaseIds : T.byId[i] # None =>
       /\ T.byId[i].lease_id = i
       /\ T.bySeat[T.byId[i].seat_id] = T.byId[i]

-----------------------------------------------------------------------------
\* The list of leases _expire_locked collects and returns.
Expired(T, now) ==
  {T.bySeat[s] : s \in {x \in Seats : /\ T.bySeat[x] # None
                                      /\ T.bySeat[x].expires_at <= now}}

MutExpireSeatOnly(T, now) ==
  [T EXCEPT !.bySeat = [s \in Seats |->
     IF \E l \in Expired(T, now) : l.seat_id = s THEN None ELSE T.bySeat[s]]]

ExpireLocked(T, now) ==
  LET gone == Expired(T, now) IN
  [bySeat |-> [s \in Seats |->
                 IF \E l \in gone : l.seat_id = s THEN None ELSE T.bySeat[s]],
   byId   |-> [i \in LeaseIds |->
                 IF \E l \in gone : l.lease_id = i THEN None ELSE T.byId[i]]]

\* acquire and renew store the lease they built under both keys.
Store(T, lease) ==
  [bySeat |-> [T.bySeat EXCEPT ![lease.seat_id] = lease],
   byId   |-> [T.byId EXCEPT ![lease.lease_id] = lease]]

\* release pops the id, and the seat's entry if it is that very lease.
Release(T, id) ==
  LET lease == T.byId[id] IN
  [bySeat |-> IF lease # None /\ T.bySeat[lease.seat_id] = lease
              THEN [T.bySeat EXCEPT ![lease.seat_id] = None]
              ELSE T.bySeat,
   byId   |-> [T.byId EXCEPT ![id] = None]]
===============================================================================
