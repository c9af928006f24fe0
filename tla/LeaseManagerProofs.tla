-------------------------- MODULE LeaseManagerProofs --------------------------
(***************************************************************************)
(* LeaseManager keeps its two dictionaries in agreement and implements     *)
(* ExclusiveLease, for any seats, ids, owners and TTL.  First, what the    *)
(* operations of the lease table return, preserve and bound: the proofs    *)
(* about SeatBooking rest on those lemmas too.                             *)
(***************************************************************************)
EXTENDS LeaseManager, TLAPS

\* The fields of a stored lease have the types the record says.
LEMMA LeaseFields ==
  ASSUME NEW l \in Lease
  PROVE  /\ l.lease_id \in LeaseIds /\ l.seat_id \in Seats
         /\ l.owner \in Owners /\ l.expires_at \in Nat
BY DEF Lease

\* The lookups of a well-typed table answer a lease or None.
LEMMA TableLookup ==
  ASSUME NEW T \in Table
  PROVE  /\ \A s \in Seats : T.bySeat[s] \in Lease \cup {None}
         /\ \A i \in LeaseIds : T.byId[i] \in Lease \cup {None}
BY DEF Table, LeaseOrNone

\* A table with no lease in it is consistent.
LEMMA EmptyTableOK == EmptyTable \in Table /\ Consistent(EmptyTable)
BY DEF EmptyTable, Table, LeaseOrNone, Consistent

\* _expire_locked, entry by entry: a seat loses its lease if that has run out.
LEMMA ExpireBySeat ==
  ASSUME NEW T \in Table, Consistent(T), NEW now \in Nat, NEW s \in Seats
  PROVE  ExpireLocked(T, now).bySeat[s] =
           IF T.bySeat[s] # None /\ T.bySeat[s].expires_at <= now THEN None ELSE T.bySeat[s]
<1>1. (\E l \in Expired(T, now) : l.seat_id = s)
        <=> T.bySeat[s] # None /\ T.bySeat[s].expires_at <= now
  BY DEF Expired, Consistent
<1> QED BY <1>1 DEF ExpireLocked

\* The same for the dictionary by id.
LEMMA ExpireById ==
  ASSUME NEW T \in Table, Consistent(T), NEW now \in Nat, NEW i \in LeaseIds
  PROVE  ExpireLocked(T, now).byId[i] =
           IF T.byId[i] # None /\ T.byId[i].expires_at <= now THEN None ELSE T.byId[i]
<1>1. (\E l \in Expired(T, now) : l.lease_id = i)
        <=> T.byId[i] # None /\ T.byId[i].expires_at <= now
  <2>1. ASSUME NEW l \in Expired(T, now), l.lease_id = i
        PROVE  T.byId[i] # None /\ T.byId[i].expires_at <= now
    <3>1. PICK x \in Seats : /\ T.bySeat[x] # None
                             /\ T.bySeat[x].expires_at <= now
                             /\ l = T.bySeat[x]
      BY DEF Expired
    <3>2. T.byId[i] = l
      BY <2>1, <3>1 DEF Consistent
    <3> QED BY <3>1, <3>2
  <2>2. ASSUME T.byId[i] # None, T.byId[i].expires_at <= now
        PROVE  \E l \in Expired(T, now) : l.lease_id = i
    <3>1. T.byId[i] \in Lease
      BY <2>2, TableLookup
    <3>2. T.byId[i].seat_id \in Seats
      BY <3>1, LeaseFields
    <3>3. T.byId[i].lease_id = i /\ T.bySeat[T.byId[i].seat_id] = T.byId[i]
      BY <2>2 DEF Consistent
    <3>4. T.byId[i] \in Expired(T, now)
      BY <2>2, <3>2, <3>3 DEF Expired
    <3> QED BY <3>3, <3>4
  <2> QED BY <2>1, <2>2
<1> QED BY <1>1 DEF ExpireLocked

\* _expire_locked leaves a consistent table.
LEMMA ExpireOK ==
  ASSUME NEW T \in Table, Consistent(T), NEW now \in Nat
  PROVE  ExpireLocked(T, now) \in Table /\ Consistent(ExpireLocked(T, now))
<1> DEFINE E == ExpireLocked(T, now)
<1>1. E \in Table
  BY DEF ExpireLocked, Table, LeaseOrNone
<1>2. ASSUME NEW s \in Seats, E.bySeat[s] # None
      PROVE  E.bySeat[s].seat_id = s /\ E.byId[E.bySeat[s].lease_id] = E.bySeat[s]
  <2>1. E.bySeat[s] = T.bySeat[s] /\ T.bySeat[s] # None /\ ~(T.bySeat[s].expires_at <= now)
    BY <1>2, ExpireBySeat
  <2>2. T.bySeat[s].seat_id = s /\ T.byId[T.bySeat[s].lease_id] = T.bySeat[s]
    BY <2>1 DEF Consistent
  <2>3. T.bySeat[s].lease_id \in LeaseIds
    BY <2>1, TableLookup, LeaseFields
  <2>4. E.byId[T.bySeat[s].lease_id] = T.bySeat[s]
    BY <2>1, <2>2, <2>3, ExpireById
  <2> QED BY <2>1, <2>2, <2>4
<1>3. ASSUME NEW i \in LeaseIds, E.byId[i] # None
      PROVE  E.byId[i].lease_id = i /\ E.bySeat[E.byId[i].seat_id] = E.byId[i]
  <2>1. E.byId[i] = T.byId[i] /\ T.byId[i] # None /\ ~(T.byId[i].expires_at <= now)
    BY <1>3, ExpireById
  <2>2. T.byId[i].lease_id = i /\ T.bySeat[T.byId[i].seat_id] = T.byId[i]
    BY <2>1 DEF Consistent
  <2>3. T.byId[i].seat_id \in Seats
    BY <2>1, TableLookup, LeaseFields
  <2>4. E.bySeat[T.byId[i].seat_id] = T.byId[i]
    BY <2>1, <2>2, <2>3, ExpireBySeat
  <2> QED BY <2>1, <2>2, <2>4
<1> HIDE DEF E
<1>4. Consistent(E)
  BY <1>2, <1>3 DEF Consistent
<1> QED BY <1>1, <1>4 DEF E

\* Storing a lease keeps the table consistent if its seat and its id are free,
\* as acquire makes sure, or both its own, as in renew.
LEMMA StoreOK ==
  ASSUME NEW T \in Table, Consistent(T), NEW lease \in Lease,
         \/ T.bySeat[lease.seat_id] = None /\ T.byId[lease.lease_id] = None
         \/ T.byId[lease.lease_id] # None /\ T.byId[lease.lease_id].seat_id = lease.seat_id
  PROVE  Store(T, lease) \in Table /\ Consistent(Store(T, lease))
<1> DEFINE U == Store(T, lease)
           i0 == lease.lease_id
           s0 == lease.seat_id
<1>0. i0 \in LeaseIds /\ s0 \in Seats
  BY LeaseFields
<1>1. U \in Table
  BY <1>0 DEF Store, Table, LeaseOrNone
<1>2. /\ \A s \in Seats : U.bySeat[s] = IF s = s0 THEN lease ELSE T.bySeat[s]
      /\ \A i \in LeaseIds : U.byId[i] = IF i = i0 THEN lease ELSE T.byId[i]
  BY <1>0 DEF Store, Table
<1>3. ASSUME NEW s \in Seats, s # s0, T.bySeat[s] # None
      PROVE  T.bySeat[s].lease_id # i0
  BY <1>0, <1>3 DEF Consistent
<1>4. ASSUME NEW i \in LeaseIds, i # i0, T.byId[i] # None
      PROVE  T.byId[i].seat_id # s0
  <2>1. SUFFICES ASSUME T.byId[i].seat_id = s0 PROVE FALSE
    OBVIOUS
  <2>2. T.bySeat[s0] = T.byId[i] /\ T.byId[i].lease_id = i
    BY <1>4, <2>1 DEF Consistent
  <2>3. T.byId[i0] # None /\ T.byId[i0].seat_id = s0
    BY <1>4, <2>2
  <2>4. T.bySeat[s0] = T.byId[i0] /\ T.byId[i0].lease_id = i0
    BY <1>0, <2>3 DEF Consistent
  <2> QED BY <1>4, <2>2, <2>4
<1>5. ASSUME NEW s \in Seats, U.bySeat[s] # None
      PROVE  U.bySeat[s].seat_id = s /\ U.byId[U.bySeat[s].lease_id] = U.bySeat[s]
  <2>1. CASE s = s0
    BY <1>0, <1>2, <2>1
  <2>2. CASE s # s0
    <3>1. U.bySeat[s] = T.bySeat[s] /\ T.bySeat[s] # None
      BY <1>2, <1>5, <2>2
    <3>2. T.bySeat[s].lease_id \in LeaseIds
      BY <3>1, TableLookup, LeaseFields
    <3> QED BY <1>2, <1>3, <2>2, <3>1, <3>2 DEF Consistent
  <2> QED BY <2>1, <2>2
<1>6. ASSUME NEW i \in LeaseIds, U.byId[i] # None
      PROVE  U.byId[i].lease_id = i /\ U.bySeat[U.byId[i].seat_id] = U.byId[i]
  <2>1. CASE i = i0
    BY <1>0, <1>2, <2>1
  <2>2. CASE i # i0
    <3>1. U.byId[i] = T.byId[i] /\ T.byId[i] # None
      BY <1>2, <1>6, <2>2
    <3>2. T.byId[i].seat_id \in Seats
      BY <3>1, TableLookup, LeaseFields
    <3> QED BY <1>2, <1>4, <2>2, <3>1, <3>2 DEF Consistent
  <2> QED BY <2>1, <2>2
<1> HIDE DEF U
<1>7. Consistent(U)
  BY <1>5, <1>6 DEF Consistent
<1> QED BY <1>1, <1>7 DEF U

\* release, entry by entry.
LEMMA ReleaseEntries ==
  ASSUME NEW T \in Table, Consistent(T), NEW id \in LeaseIds
  PROVE  /\ \A s \in Seats : Release(T, id).bySeat[s] =
              IF T.byId[id] # None /\ T.byId[id].seat_id = s THEN None ELSE T.bySeat[s]
         /\ \A i \in LeaseIds : Release(T, id).byId[i] = IF i = id THEN None ELSE T.byId[i]
<1>1. T.byId[id] # None => T.bySeat[T.byId[id].seat_id] = T.byId[id]
  BY DEF Consistent
<1>2. T.byId[id] # None => T.byId[id].seat_id \in Seats
  BY TableLookup, LeaseFields
<1> QED BY <1>1, <1>2 DEF Release, Table

\* release leaves a consistent table.
LEMMA ReleaseOK ==
  ASSUME NEW T \in Table, Consistent(T), NEW id \in LeaseIds
  PROVE  Release(T, id) \in Table /\ Consistent(Release(T, id))
<1> DEFINE U == Release(T, id)
<1>1. U \in Table
  BY DEF Release, Table, LeaseOrNone
<1>2. ASSUME NEW s \in Seats, U.bySeat[s] # None
      PROVE  U.bySeat[s].seat_id = s /\ U.byId[U.bySeat[s].lease_id] = U.bySeat[s]
  <2>1. /\ U.bySeat[s] = T.bySeat[s] /\ T.bySeat[s] # None
        /\ ~(T.byId[id] # None /\ T.byId[id].seat_id = s)
    BY <1>2, ReleaseEntries
  <2>2. T.bySeat[s].lease_id \in LeaseIds
    BY <2>1, TableLookup, LeaseFields
  <2>3. T.bySeat[s].seat_id = s /\ T.byId[T.bySeat[s].lease_id] = T.bySeat[s]
    BY <2>1 DEF Consistent
  <2>4. T.bySeat[s].lease_id # id
    BY <2>1, <2>3
  <2> QED BY <2>1, <2>2, <2>3, <2>4, ReleaseEntries
<1>3. ASSUME NEW i \in LeaseIds, U.byId[i] # None
      PROVE  U.byId[i].lease_id = i /\ U.bySeat[U.byId[i].seat_id] = U.byId[i]
  <2>1. U.byId[i] = T.byId[i] /\ T.byId[i] # None /\ i # id
    BY <1>3, ReleaseEntries
  <2>2. T.byId[i].seat_id \in Seats
    BY <2>1, TableLookup, LeaseFields
  <2>3. T.byId[i].lease_id = i /\ T.bySeat[T.byId[i].seat_id] = T.byId[i]
    BY <2>1 DEF Consistent
  <2>4. ~(T.byId[id] # None /\ T.byId[id].seat_id = T.byId[i].seat_id)
    BY <2>1, <2>3 DEF Consistent
  <2> QED BY <2>1, <2>2, <2>3, <2>4, ReleaseEntries
<1> HIDE DEF U
<1>4. Consistent(U)
  BY <1>2, <1>3 DEF Consistent
<1> QED BY <1>1, <1>4 DEF U

-----------------------------------------------------------------------------

\* The inductive invariant: an acquired id is new, so its entry is free.
IssuedOnly == \A i \in LeaseIds : leases.byId[i] # None => i \in issued

LeaseInv == LeaseTypeOK /\ TablesAgree /\ IssuedOnly

-----------------------------------------------------------------------------
\* Dropping the stale leases leaves a typed, consistent table.
LEMMA LeaseFreshOK ==
  ASSUME LeaseInv
  PROVE  Fresh \in Table /\ Consistent(Fresh)
BY ExpireOK DEF LeaseInv, LeaseTypeOK, TablesAgree, Fresh

\* Dropping the stale leases takes nothing that runs and adds nothing.
LEMMA FreshEntries ==
  ASSUME LeaseInv
  PROVE  /\ \A s \in Seats : Fresh.bySeat[s] = IF Running(s) THEN leases.bySeat[s] ELSE None
         /\ \A i \in LeaseIds : Fresh.byId[i] # None =>
              /\ Fresh.byId[i] = leases.byId[i]
              /\ Fresh.byId[i].expires_at > clock
<1>1. ASSUME NEW s \in Seats
      PROVE  Fresh.bySeat[s] = IF Running(s) THEN leases.bySeat[s] ELSE None
  <2>1. leases.bySeat[s] # None => leases.bySeat[s].expires_at \in Nat
    BY TableLookup, LeaseFields DEF LeaseInv, LeaseTypeOK
  <2> QED BY <2>1, ExpireBySeat DEF LeaseInv, LeaseTypeOK, TablesAgree, Fresh, Running
<1>2. ASSUME NEW i \in LeaseIds, Fresh.byId[i] # None
      PROVE  Fresh.byId[i] = leases.byId[i] /\ Fresh.byId[i].expires_at > clock
  <2>1. leases.byId[i] # None => leases.byId[i].expires_at \in Nat
    BY TableLookup, LeaseFields DEF LeaseInv, LeaseTypeOK
  <2> QED BY <1>2, <2>1, ExpireById DEF LeaseInv, LeaseTypeOK, TablesAgree, Fresh
<1> QED BY <1>1, <1>2

\* The initial state satisfies the invariant.
LEMMA LeaseInitInv == LeaseInit => LeaseInv
BY EmptyTableOK DEF LeaseInit, LeaseInv, LeaseTypeOK, TablesAgree, IssuedOnly, EmptyTable

\* acquire preserves the invariant.
LEMMA AcquireInv ==
  ASSUME LeaseInv, NEW s \in Seats, NEW owner \in Owners, NEW ttl \in Ttls, Acquire(s, owner, ttl)
  PROVE  LeaseInv'
<1>1. PICK id \in LeaseIds \ issued :
        /\ leases' = Store(Fresh, NewLease(s, owner, id, ttl))
        /\ issued' = issued \cup {id}
  BY DEF Acquire, NewLease
<1> DEFINE lease == NewLease(s, owner, id, ttl)
<1>2. lease \in Lease /\ lease.seat_id = s /\ lease.lease_id = id
  BY <1>1, TtlsAssumption DEF NewLease, Lease, LeaseInv, LeaseTypeOK
<1>3. Fresh.bySeat[s] = None
  BY DEF Acquire
<1>4. Fresh.byId[id] = None
  BY <1>1, FreshEntries DEF LeaseInv, IssuedOnly
<1>5. Fresh \in Table /\ Consistent(Fresh)
  BY LeaseFreshOK
<1> HIDE DEF lease
<1>6. leases' \in Table /\ Consistent(leases')
  BY <1>1, <1>2, <1>3, <1>4, <1>5, StoreOK DEF lease
<1>7. LeaseTypeOK'
  BY <1>1, <1>6 DEF Acquire, LeaseInv, LeaseTypeOK
<1>8. IssuedOnly'
  <2>1. ASSUME NEW i \in LeaseIds, leases'.byId[i] # None
        PROVE  i \in issued'
    <3>1. CASE i = id
      BY <1>1, <3>1
    <3>2. CASE i # id
      <4>1. leases'.byId[i] = Fresh.byId[i]
        BY <1>1, <1>2, <1>5, <3>2 DEF Store, Table, lease
      <4> QED BY <1>1, <2>1, <4>1, FreshEntries DEF LeaseInv, IssuedOnly
    <3> QED BY <3>1, <3>2
  <2> QED BY <2>1 DEF IssuedOnly
<1> QED BY <1>6, <1>7, <1>8 DEF LeaseInv, TablesAgree

\* renew preserves the invariant.
LEMMA RenewLeaseInv ==
  ASSUME LeaseInv, NEW id \in issued, NEW ttl \in Ttls, RenewLease(id, ttl)
  PROVE  LeaseInv'
<1>0. id \in LeaseIds
  BY DEF LeaseInv, LeaseTypeOK
<1> DEFINE old == Fresh.byId[id]
           lease == [old EXCEPT !.expires_at = clock + ttl]
<1>1. old \in Lease /\ old.lease_id = id
  BY <1>0, LeaseFreshOK, TableLookup DEF RenewLease, Consistent
<1>2. /\ lease \in Lease /\ lease.seat_id = old.seat_id /\ lease.lease_id = id
  BY <1>1, TtlsAssumption DEF Lease, LeaseInv, LeaseTypeOK
<1>3. leases' = Store(Fresh, lease) /\ old # None
  BY DEF RenewLease
<1>4. Fresh \in Table /\ Consistent(Fresh)
  BY LeaseFreshOK
<1> HIDE DEF lease
<1>5. leases' \in Table /\ Consistent(leases')
  BY <1>2, <1>3, <1>4, StoreOK
<1>6. LeaseTypeOK'
  BY <1>5 DEF RenewLease, LeaseInv, LeaseTypeOK
<1>7. IssuedOnly'
  <2>1. ASSUME NEW i \in LeaseIds, leases'.byId[i] # None
        PROVE  i \in issued'
    <3>1. CASE i = id
      BY <3>1 DEF RenewLease
    <3>2. CASE i # id
      <4>1. leases'.byId[i] = Fresh.byId[i]
        BY <1>2, <1>3, <1>4, <3>2 DEF Store, Table
      <4> QED BY <2>1, <4>1, FreshEntries DEF LeaseInv, IssuedOnly, RenewLease
    <3> QED BY <3>1, <3>2
  <2> QED BY <2>1 DEF IssuedOnly
<1> QED BY <1>5, <1>6, <1>7 DEF LeaseInv, TablesAgree

\* release preserves the invariant.
LEMMA ReleaseInv ==
  ASSUME LeaseInv, NEW id \in issued, ReleaseLease(id)
  PROVE  LeaseInv'
<1>0. id \in LeaseIds
  BY DEF LeaseInv, LeaseTypeOK
<1>1. leases' \in Table /\ Consistent(leases')
  BY <1>0, ReleaseOK DEF ReleaseLease, LeaseInv, LeaseTypeOK, TablesAgree
<1>2. IssuedOnly'
  BY <1>0, ReleaseEntries DEF ReleaseLease, LeaseInv, LeaseTypeOK, TablesAgree, IssuedOnly
<1> QED BY <1>1, <1>2 DEF ReleaseLease, LeaseInv, LeaseTypeOK, TablesAgree

\* Every step preserves the invariant.
LEMMA LeaseStepInv == LeaseInv /\ [LeaseNext]_leaseVars => LeaseInv'
<1> SUFFICES ASSUME LeaseInv, [LeaseNext]_leaseVars PROVE LeaseInv'
  OBVIOUS
<1>1. CASE \E s \in Seats, owner \in Owners, ttl \in Ttls : Acquire(s, owner, ttl)
  BY <1>1, AcquireInv
<1>2. CASE \/ \E id \in issued, ttl \in Ttls : RenewLease(id, ttl)
           \/ \E id \in issued : ReleaseLease(id)
  BY <1>2, RenewLeaseInv, ReleaseInv
<1>3. CASE DropStale
  <2>1. leases' \in Table /\ Consistent(leases')
    BY <1>3, LeaseFreshOK DEF DropStale
  <2>2. IssuedOnly'
    BY <1>3, FreshEntries DEF DropStale, LeaseInv, IssuedOnly
  <2> QED BY <1>3, <2>1, <2>2 DEF DropStale, LeaseInv, LeaseTypeOK, TablesAgree
<1>4. CASE LeaseTick
  BY <1>4 DEF LeaseTick, LeaseInv, LeaseTypeOK, TablesAgree, IssuedOnly
<1>5. CASE UNCHANGED leaseVars
  BY <1>5 DEF leaseVars, LeaseInv, LeaseTypeOK, TablesAgree, IssuedOnly
<1> QED BY <1>1, <1>2, <1>3, <1>4, <1>5 DEF LeaseNext

(***************************************************************************)
(* The two dictionaries of lease_manager.py agree in every reachable state.*)
(***************************************************************************)
THEOREM LeaseManagerCorrect == LeaseSpec => [](LeaseTypeOK /\ TablesAgree)
<1>1. LeaseSpec => []LeaseInv
  BY LeaseInitInv, LeaseStepInv, PTL DEF LeaseSpec
<1> QED BY <1>1, PTL DEF LeaseInv

-----------------------------------------------------------------------------
\* A running lease is in the table by id too, so a release or a renewal of its
\* id finds it, and of another id does not.
LEMMA RunningById ==
  ASSUME LeaseInv, NEW s \in Seats, Running(s)
  PROVE  /\ leases.bySeat[s] \in Lease
         /\ leases.bySeat[s].seat_id = s
         /\ leases.byId[leases.bySeat[s].lease_id] = leases.bySeat[s]
BY TableLookup DEF LeaseInv, LeaseTypeOK, TablesAgree, Consistent, Running

\* acquire: the seats' entries after it.
LEMMA AcquireEntries ==
  ASSUME LeaseInv, NEW s \in Seats, NEW owner \in Owners, NEW id \in LeaseIds,
         NEW ttl \in Ttls,
         leases' = Store(Fresh, NewLease(s, owner, id, ttl))
  PROVE  \A x \in Seats : leases'.bySeat[x] =
           IF x = s THEN NewLease(s, owner, id, ttl)
           ELSE IF Running(x) THEN leases.bySeat[x] ELSE None
BY LeaseFreshOK, FreshEntries DEF Store, Table, NewLease

\* renew: the seat of the lease keeps it, until another time; the others keep theirs.
LEMMA RenewEntries ==
  ASSUME LeaseInv, NEW id \in issued, NEW ttl \in Ttls, RenewLease(id, ttl)
  PROVE  \E s \in Seats :
           /\ Running(s) /\ leases.bySeat[s].lease_id = id
           /\ leases'.bySeat[s] = [leases.bySeat[s] EXCEPT !.expires_at = clock + ttl]
           /\ \A x \in Seats \ {s} : leases'.bySeat[x] =
                IF Running(x) THEN leases.bySeat[x] ELSE None
<1> DEFINE old == Fresh.byId[id]
           lease == [old EXCEPT !.expires_at = clock + ttl]
<1>0. id \in LeaseIds
  BY DEF LeaseInv, LeaseTypeOK
<1>1. old \in Lease /\ old.lease_id = id /\ old.seat_id \in Seats
  BY <1>0, LeaseFreshOK, TableLookup, LeaseFields DEF RenewLease, Consistent
<1>2. Fresh.bySeat[old.seat_id] = old /\ old # None
  BY <1>0, LeaseFreshOK DEF RenewLease, Consistent
<1>3. Running(old.seat_id) /\ leases.bySeat[old.seat_id] = old
  BY <1>1, <1>2, FreshEntries
<1>4. lease \in Lease /\ lease.seat_id = old.seat_id /\ lease.lease_id = id
  BY <1>1, TtlsAssumption DEF Lease, LeaseInv, LeaseTypeOK
<1>5. leases' = Store(Fresh, lease)
  BY DEF RenewLease
<1> HIDE DEF lease
<1>6. \A x \in Seats : leases'.bySeat[x] = IF x = old.seat_id THEN lease ELSE Fresh.bySeat[x]
  BY <1>1, <1>4, <1>5, LeaseFreshOK DEF Store, Table
<1> HIDE DEF old
<1> QED BY <1>1, <1>3, <1>6, FreshEntries DEF lease

\* release of an id: the lease of that id goes, and no other.
LEMMA ReleaseLeaseEntries ==
  ASSUME LeaseInv, NEW id \in issued, ReleaseLease(id), NEW s \in Seats
  PROVE  \/ leases'.bySeat[s] = leases.bySeat[s]
         \/ leases'.bySeat[s] = None /\ leases.bySeat[s] # None /\ leases.bySeat[s].lease_id = id
<1>1. id \in LeaseIds
  BY DEF LeaseInv, LeaseTypeOK
<1>2. leases'.bySeat[s] =
        IF leases.byId[id] # None /\ leases.byId[id].seat_id = s THEN None ELSE leases.bySeat[s]
  BY <1>1, ReleaseEntries DEF ReleaseLease, LeaseInv, LeaseTypeOK, TablesAgree
<1>3. leases.byId[id] # None =>
        leases.bySeat[leases.byId[id].seat_id] = leases.byId[id] /\ leases.byId[id].lease_id = id
  BY <1>1 DEF LeaseInv, TablesAgree, Consistent
<1> QED BY <1>2, <1>3

\* What may become of the running lease of a seat in one step.
Undisturbed(s) ==
  LET lease == leases.bySeat[s] IN
    \/ leases'.bySeat[s] = lease
    \/ \E ttl \in Ttls : leases'.bySeat[s] = [lease EXCEPT !.expires_at = clock + ttl]
    \/ leases' = Release(leases, lease.lease_id)

\* One step, seat by seat.
LEMMA StepNoTakeover ==
  ASSUME LeaseInv, LeaseNext, NEW s \in Seats, Running(s)
  PROVE  Undisturbed(s)
<1>1. CASE \E t \in Seats, owner \in Owners, ttl \in Ttls : Acquire(t, owner, ttl)
  <2>1. PICK t \in Seats, owner \in Owners, ttl \in Ttls : Acquire(t, owner, ttl)
    BY <1>1
  <2>2. PICK id \in LeaseIds \ issued : leases' = Store(Fresh, NewLease(t, owner, id, ttl))
    BY <2>1 DEF Acquire
  <2>3. t # s
    BY <2>1, FreshEntries, RunningById, NoneAssumption DEF Acquire
  <2>4. leases'.bySeat[s] = leases.bySeat[s]
    BY <2>2, <2>3, AcquireEntries
  <2> QED BY <2>4 DEF Undisturbed
<1>2. CASE \E id \in issued, ttl \in Ttls : RenewLease(id, ttl)
  <2>1. PICK id \in issued, ttl \in Ttls : RenewLease(id, ttl)
    BY <1>2
  <2>2. PICK t \in Seats :
           /\ leases'.bySeat[t] = [leases.bySeat[t] EXCEPT !.expires_at = clock + ttl]
           /\ \A x \in Seats \ {t} : leases'.bySeat[x] =
                IF Running(x) THEN leases.bySeat[x] ELSE None
    BY <2>1, RenewEntries
  <2>3. CASE t = s
    BY <2>2, <2>3 DEF Undisturbed
  <2>4. CASE t # s
    BY <2>2, <2>4 DEF Undisturbed
  <2> QED BY <2>3, <2>4
<1>3. CASE \E id \in issued : ReleaseLease(id)
  <2>1. PICK id \in issued : ReleaseLease(id)
    BY <1>3
  <2>2. CASE leases'.bySeat[s] = leases.bySeat[s]
    BY <2>2 DEF Undisturbed
  <2>3. CASE leases.bySeat[s].lease_id = id
    BY <2>1, <2>3 DEF Undisturbed, ReleaseLease
  <2> QED BY <2>1, <2>2, <2>3, ReleaseLeaseEntries
<1>4. CASE DropStale
  BY <1>4, FreshEntries DEF DropStale, Undisturbed
<1>5. CASE LeaseTick
  BY <1>5 DEF LeaseTick, Undisturbed
<1> QED BY <1>1, <1>2, <1>3, <1>4, <1>5 DEF LeaseNext

(***************************************************************************)
(* Nobody takes over a running lease, whatever times are asked for.        *)
(***************************************************************************)
THEOREM LeaseManagerNoTakeover == LeaseSpec => NoTakeover
<1>1. LeaseInv /\ [LeaseNext]_leaseVars => [\A s \in Seats : Running(s) => Undisturbed(s)]_leaseVars
  BY StepNoTakeover
<1>2. LeaseSpec => []LeaseInv
  BY LeaseInitInv, LeaseStepInv, PTL DEF LeaseSpec
<1> QED BY <1>1, <1>2, PTL DEF LeaseSpec, NoTakeover, Undisturbed

-----------------------------------------------------------------------------
\* A step that only takes running leases away is ExclusiveLease's End.
LEMMA EndStep ==
  ASSUME issued' = issued,
         \A s \in Seats : ActiveId'[s] \in {ActiveId[s], None}
  PROVE  Abstract!Next
<1> DEFINE S == {s \in Seats : ActiveId'[s] = None}
<1>1. ActiveId' = [s \in Seats |-> IF s \in S THEN None ELSE ActiveId[s]]
  BY DEF ActiveId
<1>2. Abstract!End(S)
  BY <1>1 DEF Abstract!End
<1>3. S \in SUBSET Seats
  OBVIOUS
<1> HIDE DEF S
<1> QED BY <1>2, <1>3 DEF Abstract!Next

\* acquire is ExclusiveLease's Grant, or its Spend.
LEMMA AcquireGrants ==
  ASSUME LeaseInv, NEW s \in Seats, NEW owner \in Owners, NEW ttl \in Ttls, Acquire(s, owner, ttl)
  PROVE  Abstract!Next
<1>1. PICK id \in LeaseIds \ issued :
        /\ leases' = Store(Fresh, NewLease(s, owner, id, ttl))
        /\ issued' = issued \cup {id}
  BY DEF Acquire, NewLease
<1>2. clock' = clock /\ clock \in Nat
  BY DEF Acquire, LeaseInv, LeaseTypeOK
<1>3. ~Running(s)
  BY FreshEntries, RunningById, NoneAssumption DEF Acquire
<1>4. \A x \in Seats : leases'.bySeat[x] =
        IF x = s THEN NewLease(s, owner, id, ttl)
        ELSE IF Running(x) THEN leases.bySeat[x] ELSE None
  BY <1>1, AcquireEntries
<1>5. NewLease(s, owner, id, ttl) # None /\ ttl \in Nat
  BY <1>1, <1>2, TtlsAssumption, NoneAssumption DEF NewLease, Lease
<1>6. \A x \in Seats \ {s} : ActiveId'[x] = ActiveId[x]
  BY <1>2, <1>4 DEF ActiveId, Running
<1>7. CASE ttl > 0
  <2>1. Running(s)' /\ leases'.bySeat[s].lease_id = id
    BY <1>2, <1>4, <1>5, <1>7 DEF Running, NewLease
  <2>2. ActiveId' = [ActiveId EXCEPT ![s] = id]
    BY <1>6, <2>1 DEF ActiveId
  <2>3. Abstract!Grant(s, id)
    BY <1>1, <1>3, <2>2 DEF Abstract!Grant, ActiveId
  <2> QED BY <1>1, <2>3 DEF Abstract!Next
<1>8. CASE ttl = 0
  <2>1. ~Running(s)'
    BY <1>2, <1>4, <1>8 DEF Running, NewLease
  <2>2. ActiveId' = ActiveId
    BY <1>3, <1>6, <2>1 DEF ActiveId
  <2>3. Abstract!Spend(id)
    BY <1>1, <2>2 DEF Abstract!Spend
  <2> QED BY <1>1, <2>3 DEF Abstract!Next
<1> QED BY <1>5, <1>7, <1>8

\* renew takes no running lease away but its own, at most.
LEMMA RenewEnds ==
  ASSUME LeaseInv, NEW id \in issued, NEW ttl \in Ttls, RenewLease(id, ttl)
  PROVE  Abstract!Next
<1>1. PICK t \in Seats :
        /\ Running(t) /\ leases.bySeat[t].lease_id = id
        /\ leases'.bySeat[t] = [leases.bySeat[t] EXCEPT !.expires_at = clock + ttl]
        /\ \A x \in Seats \ {t} : leases'.bySeat[x] =
             IF Running(x) THEN leases.bySeat[x] ELSE None
  BY RenewEntries
<1>2. clock' = clock /\ issued' = issued /\ clock \in Nat
  BY DEF RenewLease, LeaseInv, LeaseTypeOK
<1>3. leases.bySeat[t] \in Lease
  BY <1>1, RunningById
<1>4. leases'.bySeat[t].lease_id = leases.bySeat[t].lease_id
  BY <1>1, <1>3 DEF Lease
<1>5. ASSUME NEW x \in Seats
      PROVE  ActiveId'[x] = ActiveId[x] \/ ActiveId'[x] = None
  BY <1>1, <1>2, <1>4 DEF ActiveId, Running
<1> QED BY <1>2, <1>5, EndStep

(***************************************************************************)
(* The lease manager implements ExclusiveLease.                            *)
(***************************************************************************)
THEOREM LeaseManagerRefines == LeaseSpec => ImplementsExclusiveLease
<1>1. LeaseInit => Abstract!Init
  BY DEF LeaseInit, Abstract!Init, ActiveId, Running, EmptyTable
<1>2. LeaseInv /\ [LeaseNext]_leaseVars => [Abstract!Next]_(Abstract!vars)
  <2> SUFFICES ASSUME LeaseInv, [LeaseNext]_leaseVars
               PROVE  Abstract!Next \/ UNCHANGED Abstract!vars
    OBVIOUS
  <2>1. CASE \E s \in Seats, owner \in Owners, ttl \in Ttls : Acquire(s, owner, ttl)
    BY <2>1, AcquireGrants
  <2>2. CASE \E id \in issued, ttl \in Ttls : RenewLease(id, ttl)
    BY <2>2, RenewEnds
  <2>3. CASE \E id \in issued : ReleaseLease(id)
    <3>1. PICK id \in issued : ReleaseLease(id)
      BY <2>3
    <3>2. clock' = clock /\ issued' = issued
      BY <3>1 DEF ReleaseLease
    <3>3. \A x \in Seats : leases'.bySeat[x] = leases.bySeat[x] \/ leases'.bySeat[x] = None
      BY <3>1, ReleaseLeaseEntries
    <3>4. \A x \in Seats : ActiveId'[x] = ActiveId[x] \/ ActiveId'[x] = None
      BY <3>2, <3>3 DEF ActiveId, Running
    <3> QED BY <3>2, <3>4, EndStep
  <2>4. CASE DropStale
    <3>1. clock' = clock /\ issued' = issued /\ leases' = Fresh
      BY <2>4 DEF DropStale
    <3>2. \A x \in Seats : ActiveId'[x] = ActiveId[x] \/ ActiveId'[x] = None
      BY <3>1, FreshEntries DEF ActiveId, Running
    <3> QED BY <3>1, <3>2, EndStep
  <2>5. CASE LeaseTick
    <3>1. clock \in Nat /\ clock' = clock + 1 /\ issued' = issued /\ leases' = leases
      BY <2>5 DEF LeaseTick, LeaseInv, LeaseTypeOK
    <3>2. \A x \in Seats : Running(x)' => Running(x)
      BY <3>1, TableLookup, LeaseFields DEF Running, LeaseInv, LeaseTypeOK
    <3>3. \A x \in Seats : ActiveId'[x] = ActiveId[x] \/ ActiveId'[x] = None
      BY <3>1, <3>2 DEF ActiveId
    <3> QED BY <3>1, <3>3, EndStep
  <2>6. CASE UNCHANGED leaseVars
    BY <2>6 DEF leaseVars, Abstract!vars, ActiveId, Running
  <2> QED BY <2>1, <2>2, <2>3, <2>4, <2>5, <2>6 DEF LeaseNext
<1>3. LeaseSpec => []LeaseInv
  BY LeaseInitInv, LeaseStepInv, PTL DEF LeaseSpec
<1> QED BY <1>1, <1>2, <1>3, PTL DEF LeaseSpec, ImplementsExclusiveLease, Abstract!Spec
===============================================================================
