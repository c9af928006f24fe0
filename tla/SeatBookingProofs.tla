--------------------------- MODULE SeatBookingProofs ---------------------------
(***************************************************************************)
(* The seats and the lease table of the dashboard stay in step, for any    *)
(* seats, requesters, booking threads, TTL and number of attempts, and the *)
(* handlers implement ExclusiveLease.                                      *)
(***************************************************************************)
EXTENDS SeatBooking, LeaseManagerProofs

\* The lease that a locked seat describes.
LeaseOf(s) ==
  [lease_id |-> seats[s].lease_id, seat_id |-> s,
   owner |-> seats[s].owner, expires_at |-> seats[s].expires_at]

\* A locked seat is covered by the lease it describes, or orphaned: its lease
\* ran out and a call that does not look after the seats dropped it.
SeatInv(s) ==
  /\ seats[s].state # "locked" => leases.bySeat[s] = None
  /\ seats[s].state = "locked" =>
       /\ seats[s].lease_id \in issued
       /\ \/ leases.bySeat[s] = LeaseOf(s)
          \/ leases.bySeat[s] = None /\ seats[s].expires_at <= clock
       /\ leases.byId[seats[s].lease_id] # None =>
            leases.byId[seats[s].lease_id].seat_id = s

\* The seat that a booking found free stays free until it has its lease.
BookerInv(b) ==
  /\ pc[b] # "idle" => want[b] \in Request
  /\ pc[b] = "reserving" =>
       /\ appLock = b
       /\ want[b].seat \in Seats
       /\ seats[want[b].seat].state = "available"

TableInv == Consistent(leases) /\ IssuedOnly /\ (\A s \in Seats : SeatInv(s))

Inv == TypeOK /\ TableInv /\ (\A b \in Bookers : BookerInv(b))

-----------------------------------------------------------------------------
\* Dropping the stale leases leaves a typed, consistent table.
LEMMA FreshOK ==
  ASSUME TypeOK, TableInv
  PROVE  Fresh \in Table /\ Consistent(Fresh)
BY ExpireOK DEF TypeOK, LeaseTypeOK, TableInv, Fresh

\* What the table says of a seat once the stale leases are dropped.
LEMMA FreshBySeat ==
  ASSUME TypeOK, TableInv, NEW s \in Seats
  PROVE  Fresh.bySeat[s] =
           IF leases.bySeat[s] # None /\ leases.bySeat[s].expires_at <= clock
           THEN None ELSE leases.bySeat[s]
BY ExpireBySeat DEF TypeOK, LeaseTypeOK, TableInv, Fresh

\* What the table says of a lease id once the stale leases are dropped.
LEMMA FreshById ==
  ASSUME TypeOK, TableInv, NEW i \in LeaseIds, Fresh.byId[i] # None
  PROVE  Fresh.byId[i] = leases.byId[i]
BY ExpireById DEF TypeOK, LeaseTypeOK, TableInv, Fresh

\* expire_leases reports a seat exactly when it empties the seat's entry.
LEMMA ExpiredSeatsEntry ==
  ASSUME TypeOK, TableInv, NEW s \in Seats
  PROVE  ExpiredSeats[s] =
           IF /\ seats[s].state = "locked"
              /\ leases.bySeat[s] # None /\ leases.bySeat[s].expires_at <= clock
           THEN FreeSeat ELSE seats[s]
<1>1. (\E l \in Expired(leases, clock) : l.seat_id = s)
        <=> leases.bySeat[s] # None /\ leases.bySeat[s].expires_at <= clock
  BY DEF Expired, Consistent, TableInv
<1> QED BY <1>1 DEF ExpiredSeats

\* The free seat that cancel, expiry and reset write is a seat.
LEMMA FreeSeatTyped == FreeSeat \in Seat
BY DEF FreeSeat, Seat

\* A call that expires leases, whether it frees their seats or not, keeps the
\* table invariant.
LEMMA ExpiryKeepsTable ==
  ASSUME TypeOK, TableInv,
         leases' = Fresh, seats' = seats \/ seats' = ExpiredSeats,
         clock' = clock, issued' = issued
  PROVE  /\ leases' \in Table /\ seats' \in [Seats -> Seat]
         /\ TableInv'
         /\ \A s \in Seats : seats[s].state # "locked" => seats'[s] = seats[s]
<1>1. leases' \in Table /\ Consistent(leases')
  BY FreshOK
<1>2. seats' \in [Seats -> Seat]
  BY FreeSeatTyped DEF ExpiredSeats, TypeOK, LeaseTypeOK
<1>3. IssuedOnly'
  BY FreshById DEF IssuedOnly, TableInv
<1>4. ASSUME NEW s \in Seats
      PROVE  SeatInv(s)'
  <2>0. SeatInv(s)
    BY DEF TableInv
  <2>1. leases'.bySeat[s] =
          IF leases.bySeat[s] # None /\ leases.bySeat[s].expires_at <= clock
          THEN None ELSE leases.bySeat[s]
    BY FreshBySeat
  <2>2. CASE seats'[s] = seats[s]
    <3>1. seats[s].state # "locked" => leases'.bySeat[s] = None
      BY <2>0, <2>1 DEF SeatInv
    <3>2. ASSUME seats[s].state = "locked"
          PROVE  /\ seats[s].lease_id \in issued
                 /\ \/ leases'.bySeat[s] = LeaseOf(s)
                    \/ leases'.bySeat[s] = None /\ seats[s].expires_at <= clock
                 /\ leases'.byId[seats[s].lease_id] # None =>
                      leases'.byId[seats[s].lease_id].seat_id = s
      <4>1. seats[s].lease_id \in LeaseIds
        BY <2>0, <3>2 DEF SeatInv, TypeOK, LeaseTypeOK
      <4>2. leases.bySeat[s] = LeaseOf(s) => leases.bySeat[s].expires_at = seats[s].expires_at
        BY DEF LeaseOf
      <4> QED BY <2>0, <2>1, <3>2, <4>1, <4>2, FreshById DEF SeatInv
    <3> QED BY <2>2, <3>1, <3>2 DEF SeatInv, LeaseOf
  <2>3. CASE seats'[s] # seats[s]
    <3>1. /\ seats'[s] = FreeSeat
          /\ leases.bySeat[s] # None /\ leases.bySeat[s].expires_at <= clock
      BY <2>3, ExpiredSeatsEntry
    <3> QED BY <2>1, <3>1 DEF SeatInv, FreeSeat
  <2> QED BY <2>2, <2>3
<1>5. \A s \in Seats : seats[s].state # "locked" => seats'[s] = seats[s]
  BY ExpiredSeatsEntry
<1> QED BY <1>1, <1>2, <1>3, <1>4, <1>5 DEF TableInv

\* While no booking holds the lock across a step, none is past routing.
LEMMA NobodyReserving ==
  ASSUME Inv, appLock = None, NEW b \in Bookers
  PROVE  pc[b] # "reserving"
BY BookerAssumption DEF Inv, BookerInv

\* A handler that keeps the table invariant keeps the whole.
LEMMA HandlerKeeps ==
  ASSUME Inv, appLock = None, Handler,
         leases' \in Table, seats' \in [Seats -> Seat], TableInv'
  PROVE  Inv'
<1>1. UNCHANGED <<clock, issued, appLock, pc, attempt, want>>
  BY DEF Handler, bookVars
<1>2. TypeOK'
  BY <1>1 DEF Inv, TypeOK, LeaseTypeOK
<1>3. ASSUME NEW b \in Bookers PROVE BookerInv(b)'
  BY <1>1, NobodyReserving DEF Inv, BookerInv
<1> QED BY <1>2, <1>3 DEF Inv

-----------------------------------------------------------------------------
\* The initial state satisfies the invariant.
LEMMA InitInv == Init => Inv
<1> SUFFICES ASSUME Init PROVE Inv
  OBVIOUS
<1>1. TypeOK
  BY EmptyTableOK, FreeSeatTyped, AttemptsAssumption DEF Init, LeaseInit, TypeOK, LeaseTypeOK
<1>2. TableInv
  BY EmptyTableOK DEF Init, LeaseInit, TableInv, IssuedOnly, SeatInv, EmptyTable, FreeSeat
<1>3. \A b \in Bookers : BookerInv(b)
  BY DEF Init, LeaseInit, BookerInv
<1> QED BY <1>1, <1>2, <1>3 DEF Inv

\* The arrival of a booking request preserves the invariant.
LEMMA BookCallInv ==
  ASSUME Inv, NEW b \in Bookers, NEW request \in Request, BookCall(b, request)
  PROVE  Inv'
<1>1. TypeOK'
  BY AttemptsAssumption DEF Inv, TypeOK, LeaseTypeOK, BookCall
<1>2. TableInv'
  BY DEF Inv, BookCall, TableInv, IssuedOnly, SeatInv, LeaseOf
<1>3. ASSUME NEW c \in Bookers PROVE BookerInv(c)'
  BY DEF Inv, TypeOK, LeaseTypeOK, BookCall, BookerInv
<1> QED BY <1>1, <1>2, <1>3 DEF Inv

\* A refused booking, which expires leases first, preserves the invariant.
LEMMA BookRefusedInv ==
  ASSUME Inv, NEW b \in Bookers, BookRefused(b)
  PROVE  Inv'
<1>1. /\ leases' \in Table /\ seats' \in [Seats -> Seat] /\ TableInv'
  BY ExpiryKeepsTable DEF Inv, BookRefused, Enter
<1>2. TypeOK'
  BY <1>1, AttemptsAssumption DEF Inv, TypeOK, LeaseTypeOK, BookRefused, Enter, Return
<1>3. ASSUME NEW c \in Bookers PROVE BookerInv(c)'
  BY NobodyReserving DEF Inv, TypeOK, LeaseTypeOK, BookRefused, Enter, Return, BookerInv
<1> QED BY <1>1, <1>2, <1>3 DEF Inv

\* A booking that goes on with the lock held has found its seat free.
LEMMA BookRoutedInv ==
  ASSUME Inv, NEW b \in Bookers, BookRouted(b)
  PROVE  Inv'
<1>1. /\ leases' \in Table /\ seats' \in [Seats -> Seat] /\ TableInv'
  BY ExpiryKeepsTable DEF Inv, BookRouted, Enter
<1>2. TypeOK'
  BY <1>1 DEF Inv, TypeOK, LeaseTypeOK, BookRouted, Enter
<1>3. ASSUME NEW c \in Bookers PROVE BookerInv(c)'
  <2>1. CASE c = b
    BY <2>1 DEF Inv, TypeOK, LeaseTypeOK, BookRouted, Enter, IsFree, BookerInv
  <2>2. CASE c # b
    BY <2>2, NobodyReserving DEF Inv, TypeOK, LeaseTypeOK, BookRouted, Enter, BookerInv
  <2> QED BY <2>1, <2>2
<1> QED BY <1>1, <1>2, <1>3 DEF Inv

\* A failed attempt, retried or given up, preserves the invariant.
LEMMA BookTransientInv ==
  ASSUME Inv, NEW b \in Bookers, BookTransient(b)
  PROVE  Inv'
<1>1. TypeOK'
  <2>1. /\ pc' \in [Bookers -> {"idle", "waiting", "reserving"}]
        /\ want' \in [Bookers -> Request \cup {None}]
    BY DEF Inv, TypeOK, LeaseTypeOK, BookTransient, Return
  <2>2. attempt' \in [Bookers -> 0 .. (MaxAttempts - 1)]
    BY AttemptsAssumption DEF Inv, TypeOK, LeaseTypeOK, BookTransient, Return
  <2> QED BY <2>1, <2>2 DEF Inv, TypeOK, LeaseTypeOK, BookTransient
<1>2. TableInv'
  BY DEF Inv, BookTransient, TableInv, IssuedOnly, SeatInv, LeaseOf
<1>3. ASSUME NEW c \in Bookers PROVE BookerInv(c)'
  BY DEF Inv, TypeOK, LeaseTypeOK, BookTransient, Return, BookerInv
<1> QED BY <1>1, <1>2, <1>3 DEF Inv

\* A booking that gets its lease: the seat and the id are free in the table.
LEMMA BookLeasedInv ==
  ASSUME Inv, NEW b \in Bookers, BookLeased(b)
  PROVE  Inv'
<1> DEFINE s0 == want[b].seat
<1>0. /\ want[b] \in Request /\ s0 \in Seats /\ appLock = b
      /\ seats[s0].state = "available"
  BY DEF Inv, BookerInv, BookLeased
<1>1. PICK id \in LeaseIds \ issued :
        /\ leases' = Store(Fresh, NewLease(want[b].seat, want[b].owner, id, Ttl))
        /\ issued' = issued \cup {id}
        /\ seats' = [seats EXCEPT ![s0] = LockedSeat(want[b], id)]
  BY DEF BookLeased
<1>2. clock' = clock /\ clock \in Nat
  BY DEF BookLeased, Inv, TypeOK, LeaseTypeOK
<1> DEFINE lease == NewLease(want[b].seat, want[b].owner, id, Ttl)
<1>3. lease \in Lease /\ lease.seat_id = s0 /\ lease.lease_id = id
  BY <1>0, <1>1, <1>2, TtlAssumption, TtlsAssumption DEF NewLease, Lease, Request
<1>4. Fresh \in Table /\ Consistent(Fresh)
  BY FreshOK DEF Inv
<1>5. Fresh.byId[id] = None
  BY <1>1, FreshById DEF Inv, TableInv, IssuedOnly
<1>6. Fresh.bySeat[s0] = None
  BY DEF BookLeased
<1>7. leases' \in Table /\ Consistent(leases')
  <2> HIDE DEF lease
  <2> QED BY <1>1, <1>3, <1>4, <1>5, <1>6, StoreOK DEF lease
<1>8. /\ \A s \in Seats : leases'.bySeat[s] = IF s = s0 THEN lease ELSE Fresh.bySeat[s]
      /\ \A i \in LeaseIds : leases'.byId[i] = IF i = id THEN lease ELSE Fresh.byId[i]
  BY <1>0, <1>1, <1>3, <1>4 DEF Store, Table
<1>9. /\ LockedSeat(want[b], id) \in Seat
      /\ seats'[s0] = LockedSeat(want[b], id)
      /\ \A s \in Seats \ {s0} : seats'[s] = seats[s]
  BY <1>0, <1>1, <1>2, TtlAssumption, TtlsAssumption DEF LockedSeat, Seat, Request, Inv, TypeOK, LeaseTypeOK
<1>10. IssuedOnly'
  BY <1>1, <1>8, FreshById DEF IssuedOnly, Inv, TableInv
<1>11. ASSUME NEW s \in Seats PROVE SeatInv(s)'
  <2>1. CASE s = s0
    BY <1>1, <1>3, <1>8, <1>9, <2>1 DEF SeatInv, LeaseOf, LockedSeat, NewLease
  <2>2. CASE s # s0
    <3>0. SeatInv(s) /\ seats'[s] = seats[s] /\ leases'.bySeat[s] = Fresh.bySeat[s]
      BY <1>8, <1>9, <2>2 DEF Inv, TableInv
    <3>1. seats[s].state # "locked" => leases'.bySeat[s] = None
      BY <3>0, FreshBySeat DEF SeatInv, Inv
    <3>2. ASSUME seats[s].state = "locked"
          PROVE  /\ seats[s].lease_id \in issued'
                 /\ \/ leases'.bySeat[s] = LeaseOf(s)
                    \/ leases'.bySeat[s] = None /\ seats[s].expires_at <= clock
                 /\ leases'.byId[seats[s].lease_id] # None =>
                      leases'.byId[seats[s].lease_id].seat_id = s
      <4>1. seats[s].lease_id \in LeaseIds /\ seats[s].lease_id # id
        BY <1>1, <3>0, <3>2 DEF SeatInv, Inv, TypeOK, LeaseTypeOK
      <4>2. leases.bySeat[s] = LeaseOf(s) => leases.bySeat[s].expires_at = seats[s].expires_at
        BY DEF LeaseOf
      <4> QED BY <1>1, <1>8, <3>0, <3>2, <4>1, <4>2, FreshBySeat, FreshById DEF SeatInv, Inv
    <3> QED BY <1>2, <3>0, <3>1, <3>2 DEF SeatInv, LeaseOf
  <2> QED BY <2>1, <2>2
<1>12. TypeOK'
  <2>1. /\ pc' \in [Bookers -> {"idle", "waiting", "reserving"}]
        /\ want' \in [Bookers -> Request \cup {None}]
        /\ attempt' \in [Bookers -> 0 .. (MaxAttempts - 1)]
        /\ appLock' \in Bookers \cup {None}
    BY AttemptsAssumption DEF Inv, TypeOK, LeaseTypeOK, BookLeased, Return
  <2>2. seats' \in [Seats -> Seat] /\ issued' \subseteq LeaseIds
    BY <1>0, <1>1, <1>9 DEF Inv, TypeOK, LeaseTypeOK
  <2> QED BY <1>2, <1>7, <2>1, <2>2 DEF TypeOK, LeaseTypeOK
<1>13. ASSUME NEW c \in Bookers PROVE BookerInv(c)'
  <2>1. CASE c = b
    BY <2>1 DEF Inv, TypeOK, LeaseTypeOK, BookLeased, Return, BookerInv
  <2>2. CASE c # b
    <3>1. pc[c] # "reserving"
      BY <1>0, <2>2 DEF Inv, BookerInv
    <3> QED BY <2>2, <3>1 DEF Inv, TypeOK, LeaseTypeOK, BookLeased, Return, BookerInv
  <2> QED BY <2>1, <2>2
<1> QED BY <1>7, <1>10, <1>11, <1>12, <1>13 DEF Inv, TableInv

-----------------------------------------------------------------------------
\* A step that empties one seat's entry and id, after an expiry or not, and
\* unlocks that seat keeps the table invariant: confirm and cancel.
LEMMA UnlockKeepsTable ==
  ASSUME TypeOK, TableInv, NEW s0 \in Seats, seats[s0].state = "locked",
         NEW T \in Table, T = leases \/ T = Fresh,
         leases' = Release(T, seats[s0].lease_id),
         NEW r \in Seat, r.state # "locked", seats' = [seats EXCEPT ![s0] = r],
         clock' = clock, issued' = issued
  PROVE  leases' \in Table /\ seats' \in [Seats -> Seat] /\ TableInv'
<1> DEFINE id == seats[s0].lease_id
<1>1. id \in issued /\ id \in LeaseIds
  BY DEF TableInv, SeatInv, TypeOK, LeaseTypeOK
<1>2. Consistent(T)
  BY FreshOK DEF TableInv
<1>3. leases' \in Table /\ Consistent(leases')
  BY <1>1, <1>2, ReleaseOK
<1>4. seats' \in [Seats -> Seat] /\ seats'[s0] = r /\ \A s \in Seats \ {s0} : seats'[s] = seats[s]
  BY DEF TypeOK, LeaseTypeOK
<1>5. /\ \A s \in Seats : leases'.bySeat[s] =
           IF T.byId[id] # None /\ T.byId[id].seat_id = s THEN None ELSE T.bySeat[s]
      /\ \A i \in LeaseIds : leases'.byId[i] = IF i = id THEN None ELSE T.byId[i]
  BY <1>1, <1>2, ReleaseEntries
<1>6. /\ \A i \in LeaseIds : T.byId[i] # None => T.byId[i] = leases.byId[i]
      /\ \A s \in Seats :
           \/ T.bySeat[s] = leases.bySeat[s]
           \/ T.bySeat[s] = None /\ leases.bySeat[s] # None /\ leases.bySeat[s].expires_at <= clock
  BY FreshById, FreshBySeat
<1>7. IssuedOnly'
  BY <1>5, <1>6 DEF IssuedOnly, TableInv
<1>8. leases'.bySeat[s0] = None
  <2>1. SUFFICES ASSUME T.bySeat[s0] # None
                 PROVE  T.byId[id] # None /\ T.byId[id].seat_id = s0
    BY <1>5
  <2>2. T.bySeat[s0] = LeaseOf(s0)
    BY <1>6, <2>1 DEF TableInv, SeatInv
  <2>3. T.bySeat[s0].lease_id = id
    BY <2>2 DEF LeaseOf
  <2> QED BY <1>2, <2>1, <2>3 DEF Consistent
<1>9. ASSUME NEW s \in Seats, s # s0 PROVE SeatInv(s)'
  <2>0. SeatInv(s) /\ seats'[s] = seats[s]
    BY <1>4, <1>9 DEF TableInv
  <2>1. leases'.bySeat[s] = T.bySeat[s]
    <3>1. T.byId[id] # None => T.byId[id].seat_id = s0
      BY <1>1, <1>6 DEF TableInv, SeatInv
    <3> QED BY <1>5, <1>9, <3>1
  <2>2. leases.bySeat[s] = LeaseOf(s) => leases.bySeat[s].expires_at = seats[s].expires_at
    BY DEF LeaseOf
  <2>3. seats[s].state = "locked" => seats[s].lease_id \in LeaseIds
    BY <2>0 DEF SeatInv, TypeOK, LeaseTypeOK
  <2> QED BY <1>5, <1>6, <2>0, <2>1, <2>2, <2>3 DEF SeatInv, LeaseOf
<1>10. SeatInv(s0)'
  BY <1>4, <1>8 DEF SeatInv
<1> QED BY <1>3, <1>4, <1>7, <1>9, <1>10 DEF TableInv

\* confirm_seat preserves the invariant.
LEMMA ConfirmInv ==
  ASSUME Inv, NEW s \in Seats, Confirm(s)
  PROVE  Inv'
<1> DEFINE r == [seats[s] EXCEPT !.state = "reserved", !.lease_id = None, !.expires_at = 0]
<1>1. r \in Seat /\ r.state # "locked"
  BY DEF Inv, TypeOK, LeaseTypeOK, Seat
<1>2. /\ appLock = None /\ Handler /\ seats[s].state = "locked"
      /\ leases' = Release(Fresh, seats[s].lease_id)
      /\ seats' = [seats EXCEPT ![s] = r]
  BY DEF Confirm, Handler
<1>3. clock' = clock /\ issued' = issued
  BY <1>2 DEF Handler
<1>4. TypeOK /\ TableInv /\ Fresh \in Table
  BY FreshOK DEF Inv
<1> HIDE DEF r
<1>5. leases' \in Table /\ seats' \in [Seats -> Seat] /\ TableInv'
  BY <1>1, <1>2, <1>3, <1>4, UnlockKeepsTable
<1> QED BY <1>2, <1>5, HandlerKeeps

\* cancel_lock preserves the invariant, whether or not the lease was still there.
LEMMA CancelInv ==
  ASSUME Inv, NEW s \in Seats, Cancel(s)
  PROVE  Inv'
<1>1. FreeSeat \in Seat /\ FreeSeat.state # "locked"
  BY FreeSeatTyped DEF FreeSeat
<1>2. /\ appLock = None /\ Handler /\ seats[s].state = "locked"
      /\ leases' = Release(leases, seats[s].lease_id)
      /\ seats' = [seats EXCEPT ![s] = FreeSeat]
  BY DEF Cancel, Handler
<1>3. clock' = clock /\ issued' = issued
  BY <1>2 DEF Handler
<1>4. TypeOK /\ TableInv /\ leases \in Table
  BY DEF Inv, TypeOK, LeaseTypeOK
<1>5. leases' \in Table /\ seats' \in [Seats -> Seat] /\ TableInv'
  BY <1>1, <1>2, <1>3, <1>4, UnlockKeepsTable
<1> QED BY <1>2, <1>5, HandlerKeeps

\* renew_lease moves the end of the lease and of the countdown together.
LEMMA RenewInv ==
  ASSUME Inv, NEW s \in Seats, Renew(s)
  PROVE  Inv'
<1> DEFINE id == seats[s].lease_id
           old == Fresh.byId[id]
           lease == [old EXCEPT !.expires_at = clock + Ttl]
<1>0. /\ appLock = None /\ Handler /\ seats[s].state = "locked"
      /\ old # None /\ old.seat_id = s
      /\ leases' = Store(Fresh, lease)
      /\ seats' = [seats EXCEPT ![s].expires_at = clock + Ttl]
  BY DEF Renew, Handler, HoldsLease
<1>1. clock' = clock /\ issued' = issued /\ clock \in Nat
  BY <1>0 DEF Handler, Inv, TypeOK, LeaseTypeOK
<1>2. id \in issued /\ id \in LeaseIds
  BY <1>0 DEF Inv, TableInv, SeatInv, TypeOK, LeaseTypeOK
<1>3. Fresh \in Table /\ Consistent(Fresh)
  BY FreshOK DEF Inv
<1>4. old \in Lease /\ old.lease_id = id /\ Fresh.bySeat[s] = old
  BY <1>0, <1>2, <1>3, TableLookup DEF Consistent
<1>5. leases.bySeat[s] = old /\ old = LeaseOf(s)
  BY <1>0, <1>4, FreshBySeat DEF Inv, TableInv, SeatInv
<1>6. lease \in Lease /\ lease.lease_id = id /\ lease.seat_id = s
  BY <1>0, <1>1, <1>4, TtlAssumption, TtlsAssumption DEF Lease
<1>7. lease = [lease_id |-> id, seat_id |-> s, owner |-> seats[s].owner, expires_at |-> clock + Ttl]
  BY <1>5 DEF LeaseOf
<1> HIDE DEF lease
<1>8. leases' \in Table /\ Consistent(leases')
  BY <1>0, <1>3, <1>6, StoreOK
<1>9. /\ \A x \in Seats : leases'.bySeat[x] = IF x = s THEN lease ELSE Fresh.bySeat[x]
      /\ \A i \in LeaseIds : leases'.byId[i] = IF i = id THEN lease ELSE Fresh.byId[i]
  BY <1>0, <1>2, <1>3, <1>6 DEF Store, Table
<1>10. /\ seats' \in [Seats -> Seat]
       /\ seats'[s] = [seats[s] EXCEPT !.expires_at = clock + Ttl]
       /\ \A x \in Seats \ {s} : seats'[x] = seats[x]
  BY <1>0, <1>1, TtlAssumption, TtlsAssumption DEF Inv, TypeOK, LeaseTypeOK, Seat
<1>11. IssuedOnly'
  BY <1>1, <1>2, <1>9, FreshById DEF IssuedOnly, Inv, TableInv
<1>12. ASSUME NEW x \in Seats PROVE SeatInv(x)'
  <2>1. CASE x = s
    <3>1. /\ seats'[s].state = "locked" /\ seats'[s].lease_id = id
          /\ seats'[s].owner = seats[s].owner /\ seats'[s].expires_at = clock + Ttl
      BY <1>0, <1>10 DEF Inv, TypeOK, LeaseTypeOK, Seat
    <3> QED BY <1>1, <1>2, <1>6, <1>7, <1>9, <2>1, <3>1 DEF SeatInv, LeaseOf
  <2>2. CASE x # s
    <3>0. SeatInv(x) /\ seats'[x] = seats[x] /\ leases'.bySeat[x] = Fresh.bySeat[x]
      BY <1>9, <1>10, <2>2 DEF Inv, TableInv
    <3>1. leases.bySeat[x] = LeaseOf(x) => leases.bySeat[x].expires_at = seats[x].expires_at
      BY DEF LeaseOf
    <3>2. CASE seats[x].state = "locked"
      <4>1. seats[x].lease_id \in LeaseIds
        BY <3>0, <3>2 DEF SeatInv, Inv, TypeOK, LeaseTypeOK
      <4>2. seats[x].lease_id # id
        <5>1. leases.byId[id] # None /\ leases.byId[id].seat_id = s
          BY <1>0, <1>2, FreshById DEF Inv
        <5> QED BY <2>2, <3>0, <3>2, <5>1 DEF SeatInv
      <4> QED BY <1>1, <1>9, <3>0, <3>1, <3>2, <4>1, <4>2, FreshBySeat, FreshById
              DEF SeatInv, LeaseOf, Inv
    <3>3. CASE seats[x].state # "locked"
      BY <3>0, <3>3, FreshBySeat DEF SeatInv, Inv
    <3> QED BY <3>2, <3>3
  <2> QED BY <2>1, <2>2
<1> QED BY <1>0, <1>8, <1>10, <1>11, <1>12, HandlerKeeps DEF TableInv

\* snapshot and the failing confirm and renew preserve the invariant.
LEMMA ExpiringHandlersInv ==
  ASSUME Inv, Snapshot \/ \E s \in Seats : LeaseExpired(s)
  PROVE  Inv'
<1>1. /\ appLock = None /\ Handler /\ clock' = clock /\ issued' = issued
      /\ leases' = Fresh /\ (seats' = seats \/ seats' = ExpiredSeats)
  BY DEF Snapshot, LeaseExpired, Handler
<1>2. leases' \in Table /\ seats' \in [Seats -> Seat] /\ TableInv'
  BY <1>1, ExpiryKeepsTable DEF Inv
<1> QED BY <1>1, <1>2, HandlerKeeps

\* reset preserves the invariant.
LEMMA ResetInv ==
  ASSUME Inv, Reset
  PROVE  Inv'
<1>1. appLock = None /\ Handler /\ leases' = EmptyTable /\ seats' = [s \in Seats |-> FreeSeat]
  BY DEF Reset, Handler
<1>2. leases' \in Table /\ Consistent(leases') /\ seats' \in [Seats -> Seat]
  BY <1>1, EmptyTableOK, FreeSeatTyped
<1>3. TableInv'
  BY <1>1, <1>2 DEF TableInv, IssuedOnly, SeatInv, EmptyTable, FreeSeat
<1> QED BY <1>1, <1>2, <1>3, HandlerKeeps

\* Time only turns a covered seat's countdown into an ended one.
LEMMA TickInv ==
  ASSUME Inv, Tick
  PROVE  Inv'
<1>1. TypeOK'
  BY DEF Inv, TypeOK, LeaseTypeOK, Tick, LeaseTick, bookVars
<1>2. ASSUME NEW s \in Seats PROVE SeatInv(s)'
  <2>1. SeatInv(s) /\ seats[s].expires_at \in Nat /\ clock \in Nat /\ clock' = clock + 1
    BY DEF Inv, TableInv, TypeOK, LeaseTypeOK, Seat, Tick, LeaseTick
  <2> QED BY <2>1 DEF SeatInv, LeaseOf, Tick, LeaseTick
<1>3. ASSUME NEW b \in Bookers PROVE BookerInv(b)'
  BY DEF Inv, BookerInv, Tick, LeaseTick, bookVars
<1> QED BY <1>1, <1>2, <1>3 DEF Inv, TableInv, IssuedOnly, Tick, LeaseTick

\* Every step preserves the invariant.
LEMMA StepInv == Inv /\ [Next]_vars => Inv'
<1> SUFFICES ASSUME Inv, [Next]_vars PROVE Inv'
  OBVIOUS
<1>1. CASE \E b \in Bookers : Booking(b)
  BY <1>1, BookCallInv, BookRefusedInv, BookRoutedInv, BookTransientInv, BookLeasedInv
     DEF Booking
<1>2. CASE \E s \in Seats : SeatRequest(s)
  BY <1>2, ConfirmInv, CancelInv, RenewInv, ExpiringHandlersInv DEF SeatRequest
<1>3. CASE Snapshot
  BY <1>3, ExpiringHandlersInv
<1>4. CASE Reset
  BY <1>4, ResetInv
<1>5. CASE Tick
  BY <1>5, TickInv
<1>6. CASE UNCHANGED vars
  <2>1. ASSUME NEW b \in Bookers PROVE BookerInv(b)'
    BY <1>6 DEF vars, leaseVars, Inv, BookerInv
  <2> QED BY <1>6, <2>1 DEF vars, leaseVars, Inv, TypeOK, LeaseTypeOK, TableInv, IssuedOnly, SeatInv, LeaseOf
<1> QED BY <1>1, <1>2, <1>3, <1>4, <1>5, <1>6 DEF Next

\* The invariant holds of every reachable state.
LEMMA Invariance == Spec => []Inv
BY InitInv, StepInv, PTL DEF Spec

-----------------------------------------------------------------------------
(***************************************************************************)
(* No lease outlives its lock.                                             *)
(***************************************************************************)
THEOREM LeaseEndsWithLock == Spec => []NoLeftoverLease
<1>1. Inv => NoLeftoverLease
  BY DEF Inv, TableInv, SeatInv, NoLeftoverLease
<1> QED BY <1>1, Invariance, PTL

(***************************************************************************)
(* Behind every running countdown stands the very lease it counts down.    *)
(***************************************************************************)
THEOREM CountdownBacked == Spec => []CountdownIsBacked
<1>1. Inv => CountdownIsBacked
  <2> SUFFICES ASSUME Inv, NEW s \in Seats,
                      seats[s].state = "locked", seats[s].expires_at > clock
               PROVE  leases.bySeat[s] = LeaseOf(s)
    BY DEF CountdownIsBacked, LeaseOf
  <2>1. seats[s].expires_at \in Nat /\ clock \in Nat
    BY DEF Inv, TypeOK, LeaseTypeOK, Seat
  <2> QED BY <2>1 DEF Inv, TableInv, SeatInv
<1> QED BY <1>1, Invariance, PTL

(***************************************************************************)
(* An orphaned lock never names another requester's lease.                 *)
(***************************************************************************)
THEOREM NoForeignLease == Spec => []IdIsOwn
<1>1. Inv => IdIsOwn
  <2> SUFFICES ASSUME Inv, NEW s \in Seats, NEW t \in Seats, s # t,
                      seats[s].state = "locked", leases.bySeat[t] # None,
                      leases.bySeat[t].lease_id = seats[s].lease_id
               PROVE  FALSE
    BY DEF IdIsOwn
  <2>1. leases.byId[seats[s].lease_id] = leases.bySeat[t] /\ leases.bySeat[t].seat_id = t
    BY DEF Inv, TableInv, Consistent
  <2> QED BY <2>1 DEF Inv, TableInv, SeatInv
<1> QED BY <1>1, Invariance, PTL

(***************************************************************************)
(* A booking past routing finds the seat still free: acquire never raises  *)
(* LeaseConflictError in _reserve_on_server.                               *)
(***************************************************************************)
THEOREM NoConflict == Spec => []ReserveNeverConflicts
<1>1. Inv => ReserveNeverConflicts
  <2> SUFFICES ASSUME Inv, NEW b \in Bookers, pc[b] = "reserving"
               PROVE  /\ appLock = b
                      /\ seats[want[b].seat].state = "available"
                      /\ Fresh.bySeat[want[b].seat] = None
    BY DEF ReserveNeverConflicts
  <2>1. /\ appLock = b /\ want[b].seat \in Seats
        /\ seats[want[b].seat].state = "available"
    BY DEF Inv, BookerInv
  <2>2. leases.bySeat[want[b].seat] = None
    BY <2>1 DEF Inv, TableInv, SeatInv
  <2> QED BY <2>1, <2>2, FreshBySeat DEF Inv
<1> QED BY <1>1, Invariance, PTL

-----------------------------------------------------------------------------
\* What a step can make of one seat.
SeatStep(s) ==
  \/ seats'[s] = seats[s]
  \/ seats'[s] = FreeSeat /\ (seats[s].state = "locked" \/ \A t \in Seats : seats'[t] = FreeSeat)
  \/ seats[s].state = "available" /\ seats'[s].state = "locked"
  \/ seats[s].state = "locked" /\ seats'[s].state = "locked" /\ seats'[s].owner = seats[s].owner
  \/ Confirm(s) /\ seats'[s].owner = seats[s].owner

\* Every step is one of those to every seat.
LEMMA StepOfSeat ==
  ASSUME Inv, [Next]_vars, NEW s \in Seats
  PROVE  SeatStep(s)
<1>1. ExpiredSeats[s] = seats[s] \/ (ExpiredSeats[s] = FreeSeat /\ seats[s].state = "locked")
  BY ExpiredSeatsEntry DEF Inv
<1>2. seats \in [Seats -> Seat]
  BY DEF Inv, TypeOK, LeaseTypeOK
<1>3. ASSUME NEW b \in Bookers, Booking(b) PROVE SeatStep(s)
  <2>1. CASE (\E request \in Request : BookCall(b, request)) \/ BookTransient(b)
    BY <2>1 DEF BookCall, BookTransient, SeatStep
  <2>2. CASE BookRefused(b) \/ BookRouted(b)
    BY <1>1, <2>2 DEF BookRefused, BookRouted, Enter, SeatStep
  <2>3. CASE BookLeased(b)
    <3>1. want[b].seat \in Seats /\ seats[want[b].seat].state = "available"
      BY <2>3 DEF BookLeased, Inv, BookerInv
    <3>2. PICK id \in LeaseIds : seats' = [seats EXCEPT ![want[b].seat] = LockedSeat(want[b], id)]
      BY <2>3 DEF BookLeased
    <3>3. LockedSeat(want[b], id).state = "locked"
      BY DEF LockedSeat
    <3> QED BY <1>2, <3>1, <3>2, <3>3 DEF SeatStep
  <2> QED BY <1>3, <2>1, <2>2, <2>3 DEF Booking
<1>4. ASSUME NEW t \in Seats, SeatRequest(t) PROVE SeatStep(s)
  <2>1. CASE Confirm(t)
    BY <1>2, <2>1 DEF Confirm, SeatStep, Seat
  <2>2. CASE Cancel(t)
    BY <1>2, <2>2 DEF Cancel, SeatStep
  <2>3. CASE Renew(t)
    BY <1>2, <2>3 DEF Renew, SeatStep, Seat
  <2>4. CASE LeaseExpired(t)
    BY <2>4 DEF LeaseExpired, SeatStep
  <2> QED BY <1>4, <2>1, <2>2, <2>3, <2>4 DEF SeatRequest
<1>5. CASE Snapshot
  BY <1>1, <1>5 DEF Snapshot, SeatStep
<1>6. CASE Reset
  BY <1>6 DEF Reset, SeatStep
<1>7. CASE Tick \/ UNCHANGED vars
  BY <1>7 DEF Tick, LeaseTick, vars, leaseVars, SeatStep
<1> QED BY <1>3, <1>4, <1>5, <1>6, <1>7 DEF Next

(***************************************************************************)
(* A sale rests on a running lease of the buyer: confirm_seat's validate   *)
(* leaves no other way.                                                    *)
(***************************************************************************)
THEOREM SaleUnderLease == Spec => SoldUnderLease
<1>1. ASSUME Inv, [Next]_vars, NEW s \in Seats,
             seats[s].state # "reserved", seats'[s].state = "reserved"
      PROVE  /\ seats[s].state = "locked" /\ Running(s)
             /\ leases.bySeat[s].owner = seats'[s].owner
  <2>1. Confirm(s) /\ seats'[s].owner = seats[s].owner
    BY <1>1, StepOfSeat DEF SeatStep, FreeSeat
  <2>2. seats[s].state = "locked" /\ Fresh.byId[seats[s].lease_id] # None
        /\ Fresh.byId[seats[s].lease_id].seat_id = s
    BY <2>1 DEF Confirm, HoldsLease
  <2>3. seats[s].lease_id \in LeaseIds /\ SeatInv(s)
    BY <1>1, <2>2 DEF Inv, TableInv, SeatInv, TypeOK, LeaseTypeOK
  <2>4. Fresh.bySeat[s] = Fresh.byId[seats[s].lease_id]
    BY <1>1, <2>2, <2>3, FreshOK DEF Inv, Consistent
  <2>5. leases.bySeat[s] = Fresh.bySeat[s] /\ ~(leases.bySeat[s].expires_at <= clock)
    BY <1>1, <2>2, <2>4, FreshBySeat DEF Inv
  <2>6. leases.bySeat[s] = LeaseOf(s)
    BY <2>2, <2>3, <2>4, <2>5 DEF SeatInv
  <2>7. leases.bySeat[s].expires_at \in Nat /\ clock \in Nat
    BY <1>1, <2>6 DEF Inv, TypeOK, LeaseTypeOK, LeaseOf, Seat
  <2>8. Running(s)
    BY <2>2, <2>4, <2>5, <2>7 DEF Running
  <2>9. leases.bySeat[s].owner = seats'[s].owner
    BY <2>1, <2>6 DEF LeaseOf
  <2> QED BY <2>2, <2>8, <2>9
<1>2. Inv /\ [Next]_vars =>
        [\A s \in Seats : seats[s].state # "reserved" /\ seats'[s].state = "reserved" =>
           /\ seats[s].state = "locked"
           /\ Running(s)
           /\ leases.bySeat[s].owner = seats'[s].owner]_vars
  BY <1>1
<1> QED BY <1>2, Invariance, PTL DEF Spec, SoldUnderLease

\* A seat that nobody holds has no owner.
Ownerless == \A s \in Seats : seats[s].state = "available" => seats[s].owner = None

\* No step leaves an owner behind in an available seat.
LEMMA StepOwnerless ==
  ASSUME Inv, Ownerless, [Next]_vars
  PROVE  Ownerless'
<1> SUFFICES ASSUME NEW s \in Seats, seats'[s].state = "available"
             PROVE  seats'[s].owner = None
  BY DEF Ownerless
<1>1. Confirm(s) => seats'[s].state = "reserved"
  BY DEF Confirm, Inv, TypeOK, LeaseTypeOK, Seat
<1> QED BY <1>1, StepOfSeat DEF SeatStep, FreeSeat, Ownerless

(***************************************************************************)
(* Nobody's seat passes to somebody else without becoming free first, and  *)
(* a sale is undone by reset only.                                         *)
(***************************************************************************)
THEOREM NoOverwrittenOwner == Spec => OwnerKept
<1>1. Init => Ownerless
  BY DEF Init, LeaseInit, Ownerless, FreeSeat
<1>2. ASSUME Inv, Ownerless, [Next]_vars, NEW s \in Seats, seats[s].owner # None
      PROVE  \/ seats'[s].owner = seats[s].owner
             \/ /\ seats'[s] = FreeSeat
                /\ seats[s].state = "reserved" => \A t \in Seats : seats'[t] = FreeSeat
  BY <1>2, StepOfSeat DEF SeatStep, Ownerless
<1>3. Inv /\ Ownerless /\ [Next]_vars =>
        [\A s \in Seats : seats[s].owner # None =>
           \/ seats'[s].owner = seats[s].owner
           \/ /\ seats'[s] = FreeSeat
              /\ seats[s].state = "reserved" => \A t \in Seats : seats'[t] = FreeSeat]_vars
  BY <1>2
<1> QED BY <1>1, <1>3, Invariance, StepOwnerless, PTL DEF Spec, OwnerKept

-----------------------------------------------------------------------------
\* Entries that stay or are dropped, at one moment, are such a step.
LEMMA DropStep ==
  ASSUME clock' = clock, issued' = issued,
         \A s \in Seats : leases'.bySeat[s] \in {leases.bySeat[s], None}
  PROVE  Abstract!Next
<1>1. \A s \in Seats : ActiveId'[s] \in {ActiveId[s], None}
  BY DEF ActiveId, Running
<1> QED BY <1>1, EndStep

\* The lease of a booking is granted on a seat that no lease covers.
LEMMA LeaseGrants ==
  ASSUME Inv, NEW b \in Bookers, BookLeased(b)
  PROVE  Abstract!Next
<1>0. want[b] \in Request /\ want[b].seat \in Seats
  BY DEF Inv, BookerInv, BookLeased
<1>1. PICK s0 \in Seats : s0 = want[b].seat
  BY <1>0
<1>2. PICK id \in LeaseIds \ issued :
        leases' = Store(Fresh, NewLease(want[b].seat, want[b].owner, id, Ttl)) /\ issued' = issued \cup {id}
  BY DEF BookLeased
<1>3. clock' = clock /\ clock \in Nat
  BY DEF BookLeased, Inv, TypeOK, LeaseTypeOK
<1> DEFINE lease == NewLease(want[b].seat, want[b].owner, id, Ttl)
<1>4. /\ lease \in Lease /\ lease.seat_id = s0
      /\ lease.lease_id = id /\ lease.expires_at > clock
  BY <1>0, <1>1, <1>2, <1>3, TtlAssumption, TtlsAssumption DEF NewLease, Lease, Request
<1>5. \A x \in Seats : leases'.bySeat[x] = IF x = s0 THEN lease ELSE Fresh.bySeat[x]
  BY <1>1, <1>2, <1>4, FreshOK DEF Store, Table, Inv
<1>6. Fresh.bySeat[s0] = None
  BY <1>1 DEF BookLeased
<1>7. ~Running(s0)
  BY <1>1, <1>3, <1>6, FreshBySeat, TableLookup, LeaseFields DEF Running, Inv, TypeOK, LeaseTypeOK
<1> HIDE DEF lease
<1>8. Running(s0)' /\ leases'.bySeat[s0].lease_id = id
  BY <1>1, <1>3, <1>4, <1>5, NoneAssumption DEF Running
<1>9. \A x \in Seats \ {s0} : ActiveId'[x] = ActiveId[x]
  <2> TAKE x \in Seats \ {s0}
  <2>1. leases'.bySeat[x] = IF leases.bySeat[x] # None /\ leases.bySeat[x].expires_at <= clock
                            THEN None ELSE leases.bySeat[x]
    BY <1>5, FreshBySeat DEF Inv
  <2>2. leases.bySeat[x] # None => leases.bySeat[x].expires_at \in Nat
    BY TableLookup, LeaseFields DEF Inv, TypeOK, LeaseTypeOK
  <2> QED BY <1>3, <2>1, <2>2 DEF ActiveId, Running
<1>10. ActiveId' = [ActiveId EXCEPT ![s0] = id]
  BY <1>1, <1>8, <1>9 DEF ActiveId
<1>11. Abstract!Grant(s0, id)
  BY <1>1, <1>2, <1>7, <1>10 DEF Abstract!Grant, ActiveId
<1> QED BY <1>1, <1>2, <1>11 DEF Abstract!Next

\* A renewed lease keeps its id, and it was running.
LEMMA RenewalStutters ==
  ASSUME Inv, NEW s \in Seats, Renew(s)
  PROVE  Abstract!Next
<1> DEFINE lease == Fresh.byId[seats[s].lease_id]
           longer == [lease EXCEPT !.expires_at = clock + Ttl]
<1>1. /\ seats[s].state = "locked" /\ lease # None /\ lease.seat_id = s
      /\ leases' = Store(Fresh, longer)
  BY DEF Renew, HoldsLease
<1>2. clock' = clock /\ issued' = issued /\ clock \in Nat
  BY DEF Renew, Handler, Inv, TypeOK, LeaseTypeOK
<1>3. seats[s].lease_id \in LeaseIds
  BY <1>1 DEF Inv, TableInv, SeatInv, TypeOK, LeaseTypeOK
<1>4. lease \in Lease /\ lease = Fresh.bySeat[s]
  BY <1>1, <1>3, FreshOK, TableLookup DEF Inv, Consistent
<1>5. longer.seat_id = s /\ longer.lease_id = lease.lease_id
  BY <1>1, <1>4 DEF Lease
<1>6. \A x \in Seats : leases'.bySeat[x] = IF x = s THEN longer ELSE Fresh.bySeat[x]
  <2> HIDE DEF longer
  <2> QED BY <1>1, <1>5, FreshOK DEF Store, Table, Inv
<1>7. leases.bySeat[s] = lease /\ Running(s)
  BY <1>1, <1>2, <1>4, FreshBySeat, LeaseFields DEF Running, Inv
<1> HIDE DEF lease, longer
<1>8. ASSUME NEW x \in Seats PROVE ActiveId'[x] \in {ActiveId[x], None}
  <2>1. CASE x = s
    BY <1>5, <1>6, <1>7, <2>1 DEF ActiveId
  <2>2. CASE x # s
    <3>1. leases'.bySeat[x] \in {leases.bySeat[x], None}
      BY <1>6, <2>2, FreshBySeat DEF Inv
    <3> QED BY <1>2, <3>1 DEF ActiveId, Running
  <2> QED BY <2>1, <2>2
<1> QED BY <1>2, <1>8, EndStep

\* What the requests other than a booking do to the leases.
LEMMA RequestSteps ==
  ASSUME Inv, NEW s \in Seats, SeatRequest(s)
  PROVE  Abstract!Next
<1>1. ASSUME ~Renew(s) PROVE clock' = clock /\ issued' = issued
  BY <1>1 DEF SeatRequest, Confirm, Cancel, LeaseExpired, Handler
<1>2. \A x \in Seats : Fresh.bySeat[x] \in {leases.bySeat[x], None}
  BY FreshBySeat DEF Inv
<1>3. seats[s].state = "locked" => seats[s].lease_id \in LeaseIds
  BY DEF Inv, TableInv, SeatInv, TypeOK, LeaseTypeOK
<1>4. CASE Confirm(s)
  <2>1. seats[s].lease_id \in LeaseIds /\ leases' = Release(Fresh, seats[s].lease_id)
    BY <1>3, <1>4 DEF Confirm
  <2>2. \A x \in Seats : leases'.bySeat[x] \in {Fresh.bySeat[x], None}
    BY <2>1, FreshOK, ReleaseEntries DEF Inv
  <2>3. clock' = clock /\ issued' = issued
    BY <1>4 DEF Confirm, Handler
  <2> QED BY <1>2, <2>2, <2>3, DropStep
<1>5. CASE Cancel(s)
  <2>1. seats[s].lease_id \in LeaseIds /\ leases' = Release(leases, seats[s].lease_id)
    BY <1>3, <1>5 DEF Cancel
  <2>2. \A x \in Seats : leases'.bySeat[x] \in {leases.bySeat[x], None}
    BY <2>1, ReleaseEntries DEF Inv, TypeOK, LeaseTypeOK, TableInv
  <2>3. clock' = clock /\ issued' = issued
    BY <1>5 DEF Cancel, Handler
  <2> QED BY <2>2, <2>3, DropStep
<1>6. CASE LeaseExpired(s)
  BY <1>2, <1>6, DropStep DEF LeaseExpired, Handler
<1> QED BY <1>4, <1>5, <1>6, RenewalStutters DEF SeatRequest

(***************************************************************************)
(* The seat handlers implement ExclusiveLease: through bookings, sales,    *)
(* cancellations, renewals, expiry and resets a seat is covered by one     *)
(* lease at most, and no lease comes back once it has ended.               *)
(***************************************************************************)
THEOREM SeatBookingRefines == Spec => ImplementsExclusiveLease
<1>1. Init => Abstract!Init
  BY DEF Init, LeaseInit, Abstract!Init, ActiveId, Running, EmptyTable
<1>2. Inv /\ [Next]_vars => [Abstract!Next]_(Abstract!vars)
  <2> SUFFICES ASSUME Inv, [Next]_vars
               PROVE  Abstract!Next \/ UNCHANGED Abstract!vars
    OBVIOUS
  <2>0. \A x \in Seats : Fresh.bySeat[x] \in {leases.bySeat[x], None}
    BY FreshBySeat DEF Inv
  <2>1. ASSUME NEW b \in Bookers, Booking(b)
        PROVE  Abstract!Next \/ UNCHANGED Abstract!vars
    <3>1. CASE BookLeased(b)
      BY <3>1, LeaseGrants
    <3>2. CASE BookRefused(b) \/ BookRouted(b)
      BY <2>0, <3>2, DropStep DEF BookRefused, BookRouted, Enter
    <3>3. CASE (\E request \in Request : BookCall(b, request)) \/ BookTransient(b)
      BY <3>3 DEF BookCall, BookTransient, Abstract!vars, ActiveId, Running
    <3> QED BY <2>1, <3>1, <3>2, <3>3 DEF Booking
  <2>2. CASE \E s \in Seats : SeatRequest(s)
    BY <2>2, RequestSteps
  <2>3. CASE Snapshot
    BY <2>0, <2>3, DropStep DEF Snapshot, Handler
  <2>4. CASE Reset
    BY <2>4, DropStep DEF Reset, Handler, EmptyTable
  <2>5. CASE Tick
    <3>1. clock \in Nat /\ clock' = clock + 1 /\ issued' = issued /\ leases' = leases
      BY <2>5 DEF Tick, LeaseTick, Inv, TypeOK, LeaseTypeOK
    <3>2. \A x \in Seats : Running(x)' => Running(x)
      BY <3>1, TableLookup, LeaseFields DEF Running, Inv, TypeOK, LeaseTypeOK
    <3>3. \A x \in Seats : ActiveId'[x] \in {ActiveId[x], None}
      BY <3>1, <3>2 DEF ActiveId
    <3> QED BY <3>1, <3>3, EndStep
  <2>6. CASE UNCHANGED vars
    BY <2>6 DEF vars, leaseVars, Abstract!vars, ActiveId, Running
  <2> QED BY <2>1, <2>2, <2>3, <2>4, <2>5, <2>6 DEF Next
<1> QED BY <1>1, <1>2, Invariance, PTL DEF Spec, ImplementsExclusiveLease, Abstract!Spec
===============================================================================
