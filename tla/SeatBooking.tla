----------------------------- MODULE SeatBooking -----------------------------
(***************************************************************************)
(* The seats of the dashboard and the handlers that lock, confirm, cancel, *)
(* renew, expire and reset them (src/dashboard.py), on top of the state of *)
(* the lease manager (src/locking/lease_manager.py, LeaseManager).         *)
(*                                                                         *)
(* Each web request runs on a thread of its own and every handler holds    *)
(* the application's RLock, so a handler is one action; a booking is not:  *)
(* it drops the lock to sleep between attempts, and it reads the clock     *)
(* twice, once to expire leases and once, after routing, to acquire one.   *)
(* Time may pass in between, so an attempt is two actions with the lock    *)
(* held from the first to the second.  The effects on the primary's store  *)
(* are in TicketSystem.                                                    *)
(***************************************************************************)
EXTENDS LeaseManager

CONSTANTS
  Bookers,      \* the threads that run book_with_retry
  Ttl,          \* the time the dashboard leases a seat for: the manager's default
  RequestIds,   \* the seat ids a request may name, unknown ones included
  MaxAttempts   \* the retry manager's max_attempts

ASSUME TtlAssumption == Ttl \in Ttls \ {0}
ASSUME RequestAssumption == Seats \subseteq RequestIds
ASSUME AttemptsAssumption == MaxAttempts \in Nat \ {0}
ASSUME BookerAssumption == None \notin Bookers
ASSUME IdAssumption == None \notin LeaseIds
ASSUME OwnerAssumption == None \notin Owners

VARIABLES
  seats,     \* self.seats
  appLock,   \* the booking that holds self.lock across a step, or None
  pc,        \* where each booking thread stands
  attempt,   \* the failed attempts of its RetryManager.call
  want       \* the seat and the requester of its call

bookVars == <<pc, attempt, want>>
vars == <<leaseVars, seats, appLock, pc, attempt, want>>

Seat == [state: {"available", "locked", "reserved"}, owner: Owners \cup {None},
         lease_id: LeaseIds \cup {None}, expires_at: Nat]

Request == [seat: RequestIds, owner: Owners]

\* What cancel, expiry and reset write into a seat.
FreeSeat == [state |-> "available", owner |-> None, lease_id |-> None, expires_at |-> 0]

TypeOK ==
  /\ LeaseTypeOK
  /\ seats \in [Seats -> Seat]
  /\ appLock \in Bookers \cup {None}
  /\ pc \in [Bookers -> {"idle", "waiting", "reserving"}]
  /\ attempt \in [Bookers -> 0 .. (MaxAttempts - 1)]
  /\ want \in [Bookers -> Request \cup {None}]

Init ==
  /\ LeaseInit
  /\ seats = [s \in Seats |-> FreeSeat]
  /\ appLock = None
  /\ pc = [b \in Bookers |-> "idle"]
  /\ attempt = [b \in Bookers |-> 0]
  /\ want = [b \in Bookers |-> None]

-----------------------------------------------------------------------------
\* The seats after _expire_leases_locked: it frees the locked ones among the
\* leases that this very call removed.
ExpiredSeats ==
  [s \in Seats |->
     IF seats[s].state = "locked" /\ \E l \in Expired(leases, clock) : l.seat_id = s
     THEN FreeSeat ELSE seats[s]]

\* A booking request arrives; the retry manager starts its first attempt.
BookCall(b, request) ==
  /\ pc[b] = "idle"
  /\ pc' = [pc EXCEPT ![b] = "waiting"]
  /\ attempt' = [attempt EXCEPT ![b] = 0]
  /\ want' = [want EXCEPT ![b] = request]
  /\ UNCHANGED <<clock, leases, issued, seats, appLock>>

\* The thread gets the lock and _book_locked expires the stale leases.
Enter(b) ==
  /\ pc[b] = "waiting" /\ appLock = None
  /\ leases' = Fresh
  /\ seats' = ExpiredSeats
  /\ UNCHANGED <<clock, issued>>

MutIsFree(s) == s \in Seats /\ ExpiredSeats[s].state # "reserved"

IsFree(s) == s \in Seats /\ ExpiredSeats[s].state = "available"

\* The call ends, with a result or an error: nothing of it stays behind.
Return(b) ==
  /\ pc' = [pc EXCEPT ![b] = "idle"]
  /\ attempt' = [attempt EXCEPT ![b] = 0]
  /\ want' = [want EXCEPT ![b] = None]

\* The seat is unknown, reserved or leased, or no online server passes its
\* breaker: a NonRetryableBookingError ends the call.
BookRefused(b) ==
  /\ Enter(b)
  /\ Return(b)
  /\ UNCHANGED appLock

MutRouteUnlocked(b) ==
  /\ Enter(b)
  /\ IsFree(want[b].seat)
  /\ pc' = [pc EXCEPT ![b] = "reserving"]
  /\ UNCHANGED <<attempt, want, appLock>>

\* The load balancer finds a server; the thread goes on with the lock held.
BookRouted(b) ==
  /\ Enter(b)
  /\ IsFree(want[b].seat)
  /\ pc' = [pc EXCEPT ![b] = "reserving"]
  /\ appLock' = b
  /\ UNCHANGED <<attempt, want>>

MutRetryForever(b) ==
  /\ pc[b] = "reserving"
  /\ appLock' = None
  /\ pc' = [pc EXCEPT ![b] = "waiting"]
  /\ UNCHANGED <<clock, leases, issued, seats, attempt, want>>

\* _reserve_on_server fails before it acquires: the retry manager sleeps
\* without the lock and tries again, or gives up.
BookTransient(b) ==
  /\ pc[b] = "reserving"
  /\ appLock' = None
  /\ \/ /\ attempt[b] + 1 < MaxAttempts
        /\ pc' = [pc EXCEPT ![b] = "waiting"]
        /\ attempt' = [attempt EXCEPT ![b] = @ + 1]
        /\ UNCHANGED want
     \/ attempt[b] + 1 >= MaxAttempts /\ Return(b)
  /\ UNCHANGED <<clock, leases, issued, seats>>

\* What _reserve_on_server writes into the seat it took a lease for.
LockedSeat(request, id) ==
  [state |-> "locked", owner |-> request.owner, lease_id |-> id,
   expires_at |-> clock + Ttl]

MutReuseId(b) ==
  /\ pc[b] = "reserving"
  /\ Fresh.bySeat[want[b].seat] = None
  /\ \E id \in LeaseIds :
       /\ leases' = Store(Fresh, NewLease(want[b].seat, want[b].owner, id, Ttl))
       /\ issued' = issued \cup {id}
       /\ seats' = [seats EXCEPT ![want[b].seat] = LockedSeat(want[b], id)]
  /\ appLock' = None
  /\ Return(b)
  /\ UNCHANGED clock

\* _reserve_on_server acquires a lease and locks the seat.  The conflict
\* that acquire may raise cannot occur (ReserveNeverConflicts).
BookLeased(b) ==
  /\ pc[b] = "reserving"
  /\ Fresh.bySeat[want[b].seat] = None
  /\ \E id \in LeaseIds \ issued :
       /\ leases' = Store(Fresh, NewLease(want[b].seat, want[b].owner, id, Ttl))
       /\ issued' = issued \cup {id}
       /\ seats' = [seats EXCEPT ![want[b].seat] = LockedSeat(want[b], id)]
  /\ appLock' = None
  /\ Return(b)
  /\ UNCHANGED clock

-----------------------------------------------------------------------------
\* A request other than a booking: it finds the lock free and ends at once.
Handler == appLock = None /\ UNCHANGED <<clock, issued, appLock, bookVars>>

MutHoldsLease(s) == TRUE

\* The lease the seat names is in the table, once the stale ones are gone.
HoldsLease(s) ==
  LET lease == Fresh.byId[seats[s].lease_id] IN lease # None /\ lease.seat_id = s

\* confirm_seat: validate, release, mark the seat reserved.
Confirm(s) ==
  /\ Handler
  /\ seats[s].state = "locked" /\ HoldsLease(s)
  /\ leases' = Release(Fresh, seats[s].lease_id)
  /\ seats' = [seats EXCEPT ![s] = [@ EXCEPT !.state = "reserved",
                                             !.lease_id = None, !.expires_at = 0]]

MutCancelKeepsLease(s) ==
  /\ Handler
  /\ seats[s].state = "locked"
  /\ seats' = [seats EXCEPT ![s] = FreeSeat]
  /\ UNCHANGED leases

\* cancel_lock: release does not look at the clock, and the lease may be gone.
Cancel(s) ==
  /\ Handler
  /\ seats[s].state = "locked"
  /\ leases' = Release(leases, seats[s].lease_id)
  /\ seats' = [seats EXCEPT ![s] = FreeSeat]

MutRenewTableOnly(s) ==
  /\ Handler
  /\ seats[s].state = "locked" /\ HoldsLease(s)
  /\ LET lease == Fresh.byId[seats[s].lease_id]
     IN leases' = Store(Fresh, [lease EXCEPT !.expires_at = clock + Ttl])
  /\ UNCHANGED seats

\* renew_lease: extend the lease and copy its new end into the seat.
Renew(s) ==
  /\ Handler
  /\ seats[s].state = "locked" /\ HoldsLease(s)
  /\ LET lease == Fresh.byId[seats[s].lease_id]
     IN leases' = Store(Fresh, [lease EXCEPT !.expires_at = clock + Ttl])
  /\ seats' = [seats EXCEPT ![s].expires_at = clock + Ttl]

\* confirm_seat or renew_lease of a lease that has run out: the call fails,
\* and leaves out of the table every lease that had expired by then.
LeaseExpired(s) ==
  /\ Handler
  /\ seats[s].state = "locked" /\ ~HoldsLease(s)
  /\ leases' = Fresh
  /\ UNCHANGED seats

\* snapshot, which the page polls every four seconds.
Snapshot ==
  /\ Handler
  /\ leases' = Fresh
  /\ seats' = ExpiredSeats

\* reset: a new lease manager, every seat free.
Reset ==
  /\ Handler
  /\ leases' = EmptyTable
  /\ seats' = [s \in Seats |-> FreeSeat]

Tick == LeaseTick /\ UNCHANGED <<seats, appLock, bookVars>>

Booking(b) ==
  \/ \E request \in Request : BookCall(b, request)
  \/ BookRefused(b) \/ BookRouted(b)
  \/ BookTransient(b) \/ BookLeased(b)

SeatRequest(s) == Confirm(s) \/ Cancel(s) \/ Renew(s) \/ LeaseExpired(s)

Next ==
  \/ \E b \in Bookers : Booking(b)
  \/ Snapshot
  \/ \E s \in Seats : SeatRequest(s)
  \/ Reset \/ Tick

Spec == Init /\ [][Next]_vars

-----------------------------------------------------------------------------
(***************************************************************************)
(* No lease outlives its lock: a seat that is free or sold has no entry in *)
(* the lease manager, whichever of confirm, cancel, expiry and reset got   *)
(* it there.  A leftover entry would turn the next booking of the seat into*)
(* a LeaseConflictError that nothing but time can clear.                   *)
(***************************************************************************)
NoLeftoverLease ==
  \A s \in Seats : seats[s].state # "locked" => leases.bySeat[s] = None

(***************************************************************************)
(* The countdown the page shows is backed: while a locked seat's own       *)
(* expires_at lies ahead, the lease manager holds the same lease, for the  *)
(* same requester, until the same moment.                                  *)
(***************************************************************************)
CountdownIsBacked ==
  \A s \in Seats : seats[s].state = "locked" /\ seats[s].expires_at > clock =>
    leases.bySeat[s] = [lease_id |-> seats[s].lease_id, seat_id |-> s,
                        owner |-> seats[s].owner, expires_at |-> seats[s].expires_at]

(***************************************************************************)
(* A lease id kept by a locked seat is that seat's or nobody's: confirm,   *)
(* cancel and renew of a seat whose lease is gone cannot touch the lease   *)
(* that another requester holds by now.                                    *)
(***************************************************************************)
IdIsOwn ==
  \A s, t \in Seats : s # t /\ seats[s].state = "locked" /\ leases.bySeat[t] # None
    => leases.bySeat[t].lease_id # seats[s].lease_id

(***************************************************************************)
(* The seat checked before routing is still free when the lease is taken,  *)
(* although other handlers may have been waiting for the lock: acquire     *)
(* never raises the LeaseConflictError that _book_locked catches.          *)
(***************************************************************************)
ReserveNeverConflicts ==
  \A b \in Bookers : pc[b] = "reserving" =>
    /\ appLock = b
    /\ seats[want[b].seat].state = "available"
    /\ Fresh.bySeat[want[b].seat] = None

(***************************************************************************)
(* A seat is sold only out of a lock whose lease is still running, and to  *)
(* the requester who held it (confirm_seat).                               *)
(***************************************************************************)
SoldUnderLease ==
  [][\A s \in Seats : seats[s].state # "reserved" /\ seats'[s].state = "reserved" =>
       /\ seats[s].state = "locked"
       /\ Running(s)
       /\ leases.bySeat[s].owner = seats'[s].owner]_vars

(***************************************************************************)
(* A seat passes from one requester to another only by way of available:   *)
(* neither a retried booking nor a late confirm or renew overwrites the    *)
(* owner of a locked or sold seat, and only reset takes a sale back.       *)
(***************************************************************************)
OwnerKept ==
  [][\A s \in Seats : seats[s].owner # None =>
       \/ seats'[s].owner = seats[s].owner
       \/ /\ seats'[s] = FreeSeat
          /\ seats[s].state = "reserved" => \A t \in Seats : seats'[t] = FreeSeat]_vars

-----------------------------------------------------------------------------
(***************************************************************************)
(* Fairness.  A thread that waits for the RLock gets it sooner or later,   *)
(* although others take it in between (strong fairness); once inside, a    *)
(* booking goes on by itself; the clock runs; the page keeps polling.      *)
(***************************************************************************)
Fairness ==
  /\ \A b \in Bookers : /\ SF_vars(BookRefused(b) \/ BookRouted(b))
                        /\ WF_vars(BookTransient(b) \/ BookLeased(b))
  /\ SF_vars(Snapshot)
  /\ WF_vars(Tick)

FairSpec == Spec /\ Fairness

(***************************************************************************)
(* A locked seat whose countdown reached zero becomes available by itself  *)
(* ("lease expired; returned to available", dashboard.py:456).             *)
(***************************************************************************)
ExpiredLockReturns ==
  \A s \in Seats : seats[s].state = "locked" /\ seats[s].expires_at <= clock
    ~> seats[s].state # "locked" \/ seats[s].expires_at > clock
===============================================================================
