----------------------------- MODULE LeaseManager -----------------------------
(***************************************************************************)
(* DistributedLeaseManager (src/locking/lease_manager.py) on its own.      *)
(* Every method runs under one RLock and is one action.  The clients are   *)
(* left free: any of them may present any lease id ever issued, at any     *)
(* time, however stale.                                                    *)
(***************************************************************************)
EXTENDS LeaseTable

CONSTANTS
  Ttls,       \* what ttl_seconds may be, or default_ttl_seconds in its place
  MaxClock    \* bound on the clock, for model checking

\* A lease for no time at all is over at once, as one for less than none is.
ASSUME TtlsAssumption == Ttls \subseteq Nat
ASSUME MaxClockAssumption == MaxClock \in Nat

VARIABLES
  clock,      \* what time_fn returns
  leases,     \* _leases_by_seat and _leases_by_id
  issued      \* the lease ids uuid4 has produced: it never repeats one

leaseVars == <<clock, leases, issued>>

LeaseTypeOK ==
  /\ clock \in Nat
  /\ leases \in Table
  /\ issued \subseteq LeaseIds

LeaseInit ==
  /\ clock = 0
  /\ leases = EmptyTable
  /\ issued = {}

-----------------------------------------------------------------------------
MutFresh == leases

\* The table after the _expire_locked with which every method but release begins.
Fresh == ExpireLocked(leases, clock)

\* The lease that acquire builds.
NewLease(s, owner, id, ttl) ==
  [lease_id |-> id, seat_id |-> s, owner |-> owner, expires_at |-> clock + ttl]

MutAcquireUnchecked(s, owner, ttl) ==
  /\ \E id \in LeaseIds \ issued :
       /\ leases' = Store(Fresh, NewLease(s, owner, id, ttl))
       /\ issued' = issued \cup {id}
  /\ UNCHANGED clock

Acquire(s, owner, ttl) ==
  /\ Fresh.bySeat[s] = None
  /\ \E id \in LeaseIds \ issued :
       /\ leases' = Store(Fresh, NewLease(s, owner, id, ttl))
       /\ issued' = issued \cup {id}
  /\ UNCHANGED clock

MutRenewNoExpiry(id, ttl) ==
  /\ leases.byId[id] # None
  /\ leases' = Store(leases, [leases.byId[id] EXCEPT !.expires_at = clock + ttl])
  /\ UNCHANGED <<clock, issued>>

\* The lease ends ttl from now, which may be sooner than it would have.
RenewLease(id, ttl) ==
  /\ Fresh.byId[id] # None
  /\ leases' = Store(Fresh, [Fresh.byId[id] EXCEPT !.expires_at = clock + ttl])
  /\ UNCHANGED <<clock, issued>>

ReleaseLease(id) ==
  /\ leases' = Release(leases, id)
  /\ UNCHANGED <<clock, issued>>

\* What is left of a call that raises LeaseConflictError or
\* LeaseNotFoundError, and of validate, get_active_lease and expire_leases:
\* they drop the stale leases and change nothing else.
DropStale ==
  /\ leases' = Fresh
  /\ UNCHANGED <<clock, issued>>

LeaseTick ==
  /\ clock < MaxClock
  /\ clock' = clock + 1
  /\ UNCHANGED <<leases, issued>>

LeaseNext ==
  \/ \E s \in Seats, owner \in Owners, ttl \in Ttls : Acquire(s, owner, ttl)
  \/ \E id \in issued, ttl \in Ttls : RenewLease(id, ttl)
  \/ \E id \in issued : ReleaseLease(id)
  \/ DropStale
  \/ LeaseTick

LeaseSpec == LeaseInit /\ [][LeaseNext]_leaseVars

-----------------------------------------------------------------------------
\* The lease of a seat that still runs.
Running(s) == leases.bySeat[s] # None /\ leases.bySeat[s].expires_at > clock

ActiveId == [s \in Seats |-> IF Running(s) THEN leases.bySeat[s].lease_id ELSE None]

(***************************************************************************)
(* The dictionary by seat and the dictionary by id never disagree, whatever*)
(* mix of expiry, renewal and release ran (lease_manager.py keeps them by  *)
(* hand in four places).                                                   *)
(***************************************************************************)
TablesAgree == Consistent(leases)

(***************************************************************************)
(* Nobody takes over a running lease, and no call about another one touches*)
(* it: the only things that become of it are its own renewal, for as long  *)
(* as that asks, which may be shorter, and its own release, which removes  *)
(* nothing else.                                                           *)
(***************************************************************************)
NoTakeover ==
  [][\A s \in Seats : Running(s) => LET lease == leases.bySeat[s] IN
       \/ leases'.bySeat[s] = lease
       \/ \E ttl \in Ttls : leases'.bySeat[s] = [lease EXCEPT !.expires_at = clock + ttl]
       \/ leases' = Release(leases, lease.lease_id)]_leaseVars

(***************************************************************************)
(* The manager implements ExclusiveLease: in particular a lease that ran   *)
(* out is never revived by a late renew (lease_manager.py:79-97).          *)
(***************************************************************************)
Abstract == INSTANCE ExclusiveLease WITH active <- ActiveId, granted <- issued
ImplementsExclusiveLease == Abstract!Spec
===============================================================================
