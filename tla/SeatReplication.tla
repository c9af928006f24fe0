--------------------------- MODULE SeatReplication ---------------------------
(***************************************************************************)
(* The replicated seat stores (src/synchronization): the primary's         *)
(* StateStore is the only one written to, and each of its updates is       *)
(* carried to every peer by a timer of its own after a random delay, so    *)
(* updates overtake one another.  reset builds new stores and a new        *)
(* EventualConsistencySimulator but leaves the old timers running; they    *)
(* call back into the stores of the day (_on_sync_delivered).              *)
(***************************************************************************)
EXTENDS Naturals

CONSTANTS
  SeatCount,     \* seats are numbered 1 .. SeatCount
  Primary,       \* "Server 1"
  Peers,         \* the other servers
  Owners,        \* who a seat can be locked or reserved for
  None,          \* the empty owner
  MaxVersion,    \* bound on the primary's version clock, for model checking
  MaxResets,     \* bound on the resets, for model checking
  QuietResets    \* TRUE: nobody resets while an update is under way

ASSUME SeatCountAssumption == SeatCount \in Nat
ASSUME ServerAssumption == Primary \notin Peers
ASSUME OwnerAssumption == None \notin Owners
ASSUME BoundAssumption == MaxVersion \in Nat /\ MaxResets \in Nat
ASSUME QuietAssumption == QuietResets \in BOOLEAN

VARIABLES
  stores,        \* stores[server][seat]: the SeatState the server knows
  versionClock,  \* the primary's _version_clock; the peers never use theirs
  era,           \* resets so far: which simulator a timer belongs to
  waiting,       \* timers that have not fired yet
  delivered,     \* timers past the callback, before the clean-up
  ending,        \* timers past the clean-up whose thread is still alive
  pending        \* the timers in the current simulator's _pending lists

timerVars == <<waiting, delivered, ending, pending>>
vars == <<stores, versionClock, era, waiting, delivered, ending, pending>>

Servers == Peers \cup {Primary}
Seats == 1 .. SeatCount

SeatState == [state: {"available", "locked", "reserved"},
              owner: Owners \cup {None}, version: Nat]

\* One timer carries one update of one seat to one peer.
Timer == [era: Nat, peer: Peers, seat: Seats, update: SeatState]

TypeOK ==
  /\ stores \in [Servers -> [Seats -> SeatState]]
  /\ versionClock \in Nat
  /\ era \in Nat
  /\ waiting \subseteq Timer
  /\ delivered \subseteq Timer
  /\ ending \subseteq Timer
  /\ pending \subseteq Timer

\* initialize_seats numbers the seats' first versions 1, 2, 3, ...
InitialStore == [s \in Seats |-> [state |-> "available", owner |-> None, version |-> s]]

Init ==
  /\ stores = [v \in Servers |-> InitialStore]
  /\ versionClock = SeatCount
  /\ era = 0
  /\ waiting = {} /\ delivered = {} /\ ending = {} /\ pending = {}

-----------------------------------------------------------------------------
MutNewer(remote, local) == TRUE

\* The higher version wins, and the local copy wins a tie.
Newer(remote, local) == remote.version > local.version

\* apply_remote_update on one copy.
Merge(local, remote) == IF Newer(remote, local) THEN remote ELSE local

MutNextState(s, state, owner) ==
  [state |-> state, owner |-> owner, version |-> versionClock]

\* What update_seat stores: the version clock counts across all seats.
NextState(s, state, owner) ==
  [state |-> state, owner |-> owner, version |-> versionClock + 1]

MutTimersFor(s, update) ==
  LET first == CHOOSE p \in Peers : TRUE
  IN [era: {era}, peer: Peers \ {first}, seat: {s}, update: {update}]

TimersFor(s, update) == [era: {era}, peer: Peers, seat: {s}, update: {update}]

\* update_seat on the primary's store, then broadcast_with_delay.  Both run
\* under the application's lock, so no callback runs in between.
Write(s, state, owner) ==
  LET update == NextState(s, state, owner)
      timers == TimersFor(s, update)
  IN /\ versionClock < MaxVersion
     /\ stores' = [stores EXCEPT ![Primary][s] = update]
     /\ versionClock' = versionClock + 1
     /\ waiting' = waiting \cup timers
     /\ pending' = pending \cup timers
     /\ UNCHANGED <<era, delivered, ending>>

\* The writes the dashboard makes: a seat not yet sold is locked, anew if its
\* last lock was cancelled or ran out, and a locked seat is sold to its owner.
Update(s) ==
  \/ /\ stores[Primary][s].state # "reserved"
     /\ \E owner \in Owners : Write(s, "locked", owner)
  \/ /\ stores[Primary][s].state = "locked"
     /\ Write(s, "reserved", stores[Primary][s].owner)

\* The timer fires: the callback merges the update into the peer's store.
Deliver(t) ==
  /\ t \in waiting
  /\ stores' = [stores EXCEPT ![t.peer][t.seat] = Merge(@, t.update)]
  /\ waiting' = waiting \ {t}
  /\ delivered' = delivered \cup {t}
  /\ UNCHANGED <<versionClock, era, ending, pending>>

MutCleanUp(t) ==
  /\ t \in delivered
  /\ pending' = {u \in pending : u.seat # t.seat}
  /\ delivered' = delivered \ {t}
  /\ ending' = ending \cup {t}
  /\ UNCHANGED <<stores, versionClock, era, waiting>>

\* The finally block: drop the seat's timers whose thread is dead.  The one
\* that runs this block is not.  A timer of an earlier era looks in the lists
\* of its own simulator, which nobody reads any more.
CleanUp(t) ==
  /\ t \in delivered
  /\ pending' = IF t.era = era
                THEN {u \in pending : u.seat # t.seat \/ u \in waiting \cup delivered \cup ending}
                ELSE pending
  /\ delivered' = delivered \ {t}
  /\ ending' = ending \cup {t}
  /\ UNCHANGED <<stores, versionClock, era, waiting>>

Exit(t) ==
  /\ t \in ending
  /\ ending' = ending \ {t}
  /\ UNCHANGED <<stores, versionClock, era, waiting, delivered, pending>>

\* receive_sync_updates: the callback merges one seat of the primary after the
\* other into the peer's store.
CaughtUp(p) == [s \in Seats |-> Merge(stores[p][s], stores[Primary][s])]

\* A peer that is toggled back online receives the primary's list_seats.
RecoverySync(p) ==
  /\ stores' = [stores EXCEPT ![p] = CaughtUp(p)]
  /\ UNCHANGED <<versionClock, era, timerVars>>

MutResetPrimary ==
  /\ era < MaxResets
  /\ QuietResets => waiting = {}
  /\ stores' = [stores EXCEPT ![Primary] = InitialStore]
  /\ versionClock' = SeatCount
  /\ era' = era + 1
  /\ pending' = {}
  /\ UNCHANGED <<waiting, delivered, ending>>

\* _initialize_synchronization, once more.
Reset ==
  /\ era < MaxResets
  /\ QuietResets => waiting = {}
  /\ stores' = [v \in Servers |-> InitialStore]
  /\ versionClock' = SeatCount
  /\ era' = era + 1
  /\ pending' = {}
  /\ UNCHANGED <<waiting, delivered, ending>>

Next ==
  \/ \E s \in Seats : Update(s)
  \/ \E t \in waiting : Deliver(t)
  \/ \E t \in delivered : CleanUp(t)
  \/ \E t \in ending : Exit(t)
  \/ \E p \in Peers : RecoverySync(p)
  \/ Reset

Spec == Init /\ [][Next]_vars

-----------------------------------------------------------------------------
(***************************************************************************)
(* Wherever a peer differs from the primary, the primary's present version *)
(* is still on its way to that peer: no reordering, tie or recovery sync   *)
(* loses the last word.                                                    *)
(***************************************************************************)
LagIsUnderWay ==
  \A p \in Peers, s \in Seats : stores[p][s] # stores[Primary][s] =>
    \E t \in waiting : t.peer = p /\ t.seat = s /\ t.update = stores[Primary][s]

(***************************************************************************)
(* A version number names one content of a seat: no two servers, and no    *)
(* update under way, disagree on what a version of a seat says, although   *)
(* the version clock is shared by all seats.                               *)
(***************************************************************************)
Copies(s) ==
  {stores[v][s] : v \in Servers} \cup {t.update : t \in {u \in waiting : u.seat = s}}

VersionsAgree ==
  \A s \in Seats : \A x, y \in Copies(s) : x.version = y.version => x = y

(***************************************************************************)
(* The pending count never misses an update that is still to be delivered. *)
(***************************************************************************)
PendingCoversWaiting == \A t \in waiting : t.era = era => t \in pending

(***************************************************************************)
(* Between resets no server goes back to an older version of a seat, so a  *)
(* sale seen by a server is never unseen: a late lock does not undo it.    *)
(***************************************************************************)
NoRegression ==
  [][era' = era => \A v \in Servers, s \in Seats :
       /\ stores'[v][s].version >= stores[v][s].version
       /\ stores[v][s].state = "reserved" => stores'[v][s] = stores[v][s]]_vars

-----------------------------------------------------------------------------
(***************************************************************************)
(* Fairness: a started timer fires.  No update, sync or reset is owed by   *)
(* anyone, nor need a thread that has delivered run to its end.            *)
(***************************************************************************)
Fairness == WF_vars(\E t \in waiting : Deliver(t))

FairSpec == Spec /\ Fairness

(***************************************************************************)
(* "All replicas eventually converge" (eventual_consistency.py:22-24) once *)
(* the updates and resets have stopped, as the bounds make them.           *)
(***************************************************************************)
ReplicasConverge == <>[](\A p \in Peers : stores[p] = stores[Primary])
===============================================================================
