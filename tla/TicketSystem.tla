----------------------------- MODULE TicketSystem -----------------------------
(***************************************************************************)
(* The dashboard's seats and the replicated stores behind them: SeatBooking*)
(* and SeatReplication with the steps they share.  A handler of            *)
(* src/dashboard.py that changes a seat may also write the primary's store *)
(* and start the timers, under the same lock; a timer's callback and a     *)
(* recovery sync wait for that lock.  A timer that a reset leaves running  *)
(* may deliver a seat's old state into the new stores: such a copy is stray*)
(* until something newer replaces it.                                      *)
(***************************************************************************)
EXTENDS SeatReplication

CONSTANTS RequestIds, LeaseIds, Bookers, Ttl, MaxAttempts, MaxClock  \* as in SeatBooking

ASSUME BookerAssumption == None \notin Bookers
ASSUME TtlAssumption == Ttl \in Nat

VARIABLES
  clock, leases, issued, seats, appLock, pc, attempt, want,  \* as in SeatBooking
  stray          \* history: the <<peer, seat>> whose copy an old timer brought

B == INSTANCE SeatBooking WITH Ttls <- {Ttl}

seatVars == <<clock, leases, issued, seats, appLock, pc, attempt, want>>
systemVars == <<seatVars, vars, stray>>

SystemInit == B!Init /\ Init /\ stray = {}

-----------------------------------------------------------------------------
MutRecordSold(b) == Write(want[b].seat, "reserved", want[b].owner)

\* _reserve_on_server and confirm_seat record the seat's new state.
RecordLock(b) == Write(want[b].seat, "locked", want[b].owner)

MutSaleUnrecorded(s) == UNCHANGED vars

RecordSale(s) == Write(s, "reserved", seats[s].owner)

BookLeased(b) == B!BookLeased(b) /\ RecordLock(b) /\ UNCHANGED stray

Confirm(s) == B!Confirm(s) /\ RecordSale(s) /\ UNCHANGED stray

SystemReset == B!Reset /\ Reset /\ stray' = {}

\* The handlers that leave the stores alone, cancel and expiry among them.
SeatsOnly ==
  /\ \/ \E b \in Bookers : \/ \E request \in B!Request : B!BookCall(b, request)
                           \/ B!BookRefused(b) \/ B!BookRouted(b) \/ B!BookTransient(b)
     \/ \E s \in Seats : B!Cancel(s) \/ B!Renew(s) \/ B!LeaseExpired(s)
     \/ B!Snapshot \/ B!Tick
  /\ UNCHANGED <<vars, stray>>

\* What a delivery changes is stray if the timer is of an earlier era.
DeliverStray(t) ==
  /\ Deliver(t)
  /\ stray' = IF stores' = stores THEN stray
              ELSE IF t.era = era THEN stray \ {<<t.peer, t.seat>>}
              ELSE stray \cup {<<t.peer, t.seat>>}

\* What a recovery sync changes is the primary's present state.
SyncStray(p) ==
  /\ RecoverySync(p)
  /\ stray' = stray \ {<<p, s>> : s \in {r \in Seats : stores'[p][r] # stores[p][r]}}

\* Replication's own steps; those that touch a store take the lock.
StoresOnly ==
  /\ \/ /\ appLock = None
        /\ (\E t \in waiting : DeliverStray(t)) \/ (\E p \in Peers : SyncStray(p))
     \/ /\ (\E t \in delivered : CleanUp(t)) \/ (\E t \in ending : Exit(t))
        /\ UNCHANGED stray
  /\ UNCHANGED seatVars

SystemNext ==
  \/ \E b \in Bookers : BookLeased(b)
  \/ \E s \in Seats : Confirm(s)
  \/ SystemReset
  \/ SeatsOnly
  \/ StoresOnly

SystemSpec == SystemInit /\ [][SystemNext]_systemVars

\* The fairness of both parts: who waits for the lock gets it, timers fire.
SystemFairSpec == SystemSpec /\ B!Fairness /\ Fairness

-----------------------------------------------------------------------------
(***************************************************************************)
(* A held seat is held in the primary's store too, by the same requester,  *)
(* and the store sells no seat that the dashboard has not sold.            *)
(***************************************************************************)
HeldInPrimary ==
  \A s \in Seats :
    /\ seats[s].state # "available" =>
         /\ stores[Primary][s].state = seats[s].state
         /\ stores[Primary][s].owner = seats[s].owner
    /\ stores[Primary][s].state = "reserved" => seats[s].state = "reserved"

(***************************************************************************)
(* No replica shows a sale that has not taken place since the last reset,  *)
(* or another buyer, however late and in whatever order updates, syncs and *)
(* resets come, unless a timer of before the reset brought that very copy: *)
(* no sync and no update of today passes one on or leaves one of its own.  *)
(***************************************************************************)
NoPhantomSale ==
  \A v \in Peers, s \in Seats : stores[v][s].state = "reserved" /\ <<v, s>> \notin stray =>
    seats[s].state = "reserved" /\ stores[v][s].owner = seats[s].owner

(***************************************************************************)
(* A replica that does not show a held seat as held, by its holder, has an *)
(* update that says so still under way to it, or a copy of before the last *)
(* reset: no hold and no sale of the dashboard is lost on its way to the   *)
(* replicas, whatever overtakes it.                                        *)
(***************************************************************************)
Shows(copy, s) == copy.state = seats[s].state /\ copy.owner = seats[s].owner

HoldReachesPeers ==
  \A p \in Peers, s \in Seats :
    seats[s].state # "available" /\ <<p, s>> \notin stray /\ ~Shows(stores[p][s], s) =>
      \E t \in waiting : t.peer = p /\ t.seat = s /\ Shows(t.update, s)

(***************************************************************************)
(* The dashboard drives the stores only in the ways SeatReplication allows *)
(* on its own, so that what is checked there holds of the whole system.    *)
(***************************************************************************)
DrivesReplication == Spec

(***************************************************************************)
(* Every booking request returns, however often its attempts fail and      *)
(* whoever takes the lock between them, callbacks and syncs included: the  *)
(* retry manager gives up after MaxAttempts.                               *)
(***************************************************************************)
BookingReturns == \A b \in Bookers : pc[b] # "idle" ~> pc[b] = "idle"

(***************************************************************************)
(* "Each booking server maintains a local replica of the seat state"       *)
(* (state_store.py:3): the server that takes all the bookings, at least,   *)
(* has each seat's state.                                                  *)
(***************************************************************************)
PrimaryMirrorsSeats == \A s \in Seats : stores[Primary][s].state = seats[s].state
===============================================================================
