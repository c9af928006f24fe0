------------------------- MODULE TicketSystemProofs -------------------------
(***************************************************************************)
(* Proofs about the replicated stores on their own (SeatReplication) and   *)
(* under the dashboard (TicketSystem), for any seats, peers, owners and    *)
(* threads and any bounds.                                                 *)
(*                                                                         *)
(* The stores.  Whatever copy of a seat exists, in a store or in a timer,  *)
(* is at most as new as the primary's, whose version the clock has reached *)
(* (Newest), and a sold copy is the primary's own, since nothing is written*)
(* after a sale (SaleIsLast).  With VersionsAgree this says that a peer's  *)
(* copy that is not older than the primary's is the primary's.  It takes   *)
(* that nobody resets while an update is under way; PendingCoversWaiting   *)
(* does not, and stands alone.                                             *)
(*                                                                         *)
(* The dashboard.  A booking that found its seat free holds the lock until *)
(* the seat is locked and recorded (Ready); hence every record is one that *)
(* SeatReplication allows, and the two parts agree (SystemInv).  Whenever  *)
(* somebody resets, the copies of today, those no timer of an earlier era  *)
(* brought, are at most as new as the primary's (UpToDate), and whoever has*)
(* an older one has the primary's present version under way (OnItsWay).    *)
(***************************************************************************)
EXTENDS TicketSystem, TLAPS

Newest(s) ==
  /\ \A c \in Copies(s) : c.version <= stores[Primary][s].version
  /\ stores[Primary][s].version <= versionClock

Agreed(s) == \A x, y \in Copies(s) : x.version = y.version => x = y

SaleIsLast(s) == \A c \in Copies(s) : c.state = "reserved" => c = stores[Primary][s]

CopiesOK == \A s \in Seats : Newest(s) /\ Agreed(s) /\ SaleIsLast(s)

IInv == TypeOK /\ CopiesOK /\ LagIsUnderWay

-----------------------------------------------------------------------------
\* The first store gives every seat a state.
LEMMA InitialStoreType == InitialStore \in [Seats -> SeatState]
BY SeatCountAssumption DEF InitialStore, SeatState, Seats

\* A merge gives back one of the two copies, and the newer one.
LEMMA MergeProperties ==
  ASSUME NEW x \in SeatState, NEW y \in SeatState
  PROVE  /\ Merge(x, y) \in {x, y}
         /\ Merge(x, y).version >= x.version /\ Merge(x, y).version >= y.version
         /\ Merge(x, y) # x => y.version > x.version
BY DEF Merge, Newer, SeatState

\* Every copy of a seat is a seat's state.
LEMMA CopyType ==
  ASSUME TypeOK, NEW s \in Seats
  PROVE  Copies(s) \subseteq SeatState /\ stores[Primary][s] \in Copies(s)
BY DEF TypeOK, Copies, Timer, Servers

\* The clock is ahead of all versions at the start, and all servers agree.
LEMMA ReplicationInitial == Init => IInv
<1> SUFFICES ASSUME Init PROVE IInv
  OBVIOUS
<1>1. TypeOK
  BY InitialStoreType, SeatCountAssumption DEF Init, TypeOK
<1>2. ASSUME NEW s \in Seats
      PROVE  Copies(s) = {InitialStore[s]} /\ stores[Primary][s] = InitialStore[s]
  BY DEF Init, Copies, Servers
<1>3. CopiesOK
  <2> SUFFICES ASSUME NEW s \in Seats PROVE Newest(s) /\ Agreed(s) /\ SaleIsLast(s)
    BY DEF CopiesOK
  <2>1. InitialStore[s].version = s /\ s \in Nat /\ s <= versionClock
    BY SeatCountAssumption DEF InitialStore, Seats, Init
  <2> QED BY <1>2, <2>1 DEF Newest, Agreed, SaleIsLast
<1>4. LagIsUnderWay
  BY DEF Init, LagIsUnderWay, Servers
<1> QED BY <1>1, <1>3, <1>4 DEF IInv

-----------------------------------------------------------------------------
\* What update_seat stores is a seat's state, and what it starts are timers.
LEMMA WriteType ==
  ASSUME TypeOK, NEW s \in Seats, NEW state \in {"locked", "reserved"},
         NEW owner \in Owners \cup {None}
  PROVE  /\ NextState(s, state, owner) \in SeatState
         /\ TimersFor(s, NextState(s, state, owner)) \subseteq Timer
<1>1. NextState(s, state, owner) \in SeatState
  BY DEF NextState, SeatState, TypeOK
<1> QED BY <1>1 DEF TimersFor, Timer, TypeOK

\* An update writes one of the states of WriteType, and not over a sale.
LEMMA UpdateWrites ==
  ASSUME TypeOK, NEW s \in Seats, Update(s)
  PROVE  /\ stores[Primary][s].state # "reserved"
         /\ \E state \in {"locked", "reserved"}, owner \in Owners \cup {None} :
              Write(s, state, owner)
<1>1. stores[Primary][s].owner \in Owners \cup {None}
  BY DEF TypeOK, Servers, SeatState
<1> QED BY <1>1 DEF Update

\* Every step keeps every variable within its type.
LEMMA ReplicationType == TypeOK /\ [Next]_vars => TypeOK'
<1> SUFFICES ASSUME TypeOK, [Next]_vars PROVE TypeOK'
  OBVIOUS
<1>1. ASSUME NEW s \in Seats, Update(s) PROVE TypeOK'
  <2>1. PICK state \in {"locked", "reserved"}, owner \in Owners \cup {None} : Write(s, state, owner)
    BY <1>1, UpdateWrites
  <2> DEFINE update == NextState(s, state, owner)
             timers == TimersFor(s, update)
  <2>2. update \in SeatState /\ timers \subseteq Timer
    BY WriteType
  <2>3. /\ stores' = [stores EXCEPT ![Primary][s] = update]
        /\ versionClock' = versionClock + 1
        /\ waiting' = waiting \cup timers /\ pending' = pending \cup timers
        /\ UNCHANGED <<era, delivered, ending>>
    BY <2>1 DEF Write
  <2> HIDE DEF update, timers
  <2>4. stores' \in [Servers -> [Seats -> SeatState]]
    BY <2>2, <2>3 DEF TypeOK
  <2>5. waiting' \subseteq Timer /\ pending' \subseteq Timer
    BY <2>2, <2>3 DEF TypeOK
  <2>6. versionClock' \in Nat
    BY <2>3 DEF TypeOK
  <2> QED BY <2>3, <2>4, <2>5, <2>6 DEF TypeOK
<1>2. ASSUME NEW t \in waiting, Deliver(t) PROVE TypeOK'
  <2>1. t.peer \in Servers /\ t.seat \in Seats /\ t.update \in SeatState
    BY DEF TypeOK, Timer, Servers
  <2>2. Merge(stores[t.peer][t.seat], t.update) \in SeatState
    BY <2>1, MergeProperties DEF TypeOK
  <2> QED BY <1>2, <2>1, <2>2 DEF Deliver, TypeOK
<1>3. ASSUME NEW t \in delivered, CleanUp(t) PROVE TypeOK'
  BY <1>3 DEF CleanUp, TypeOK
<1>4. ASSUME NEW t \in ending, Exit(t) PROVE TypeOK'
  BY <1>4 DEF Exit, TypeOK
<1>5. ASSUME NEW p \in Peers, RecoverySync(p) PROVE TypeOK'
  <2>1. ASSUME NEW s \in Seats PROVE Merge(stores[p][s], stores[Primary][s]) \in SeatState
    <3>1. stores[p][s] \in SeatState /\ stores[Primary][s] \in SeatState
      BY DEF TypeOK, Servers
    <3> QED BY <3>1, MergeProperties
  <2> QED BY <1>5, <2>1 DEF RecoverySync, CaughtUp, TypeOK, timerVars
<1>6. CASE Reset
  BY <1>6, InitialStoreType, SeatCountAssumption DEF Reset, TypeOK
<1>7. CASE UNCHANGED vars
  BY <1>7 DEF vars, TypeOK
<1> QED BY <1>1, <1>2, <1>3, <1>4, <1>5, <1>6, <1>7 DEF Next

-----------------------------------------------------------------------------
\* A seat whose primary copy stays and that gets no new copy keeps its invariants.
LEMMA FewerCopies ==
  ASSUME NEW s \in Seats, Newest(s), Agreed(s), SaleIsLast(s),
         Copies(s)' \subseteq Copies(s), stores'[Primary][s] = stores[Primary][s],
         versionClock' >= versionClock, versionClock \in Nat, versionClock' \in Nat, TypeOK
  PROVE  Newest(s)' /\ Agreed(s)' /\ SaleIsLast(s)'
<1>1. stores[Primary][s].version \in Nat
  BY DEF TypeOK, SeatState, Servers
<1> QED BY <1>1 DEF Newest, Agreed, SaleIsLast

\* A write makes one new copy, of the version the clock goes to.
LEMMA WriteCopies ==
  ASSUME TypeOK, CopiesOK, NEW s \in Seats, Update(s)
  PROVE  CopiesOK'
<1>0. stores[Primary][s].state # "reserved"
  BY UpdateWrites
<1>1. PICK state \in {"locked", "reserved"}, owner \in Owners \cup {None} : Write(s, state, owner)
  BY UpdateWrites
<1> DEFINE update == NextState(s, state, owner)
           timers == TimersFor(s, update)
<1>2. /\ update \in SeatState /\ update.version = versionClock + 1
      /\ \A t \in timers : t.seat = s /\ t.update = update
  BY WriteType DEF NextState, TimersFor
<1>3. /\ stores' = [stores EXCEPT ![Primary][s] = update]
      /\ versionClock' = versionClock + 1 /\ waiting' = waiting \cup timers
  BY <1>1 DEF Write
<1> HIDE DEF update, timers
<1>4. versionClock \in Nat /\ versionClock' \in Nat /\ versionClock' >= versionClock
  BY <1>3 DEF TypeOK
<1>5. \A v \in Servers, r \in Seats :
        stores'[v][r] = IF v = Primary /\ r = s THEN update ELSE stores[v][r]
  BY <1>3 DEF TypeOK
<1>6. ASSUME NEW r \in Seats, r # s PROVE Newest(r)' /\ Agreed(r)' /\ SaleIsLast(r)'
  <2>1. Copies(r)' \subseteq Copies(r)
    BY <1>2, <1>3, <1>5, <1>6 DEF Copies
  <2>2. stores'[Primary][r] = stores[Primary][r]
    BY <1>5, <1>6 DEF Servers
  <2> QED BY <1>4, <2>1, <2>2, FewerCopies DEF CopiesOK
<1>7. Copies(s)' \subseteq Copies(s) \cup {update}
  BY <1>2, <1>3, <1>5 DEF Copies
<1>8. stores'[Primary][s] = update
  BY <1>5 DEF Servers
<1>9. \A c \in Copies(s) : c.version \in Nat /\ c.version <= versionClock /\ c.state # "reserved"
  <2>1. stores[Primary][s].version \in Nat /\ \A c \in Copies(s) : c.version \in Nat
    BY CopyType DEF SeatState
  <2> QED BY <1>0, <1>4, <2>1 DEF CopiesOK, Newest, SaleIsLast
<1>10. Newest(s)'
  BY <1>2, <1>3, <1>4, <1>7, <1>8, <1>9 DEF Newest
<1>11. Agreed(s)'
  <2> SUFFICES ASSUME NEW x \in Copies(s) \cup {update}, NEW y \in Copies(s) \cup {update},
                      x.version = y.version
               PROVE  x = y
    BY <1>7 DEF Agreed
  <2> QED BY <1>2, <1>4, <1>9 DEF CopiesOK, Agreed
<1>12. SaleIsLast(s)'
  BY <1>7, <1>8, <1>9 DEF SaleIsLast
<1> QED BY <1>6, <1>10, <1>11, <1>12 DEF CopiesOK

\* A delivery or a recovery sync copies what there is, and to peers only.
LEMMA MergeCopies ==
  ASSUME TypeOK, CopiesOK, NEW p \in Peers, NEW from \in [Seats -> SeatState],
         \A s \in Seats : from[s] \in Copies(s),
         stores' = [stores EXCEPT ![p] = [s \in Seats |-> Merge(stores[p][s], from[s])]],
         waiting' \subseteq waiting, UNCHANGED versionClock
  PROVE  CopiesOK'
<1> SUFFICES ASSUME NEW s \in Seats PROVE Newest(s)' /\ Agreed(s)' /\ SaleIsLast(s)'
  BY DEF CopiesOK
<1>1. p \in Servers /\ p # Primary /\ Primary \in Servers
  BY ServerAssumption DEF Servers
<1>2. \A v \in Servers :
        stores'[v][s] = IF v = p THEN Merge(stores[p][s], from[s]) ELSE stores[v][s]
  BY <1>1 DEF TypeOK
<1>3. stores[p][s] \in Copies(s) /\ stores[p][s] \in SeatState /\ from[s] \in SeatState
  BY <1>1 DEF Copies, TypeOK
<1>4. Merge(stores[p][s], from[s]) \in Copies(s)
  BY <1>3, MergeProperties
<1>5. Copies(s)' \subseteq Copies(s)
  BY <1>2, <1>4 DEF Copies
<1>6. stores'[Primary][s] = stores[Primary][s]
  BY <1>1, <1>2
<1>7. versionClock \in Nat /\ versionClock' \in Nat /\ versionClock' >= versionClock
  BY DEF TypeOK
<1> QED BY <1>5, <1>6, <1>7, FewerCopies DEF CopiesOK

-----------------------------------------------------------------------------
\* A delivery is a merge whose other seats keep what they have.
LEMMA DeliverMerges ==
  ASSUME TypeOK, NEW t \in waiting, Deliver(t)
  PROVE  /\ t.peer \in Peers /\ t.seat \in Seats /\ t.update \in Copies(t.seat)
         /\ \E from \in [Seats -> SeatState] :
              /\ \A s \in Seats : from[s] \in Copies(s)
              /\ stores' = [stores EXCEPT ![t.peer] =
                              [s \in Seats |-> Merge(stores[t.peer][s], from[s])]]
<1>1. t.peer \in Peers /\ t.seat \in Seats /\ t.update \in SeatState /\ t.peer \in Servers
  BY DEF TypeOK, Timer, Servers
<1>2. t.update \in Copies(t.seat)
  BY <1>1 DEF Copies
<1> DEFINE from == [s \in Seats |-> IF s = t.seat THEN t.update ELSE stores[t.peer][s]]
           old == stores[t.peer]
           new == [s \in Seats |-> Merge(old[s], from[s])]
<1>3. from \in [Seats -> SeatState] /\ \A s \in Seats : from[s] \in Copies(s)
  BY <1>1, <1>2 DEF TypeOK, Copies
<1>4. old \in [Seats -> SeatState]
  BY <1>1 DEF TypeOK
<1>5. \A s \in Seats : Merge(old[s], old[s]) = old[s]
  BY DEF Merge
<1>6. [old EXCEPT ![t.seat] = Merge(old[t.seat], t.update)] = new
  BY <1>1, <1>4, <1>5
<1>7. stores' = [stores EXCEPT ![t.peer] = [old EXCEPT ![t.seat] = Merge(old[t.seat], t.update)]]
  BY <1>1 DEF Deliver, TypeOK
<1>8. stores' = [stores EXCEPT ![t.peer] = new]
  BY <1>6, <1>7
<1> QED BY <1>1, <1>2, <1>3, <1>8

\* Every step keeps the copies in order, a reset because there are no others.
LEMMA CopiesInductive == QuietResets /\ TypeOK /\ CopiesOK /\ [Next]_vars => CopiesOK'
<1> SUFFICES ASSUME QuietResets, TypeOK, CopiesOK, [Next]_vars PROVE CopiesOK'
  OBVIOUS
<1>1. ASSUME NEW s \in Seats, Update(s) PROVE CopiesOK'
  BY <1>1, WriteCopies
<1>2. ASSUME NEW t \in waiting, Deliver(t) PROVE CopiesOK'
  <2>1. waiting' \subseteq waiting /\ UNCHANGED versionClock
    BY <1>2 DEF Deliver
  <2> QED BY <1>2, <2>1, DeliverMerges, MergeCopies
<1>3. ASSUME NEW p \in Peers, RecoverySync(p) PROVE CopiesOK'
  <2>1. stores[Primary] \in [Seats -> SeatState]
    BY DEF TypeOK, Servers
  <2>2. \A s \in Seats : stores[Primary][s] \in Copies(s)
    BY CopyType
  <2>3. stores' = [stores EXCEPT ![p] = [s \in Seats |-> Merge(stores[p][s], stores[Primary][s])]]
    BY <1>3 DEF RecoverySync, CaughtUp, TypeOK, Servers
  <2>4. waiting' \subseteq waiting /\ UNCHANGED versionClock
    BY <1>3 DEF RecoverySync, CaughtUp, timerVars
  <2> QED BY <2>1, <2>2, <2>3, <2>4, MergeCopies
<1>4. CASE Reset
  <2>1. waiting' = {} /\ versionClock' = SeatCount /\ stores' = [v \in Servers |-> InitialStore]
    BY <1>4 DEF Reset
  <2> SUFFICES ASSUME NEW s \in Seats PROVE Newest(s)' /\ Agreed(s)' /\ SaleIsLast(s)'
    BY DEF CopiesOK
  <2>2. Copies(s)' = {InitialStore[s]} /\ stores'[Primary][s] = InitialStore[s]
    BY <2>1 DEF Copies, Servers
  <2>3. InitialStore[s].version = s /\ s \in Nat /\ s <= SeatCount
    BY SeatCountAssumption DEF InitialStore, Seats
  <2> QED BY <2>1, <2>2, <2>3 DEF Newest, Agreed, SaleIsLast
<1>5. CASE UNCHANGED <<stores, waiting, versionClock>>
  BY <1>5 DEF CopiesOK, Newest, Agreed, SaleIsLast, Copies
<1> QED BY <1>1, <1>2, <1>3, <1>4, <1>5 DEF Next, CleanUp, Exit, vars

-----------------------------------------------------------------------------
\* A copy that is not older than the primary's is the primary's.
LEMMA NotOlder ==
  ASSUME TypeOK, CopiesOK, NEW s \in Seats, NEW c \in Copies(s),
         c.version >= stores[Primary][s].version
  PROVE  c = stores[Primary][s]
<1>1. c \in SeatState /\ stores[Primary][s] \in SeatState /\ stores[Primary][s] \in Copies(s)
  BY CopyType
<1>2. c.version = stores[Primary][s].version
  BY <1>1 DEF CopiesOK, Newest, SeatState
<1> QED BY <1>1, <1>2 DEF CopiesOK, Agreed

\* Every step keeps the primary's present state under way to whoever lacks it.
LEMMA LagInductive ==
  QuietResets /\ TypeOK /\ CopiesOK /\ LagIsUnderWay /\ [Next]_vars => LagIsUnderWay'
<1> SUFFICES ASSUME QuietResets, TypeOK, CopiesOK, LagIsUnderWay, [Next]_vars
             PROVE  LagIsUnderWay'
  OBVIOUS
<1>0. \A p \in Peers : p \in Servers /\ p # Primary /\ Primary \in Servers
  BY ServerAssumption DEF Servers
<1>1. ASSUME NEW s \in Seats, Update(s) PROVE LagIsUnderWay'
  <2>1. PICK state \in {"locked", "reserved"}, owner \in Owners \cup {None} : Write(s, state, owner)
    BY <1>1, UpdateWrites
  <2> DEFINE update == NextState(s, state, owner)
             timers == TimersFor(s, update)
  <2>2. \A p \in Peers : \E t \in timers : t.peer = p /\ t.seat = s /\ t.update = update
    <3> SUFFICES ASSUME NEW p \in Peers
                 PROVE  \E t \in timers : t.peer = p /\ t.seat = s /\ t.update = update
      OBVIOUS
    <3>1. [era |-> era, peer |-> p, seat |-> s, update |-> update] \in timers
      BY DEF TimersFor
    <3> QED BY <3>1
  <2>3. stores' = [stores EXCEPT ![Primary][s] = update] /\ waiting' = waiting \cup timers
    BY <2>1 DEF Write
  <2> HIDE DEF update, timers
  <2>4. \A v \in Servers, r \in Seats :
          stores'[v][r] = IF v = Primary /\ r = s THEN update ELSE stores[v][r]
    BY <2>3 DEF TypeOK
  <2> QED BY <1>0, <2>2, <2>3, <2>4 DEF LagIsUnderWay
<1>2. ASSUME NEW t \in waiting, Deliver(t) PROVE LagIsUnderWay'
  <2>1. t.peer \in Peers /\ t.seat \in Seats /\ t.update \in Copies(t.seat)
    BY <1>2, DeliverMerges
  <2>2. waiting' = waiting \ {t}
    BY <1>2 DEF Deliver
  <2>3. \A v \in Servers, r \in Seats :
          stores'[v][r] = IF v = t.peer /\ r = t.seat
                          THEN Merge(stores[v][r], t.update) ELSE stores[v][r]
    BY <1>0, <1>2, <2>1 DEF Deliver, TypeOK
  <2> SUFFICES ASSUME NEW p \in Peers, NEW s \in Seats, stores'[p][s] # stores'[Primary][s]
               PROVE  \E u \in waiting' :
                        u.peer = p /\ u.seat = s /\ u.update = stores'[Primary][s]
    BY DEF LagIsUnderWay
  <2>4. stores'[Primary][s] = stores[Primary][s]
    BY <1>0, <2>1, <2>3
  <2>5. CASE p = t.peer /\ s = t.seat
    <3> DEFINE local == stores[p][s]
               present == stores[Primary][s]
    <3>1. /\ local \in Copies(s) /\ local \in SeatState /\ present \in SeatState
          /\ t.update \in SeatState
      BY <1>0, <2>1, <2>5, CopyType DEF Copies, TypeOK
    <3>2. Merge(local, t.update) # present
      BY <1>0, <2>3, <2>4, <2>5
    <3>3. t.update # present
      <4> SUFFICES ASSUME t.update = present PROVE FALSE
        OBVIOUS
      <4>1. Merge(local, present) \in Copies(s) /\ Merge(local, present).version >= present.version
        BY <3>1, MergeProperties, CopyType
      <4> QED BY <3>2, <4>1, NotOlder
    <3>4. local # present
      <4> SUFFICES ASSUME local = present PROVE FALSE
        OBVIOUS
      <4>1. t.update.version > present.version
        BY <3>1, <3>2, MergeProperties
      <4> QED BY <2>1, <2>5, <3>1, <4>1 DEF CopiesOK, Newest, SeatState
    <3> QED BY <2>2, <2>4, <3>3, <3>4 DEF LagIsUnderWay
  <2>6. CASE ~(p = t.peer /\ s = t.seat)
    <3>1. stores[p][s] # stores[Primary][s]
      BY <1>0, <2>3, <2>4, <2>6
    <3>2. PICK u \in waiting : u.peer = p /\ u.seat = s /\ u.update = stores[Primary][s]
      BY <3>1 DEF LagIsUnderWay
    <3> QED BY <2>2, <2>4, <2>6, <3>2
  <2> QED BY <2>5, <2>6
<1>3. ASSUME NEW p \in Peers, RecoverySync(p) PROVE LagIsUnderWay'
  <2>1. waiting' = waiting
    BY <1>3 DEF RecoverySync, CaughtUp, timerVars
  <2>2. \A v \in Servers, r \in Seats :
          stores'[v][r] = IF v = p THEN Merge(stores[p][r], stores[Primary][r]) ELSE stores[v][r]
    BY <1>0, <1>3 DEF RecoverySync, CaughtUp, TypeOK
  <2>3. ASSUME NEW s \in Seats PROVE Merge(stores[p][s], stores[Primary][s]) = stores[Primary][s]
    <3>1. /\ stores[p][s] \in Copies(s) /\ stores[p][s] \in SeatState
          /\ stores[Primary][s] \in Copies(s) /\ stores[Primary][s] \in SeatState
      BY <1>0, CopyType DEF Copies, TypeOK
    <3>2. /\ Merge(stores[p][s], stores[Primary][s]) \in Copies(s)
          /\ Merge(stores[p][s], stores[Primary][s]).version >= stores[Primary][s].version
      BY <3>1, MergeProperties
    <3> QED BY <3>2, NotOlder
  <2> QED BY <1>0, <2>1, <2>2, <2>3 DEF LagIsUnderWay
<1>4. CASE Reset
  BY <1>0, <1>4 DEF Reset, LagIsUnderWay
<1>5. CASE UNCHANGED <<stores, waiting>>
  BY <1>5 DEF LagIsUnderWay
<1> QED BY <1>1, <1>2, <1>3, <1>4, <1>5 DEF Next, CleanUp, Exit, vars

\* The three parts of the invariant hold together.
LEMMA ReplicationInductive == QuietResets /\ IInv /\ [Next]_vars => IInv'
BY ReplicationType, CopiesInductive, LagInductive DEF IInv

-----------------------------------------------------------------------------
\* No step but a reset takes a server back: a merge prefers the newer copy, and
\* there is none newer than a sale.
LEMMA NoRegressionStep ==
  ASSUME IInv, [Next]_vars, era' = era, NEW v \in Servers, NEW s \in Seats
  PROVE  /\ stores'[v][s].version >= stores[v][s].version
         /\ stores[v][s].state = "reserved" => stores'[v][s] = stores[v][s]
<1> USE DEF IInv
<1>0. /\ stores[v][s] \in SeatState /\ stores[v][s] \in Copies(s)
      /\ stores[v][s].version \in Nat /\ Primary \in Servers
  BY DEF TypeOK, Copies, SeatState, Servers
<1>1. ASSUME NEW r \in Seats, Update(r)
      PROVE  /\ stores'[v][s].version >= stores[v][s].version
             /\ stores[v][s].state = "reserved" => stores'[v][s] = stores[v][s]
  <2>0. stores[Primary][r].state # "reserved"
    BY <1>1, UpdateWrites
  <2>1. PICK state \in {"locked", "reserved"}, owner \in Owners \cup {None} : Write(r, state, owner)
    BY <1>1, UpdateWrites
  <2>2. stores' = [stores EXCEPT ![Primary][r] = NextState(r, state, owner)]
    BY <2>1 DEF Write
  <2>3. CASE v = Primary /\ s = r
    <3>1. stores'[v][s] = NextState(r, state, owner)
      BY <1>0, <2>2, <2>3 DEF TypeOK
    <3>2. NextState(r, state, owner).version = versionClock + 1
      BY DEF NextState
    <3>3. stores[v][s].version <= versionClock /\ versionClock \in Nat
      BY <2>3 DEF CopiesOK, Newest, TypeOK
    <3> QED BY <1>0, <2>0, <2>3, <3>1, <3>2, <3>3
  <2>4. CASE ~(v = Primary /\ s = r)
    <3>1. stores'[v][s] = stores[v][s]
      BY <1>0, <2>2, <2>4 DEF TypeOK
    <3> QED BY <1>0, <3>1
  <2> QED BY <2>3, <2>4
<1>2. ASSUME NEW update \in Copies(s), stores'[v][s] = Merge(stores[v][s], update)
      PROVE  /\ stores'[v][s].version >= stores[v][s].version
             /\ stores[v][s].state = "reserved" => stores'[v][s] = stores[v][s]
  <2>1. update \in SeatState /\ stores[Primary][s] \in SeatState
    BY CopyType
  <2>2. stores'[v][s].version >= stores[v][s].version
    BY <1>0, <1>2, <2>1, MergeProperties
  <2>3. ASSUME stores[v][s].state = "reserved" PROVE ~(update.version > stores[v][s].version)
    <3>1. stores[v][s] = stores[Primary][s]
      BY <1>0, <2>3 DEF CopiesOK, SaleIsLast
    <3> QED BY <2>1, <3>1 DEF CopiesOK, Newest, SeatState
  <2> QED BY <1>0, <1>2, <2>1, <2>2, <2>3, MergeProperties
<1>3. ASSUME stores'[v][s] = stores[v][s]
      PROVE  /\ stores'[v][s].version >= stores[v][s].version
             /\ stores[v][s].state = "reserved" => stores'[v][s] = stores[v][s]
  BY <1>0, <1>3
<1>4. ASSUME NEW t \in waiting, Deliver(t)
      PROVE  \/ stores'[v][s] = stores[v][s]
             \/ \E update \in Copies(s) : stores'[v][s] = Merge(stores[v][s], update)
  <2>1. t.peer \in Servers /\ t.seat \in Seats /\ t.update \in Copies(t.seat)
    BY <1>4, DeliverMerges DEF Servers
  <2> QED BY <1>4, <2>1 DEF Deliver, TypeOK
<1>5. ASSUME NEW p \in Peers, RecoverySync(p)
      PROVE  \/ stores'[v][s] = stores[v][s]
             \/ \E update \in Copies(s) : stores'[v][s] = Merge(stores[v][s], update)
  <2>1. stores[Primary][s] \in Copies(s) /\ p \in Servers
    BY CopyType DEF Servers
  <2> QED BY <1>5, <2>1 DEF RecoverySync, CaughtUp, TypeOK
<1>6. ~Reset
  BY DEF Reset, TypeOK
<1> QED BY <1>1, <1>2, <1>3, <1>4, <1>5, <1>6 DEF Next, CleanUp, Exit, vars

-----------------------------------------------------------------------------
\* Wherever a peer differs from the primary, the primary's present version is
\* on its way: LagIsUnderWay is invariant.
THEOREM ReplicationLag == ASSUME QuietResets PROVE Spec => [](TypeOK /\ LagIsUnderWay)
<1>1. Init => IInv
  BY ReplicationInitial
<1>2. IInv /\ [Next]_vars => IInv'
  BY ReplicationInductive
<1>3. IInv => TypeOK /\ LagIsUnderWay
  BY DEF IInv
<1> QED BY <1>1, <1>2, <1>3, PTL DEF Spec

\* Once every update is delivered all replicas are the primary's: what is left of
\* ReplicasConverge to the fairness of the timers is that this comes about.
THEOREM ReplicationSettles ==
  ASSUME QuietResets
  PROVE  Spec => [](waiting = {} => \A p \in Peers : stores[p] = stores[Primary])
<1>1. TypeOK /\ LagIsUnderWay => (waiting = {} => \A p \in Peers : stores[p] = stores[Primary])
  <2> SUFFICES ASSUME TypeOK, LagIsUnderWay, waiting = {}, NEW p \in Peers
               PROVE  stores[p] = stores[Primary]
    OBVIOUS
  <2>1. \A s \in Seats : stores[p][s] = stores[Primary][s]
    BY DEF LagIsUnderWay
  <2>2. stores[p] \in [Seats -> SeatState] /\ stores[Primary] \in [Seats -> SeatState]
    BY DEF TypeOK, Servers
  <2> QED BY <2>1, <2>2
<1> QED BY <1>1, ReplicationLag, PTL

\* A version number names one content of a seat: VersionsAgree is invariant.
THEOREM ReplicationVersionsAgree == ASSUME QuietResets PROVE Spec => []VersionsAgree
<1>1. Init => IInv
  BY ReplicationInitial
<1>2. IInv /\ [Next]_vars => IInv'
  BY ReplicationInductive
<1>3. IInv => VersionsAgree
  BY DEF IInv, CopiesOK, Agreed, VersionsAgree
<1> QED BY <1>1, <1>2, <1>3, PTL DEF Spec

\* Between resets no server goes back to an older version, and none unsees a
\* sale: NoRegression holds of every step.
THEOREM ReplicationNoRegression == ASSUME QuietResets PROVE Spec => NoRegression
<1>1. Init => IInv
  BY ReplicationInitial
<1>2. IInv /\ [Next]_vars => IInv'
  BY ReplicationInductive
<1>3. IInv /\ [Next]_vars =>
        [era' = era => \A v \in Servers, s \in Seats :
           /\ stores'[v][s].version >= stores[v][s].version
           /\ stores[v][s].state = "reserved" => stores'[v][s] = stores[v][s]]_vars
  BY NoRegressionStep
<1> QED BY <1>1, <1>2, <1>3, PTL DEF Spec, NoRegression

-----------------------------------------------------------------------------
\* No timer is of an era to come, so a reset leaves none of the new era.
Listed == PendingCoversWaiting /\ \A t \in waiting : t.era <= era

\* Writes list the timers they start, and clean-ups spare those that wait.
LEMMA ListedInductive == TypeOK /\ Listed /\ [Next]_vars => Listed'
<1> SUFFICES ASSUME TypeOK, Listed, [Next]_vars PROVE Listed'
  OBVIOUS
<1> USE DEF Listed, PendingCoversWaiting
<1>0. era \in Nat /\ \A t \in waiting : t.era \in Nat
  BY DEF TypeOK, Timer
<1>1. ASSUME NEW s \in Seats, Update(s) PROVE Listed'
  <2>1. PICK timers \in SUBSET [era: {era}, peer: Peers, seat: Seats, update: SeatState] :
          waiting' = waiting \cup timers /\ pending' = pending \cup timers /\ era' = era
    <3>1. PICK state \in {"locked", "reserved"}, owner \in Owners \cup {None} :
            Write(s, state, owner)
      BY <1>1, UpdateWrites
    <3>2. NextState(s, state, owner) \in SeatState
      BY WriteType
    <3> QED BY <3>1, <3>2 DEF Write, TimersFor
  <2> QED BY <1>0, <2>1
<1>2. ASSUME NEW t \in waiting, Deliver(t) PROVE Listed'
  BY <1>2 DEF Deliver
<1>3. ASSUME NEW t \in delivered, CleanUp(t) PROVE Listed'
  BY <1>3 DEF CleanUp
<1>4. CASE Reset
  BY <1>0, <1>4 DEF Reset
<1>5. CASE (\E t \in ending : Exit(t)) \/ (\E p \in Peers : RecoverySync(p)) \/ UNCHANGED vars
  BY <1>5 DEF Exit, RecoverySync, timerVars, vars
<1> QED BY <1>1, <1>2, <1>3, <1>4, <1>5 DEF Next

\* The pending count misses no update that is still to be delivered, whenever
\* anybody resets: PendingCoversWaiting is invariant.
THEOREM ReplicationPending == Spec => []PendingCoversWaiting
<1>1. Init => TypeOK /\ Listed
  BY ReplicationInitial DEF IInv, Init, Listed, PendingCoversWaiting
<1>2. TypeOK /\ Listed /\ [Next]_vars => (TypeOK /\ Listed)'
  BY ReplicationType, ListedInductive
<1>3. Listed => PendingCoversWaiting
  BY DEF Listed
<1> QED BY <1>1, <1>2, <1>3, PTL DEF Spec
-----------------------------------------------------------------------------
\* What SeatBooking's part contributes: whoever waits for a step of a booking
\* has a request, and a booking that found its seat free holds the lock, so
\* that the seat is still free when its lease is taken and recorded.
SeatsTypeOK ==
  /\ clock \in Nat
  /\ seats \in [Seats -> B!Seat]
  /\ pc \in [Bookers -> {"idle", "waiting", "reserving"}]
  /\ want \in [Bookers -> B!Request \cup {None}]

Ready(b) ==
  /\ pc[b] # "idle" => want[b] \in B!Request
  /\ pc[b] = "reserving" => /\ appLock = b
                            /\ want[b].seat \in Seats
                            /\ seats[want[b].seat].state = "available"

SystemInv ==
  /\ TypeOK
  /\ SeatsTypeOK
  /\ \A b \in Bookers : Ready(b)
  /\ HeldInPrimary

-----------------------------------------------------------------------------
\* Expiry leaves a seat as it is or frees a locked one.
LEMMA ExpiryEffect ==
  ASSUME NEW s \in Seats
  PROVE  \/ B!ExpiredSeats[s] = seats[s]
         \/ seats[s].state = "locked" /\ B!ExpiredSeats[s] = B!FreeSeat
BY DEF B!ExpiredSeats

LEMMA ExpiryType ==
  ASSUME SeatsTypeOK
  PROVE  B!FreeSeat \in B!Seat /\ B!ExpiredSeats \in [Seats -> B!Seat]
<1>1. B!FreeSeat \in B!Seat
  BY DEF B!FreeSeat, B!Seat
<1> QED BY <1>1 DEF SeatsTypeOK, B!ExpiredSeats

\* A handler other than a booking runs while no booking holds the lock.
LEMMA NobodyReserves ==
  ASSUME \A b \in Bookers : Ready(b), appLock = None
  PROVE  \A b \in Bookers : pc[b] # "reserving"
BY BookerAssumption DEF Ready

\* The effect of a step of SeatBooking on a seat, as far as the stores care.
Kept(s) == seats'[s].state = seats[s].state /\ seats'[s].owner = seats[s].owner

Freed(s) == seats[s].state = "locked" /\ seats'[s].state = "available"

LEMMA SeatsOnlyEffect ==
  ASSUME SeatsTypeOK, SeatsOnly
  PROVE  \A s \in Seats : Kept(s) \/ Freed(s)
<1>1. B!FreeSeat.state = "available"
  BY DEF B!FreeSeat
<1>2. CASE UNCHANGED seats
  BY <1>2 DEF Kept
<1>3. CASE seats' = B!ExpiredSeats
  BY <1>1, <1>3, ExpiryEffect DEF Kept, Freed
<1>4. ASSUME NEW r \in Seats, B!Cancel(r) PROVE \A s \in Seats : Kept(s) \/ Freed(s)
  BY <1>1, <1>4 DEF B!Cancel, Kept, Freed, SeatsTypeOK
<1>5. ASSUME NEW r \in Seats, B!Renew(r) PROVE \A s \in Seats : Kept(s) \/ Freed(s)
  <2>1. seats' = [seats EXCEPT ![r].expires_at = clock + Ttl]
    BY <1>5 DEF B!Renew
  <2> QED BY <2>1 DEF Kept, SeatsTypeOK, B!Seat
<1> QED BY <1>2, <1>3, <1>4, <1>5
        DEF SeatsOnly, B!BookCall, B!BookRefused, B!BookRouted, B!Enter, B!BookTransient,
            B!LeaseExpired, B!Snapshot, B!Tick

\* The seat that a booking takes was available and is locked for its requester.
LEMMA BookLeasedEffect ==
  ASSUME SeatsTypeOK, NEW b \in Bookers, Ready(b), B!BookLeased(b)
  PROVE  /\ want[b].seat \in Seats /\ want[b].owner \in Owners
         /\ seats[want[b].seat].state = "available"
         /\ seats' \in [Seats -> B!Seat]
         /\ seats'[want[b].seat].state = "locked"
         /\ seats'[want[b].seat].owner = want[b].owner
         /\ \A s \in Seats \ {want[b].seat} : seats'[s] = seats[s]
<1>1. pc[b] = "reserving"
  BY DEF B!BookLeased
<1>2. want[b] \in B!Request /\ want[b].seat \in Seats /\ seats[want[b].seat].state = "available"
  BY <1>1 DEF Ready
<1>3. want[b].owner \in Owners
  BY <1>2 DEF B!Request
<1>4. PICK id \in LeaseIds : seats' = [seats EXCEPT ![want[b].seat] = B!LockedSeat(want[b], id)]
  BY DEF B!BookLeased
<1>5. PICK new : new = B!LockedSeat(want[b], id)
  OBVIOUS
<1>6. new \in B!Seat /\ new.state = "locked" /\ new.owner = want[b].owner
  <2>1. clock + Ttl \in Nat
    BY TtlAssumption DEF SeatsTypeOK
  <2> QED BY <1>3, <1>5, <2>1 DEF B!LockedSeat, B!Seat
<1>7. seats' = [seats EXCEPT ![want[b].seat] = new]
  BY <1>4, <1>5
<1> QED BY <1>2, <1>3, <1>6, <1>7 DEF SeatsTypeOK

\* The seat that is confirmed was locked and is sold to its owner.
LEMMA ConfirmEffect ==
  ASSUME SeatsTypeOK, NEW r \in Seats, B!Confirm(r)
  PROVE  /\ seats[r].state = "locked" /\ seats[r].owner \in Owners \cup {None}
         /\ seats' \in [Seats -> B!Seat]
         /\ seats'[r].state = "reserved" /\ seats'[r].owner = seats[r].owner
         /\ \A s \in Seats \ {r} : seats'[s] = seats[s]
<1>1. seats[r] \in B!Seat
  BY DEF SeatsTypeOK
<1>2. PICK new : new = [seats[r] EXCEPT !.state = "reserved", !.lease_id = None, !.expires_at = 0]
  OBVIOUS
<1>3. new = [state |-> "reserved", owner |-> seats[r].owner, lease_id |-> None, expires_at |-> 0]
  BY <1>1, <1>2 DEF B!Seat
<1>4. new \in B!Seat /\ new.state = "reserved" /\ new.owner = seats[r].owner
  BY <1>1, <1>3 DEF B!Seat
<1>5. seats' = [seats EXCEPT ![r] = new]
  BY <1>2 DEF B!Confirm, SeatsTypeOK
<1>6. seats[r].state = "locked"
  BY DEF B!Confirm
<1> QED BY <1>1, <1>4, <1>5, <1>6 DEF SeatsTypeOK, B!Seat

\* Every step keeps the seats and the bookings within their types.
LEMMA SeatsType ==
  ASSUME SeatsTypeOK, \A b \in Bookers : Ready(b), SystemNext
  PROVE  SeatsTypeOK'
<1>1. ASSUME NEW b \in Bookers, BookLeased(b) PROVE SeatsTypeOK'
  <2>1. seats' \in [Seats -> B!Seat]
    BY <1>1, BookLeasedEffect DEF BookLeased
  <2> QED BY <1>1, <2>1 DEF BookLeased, B!BookLeased, B!Return, SeatsTypeOK
<1>2. ASSUME NEW s \in Seats, Confirm(s) PROVE SeatsTypeOK'
  <2>1. seats' \in [Seats -> B!Seat]
    BY <1>2, ConfirmEffect DEF Confirm
  <2> QED BY <1>2, <2>1 DEF Confirm, B!Confirm, B!Handler, B!bookVars, SeatsTypeOK
<1>3. CASE SystemReset
  BY <1>3, ExpiryType DEF SystemReset, B!Reset, B!Handler, B!bookVars, SeatsTypeOK
<1>4. ASSUME NEW b \in Bookers, NEW request \in B!Request, B!BookCall(b, request)
      PROVE  SeatsTypeOK'
  BY <1>4 DEF B!BookCall, SeatsTypeOK
<1>5. ASSUME NEW b \in Bookers, B!BookRefused(b) \/ B!BookRouted(b) \/ B!BookTransient(b)
      PROVE  SeatsTypeOK'
  BY <1>5, ExpiryType
     DEF B!BookRefused, B!BookRouted, B!Enter, B!BookTransient, B!Return, SeatsTypeOK
<1>6. ASSUME NEW s \in Seats, B!Cancel(s) PROVE SeatsTypeOK'
  BY <1>6, ExpiryType DEF B!Cancel, B!Handler, B!bookVars, SeatsTypeOK
<1>7. ASSUME NEW s \in Seats, B!Renew(s) PROVE SeatsTypeOK'
  <2>1. clock + Ttl \in Nat
    BY TtlAssumption DEF SeatsTypeOK
  <2>2. seats' = [seats EXCEPT ![s].expires_at = clock + Ttl]
    BY <1>7 DEF B!Renew
  <2>3. seats' \in [Seats -> B!Seat]
    BY <2>1, <2>2 DEF SeatsTypeOK, B!Seat
  <2> QED BY <1>7, <2>3 DEF B!Renew, B!Handler, B!bookVars, SeatsTypeOK
<1>8. ASSUME B!Snapshot \/ B!Tick \/ \E s \in Seats : B!LeaseExpired(s) PROVE SeatsTypeOK'
  BY <1>8, ExpiryType
     DEF B!Snapshot, B!Tick, B!LeaseTick, B!LeaseExpired, B!Handler, B!bookVars, SeatsTypeOK
<1>9. CASE StoresOnly
  BY <1>9 DEF StoresOnly, seatVars, SeatsTypeOK
<1> QED BY <1>1, <1>2, <1>3, <1>4, <1>5, <1>6, <1>7, <1>8, <1>9 DEF SystemNext, SeatsOnly

\* While a booking stands between its two steps no other step touches a seat.
LEMMA ReadyInductive ==
  ASSUME SeatsTypeOK, \A b \in Bookers : Ready(b), SystemNext
  PROVE  \A b \in Bookers : Ready(b)'
<1> SUFFICES ASSUME NEW b \in Bookers PROVE Ready(b)'
  OBVIOUS
<1>1. ASSUME NEW c \in Bookers, NEW request \in B!Request, B!BookCall(c, request) PROVE Ready(b)'
  BY <1>1 DEF B!BookCall, SeatsTypeOK, Ready
<1>2. ASSUME NEW c \in Bookers, B!BookRefused(c) PROVE Ready(b)'
  <2>1. pc[b] # "reserving" /\ pc[c] # "reserving"
    BY <1>2, NobodyReserves DEF B!BookRefused, B!Enter
  <2> QED BY <1>2, <2>1 DEF B!BookRefused, B!Return, SeatsTypeOK, Ready
<1>3. ASSUME NEW c \in Bookers, B!BookRouted(c) PROVE Ready(b)'
  <2>1. pc[b] # "reserving" /\ pc[c] = "waiting"
    BY <1>3, NobodyReserves DEF B!BookRouted, B!Enter
  <2>2. /\ want[c].seat \in Seats /\ B!ExpiredSeats[want[c].seat].state = "available"
        /\ seats' = B!ExpiredSeats
    BY <1>3 DEF B!BookRouted, B!Enter, B!IsFree
  <2> QED BY <1>3, <2>1, <2>2 DEF B!BookRouted, SeatsTypeOK, Ready
<1>4. ASSUME NEW c \in Bookers, B!BookTransient(c) \/ B!BookLeased(c) PROVE Ready(b)'
  <2>1. pc[c] = "reserving" /\ (b # c => pc[b] # "reserving")
    BY <1>4 DEF B!BookTransient, B!BookLeased, Ready
  <2> QED BY <1>4, <2>1 DEF B!BookTransient, B!BookLeased, B!Return, SeatsTypeOK, Ready
<1>5. ASSUME B!Handler PROVE Ready(b)'
  <2>1. pc[b] # "reserving"
    BY <1>5, NobodyReserves DEF B!Handler
  <2> QED BY <1>5, <2>1 DEF B!Handler, B!bookVars, Ready
<1>6. ASSUME UNCHANGED <<seats, appLock, pc, want>> PROVE Ready(b)'
  BY <1>6 DEF Ready
<1> QED BY <1>1, <1>2, <1>3, <1>4, <1>5, <1>6
        DEF SystemNext, BookLeased, Confirm, B!Confirm, SystemReset, B!Reset, SeatsOnly,
            B!Cancel, B!Renew, B!LeaseExpired, B!Snapshot, B!Tick, B!bookVars, StoresOnly, seatVars

-----------------------------------------------------------------------------
\* What the dashboard writes into the stores SeatReplication allows: a seat that
\* is not sold in the store is locked, and one locked there is sold to its owner.
LEMMA BookLeasedUpdates ==
  ASSUME SystemInv, NEW b \in Bookers, BookLeased(b)
  PROVE  Update(want[b].seat)
<1>1. /\ want[b].seat \in Seats /\ want[b].owner \in Owners
      /\ seats[want[b].seat].state = "available"
  BY BookLeasedEffect DEF SystemInv, BookLeased
<1>2. stores[Primary][want[b].seat].state # "reserved"
  BY <1>1 DEF SystemInv, HeldInPrimary
<1> QED BY <1>1, <1>2 DEF Update, BookLeased, RecordLock

LEMMA ConfirmUpdates ==
  ASSUME SystemInv, NEW s \in Seats, Confirm(s)
  PROVE  Update(s)
<1>1. seats[s].state = "locked"
  BY ConfirmEffect DEF SystemInv, Confirm
<1>2. stores[Primary][s].state = "locked" /\ stores[Primary][s].owner = seats[s].owner
  BY <1>1 DEF SystemInv, HeldInPrimary
<1> QED BY <1>2 DEF Update, Confirm, RecordSale

LEMMA DrivesReplicationStep == SystemInv /\ [SystemNext]_systemVars => [Next]_vars
<1> SUFFICES ASSUME SystemInv, [SystemNext]_systemVars PROVE [Next]_vars
  OBVIOUS
<1>1. ASSUME NEW b \in Bookers, BookLeased(b) PROVE Next
  <2>1. want[b].seat \in Seats
    BY <1>1, BookLeasedEffect DEF SystemInv, BookLeased
  <2> QED BY <1>1, <2>1, BookLeasedUpdates DEF Next
<1>2. ASSUME NEW s \in Seats, Confirm(s) PROVE Next
  BY <1>2, ConfirmUpdates DEF Next
<1>3. CASE SystemReset
  BY <1>3 DEF SystemReset, Next
<1>4. CASE StoresOnly
  BY <1>4 DEF StoresOnly, DeliverStray, SyncStray, Next
<1>5. CASE SeatsOnly \/ UNCHANGED systemVars
  BY <1>5 DEF SeatsOnly, systemVars
<1> QED BY <1>1, <1>2, <1>3, <1>4, <1>5 DEF SystemNext

-----------------------------------------------------------------------------
\* The primary's copy of one seat is written and the others are left alone.
LEMMA WriteEffect ==
  ASSUME TypeOK, NEW s \in Seats, NEW state \in {"locked", "reserved"},
         NEW owner \in Owners \cup {None}, Write(s, state, owner)
  PROVE  /\ stores'[Primary][s].state = state /\ stores'[Primary][s].owner = owner
         /\ \A r \in Seats \ {s} : stores'[Primary][r] = stores[Primary][r]
<1>1. PICK update : update = NextState(s, state, owner)
  OBVIOUS
<1>2. update.state = state /\ update.owner = owner
  BY <1>1 DEF NextState
<1>3. stores' = [stores EXCEPT ![Primary][s] = update]
  BY <1>1 DEF Write
<1> QED BY <1>2, <1>3 DEF TypeOK, Servers

\* Replication's own steps write to the peers only; a recovery sync finds
\* nothing newer in the primary than in itself.
LEMMA PrimaryUntouched ==
  ASSUME TypeOK, StoresOnly
  PROVE  stores'[Primary] = stores[Primary]
<1>0. \A p \in Peers : p \in Servers /\ p # Primary /\ Primary \in Servers
  BY ServerAssumption DEF Servers
<1>1. ASSUME NEW t \in waiting, Deliver(t) PROVE stores'[Primary] = stores[Primary]
  <2>1. t.peer \in Peers
    BY DEF TypeOK, Timer
  <2> QED BY <1>0, <1>1, <2>1 DEF Deliver, TypeOK
<1>2. ASSUME NEW p \in Peers, RecoverySync(p) PROVE stores'[Primary] = stores[Primary]
  BY <1>0, <1>2 DEF RecoverySync, TypeOK
<1> QED BY <1>1, <1>2 DEF StoresOnly, DeliverStray, SyncStray, CleanUp, Exit

\* Every step keeps what is held in the dashboard held in the primary's store.
LEMMA HeldInductive == SystemInv /\ [SystemNext]_systemVars => HeldInPrimary'
<1> SUFFICES ASSUME SystemInv, [SystemNext]_systemVars PROVE HeldInPrimary'
  OBVIOUS
<1> USE DEF SystemInv
<1> DEFINE Held(s) ==
             /\ seats[s].state # "available" =>
                  /\ stores[Primary][s].state = seats[s].state
                  /\ stores[Primary][s].owner = seats[s].owner
             /\ stores[Primary][s].state = "reserved" => seats[s].state = "reserved"
<1>0. \A s \in Seats : Held(s)
  BY DEF HeldInPrimary
<1>1. ASSUME NEW b \in Bookers, BookLeased(b), NEW s \in Seats PROVE Held(s)'
  <2>1. B!BookLeased(b) /\ Write(want[b].seat, "locked", want[b].owner)
    BY <1>1 DEF BookLeased, RecordLock
  <2>2. /\ want[b].seat \in Seats /\ want[b].owner \in Owners
        /\ seats'[want[b].seat].state = "locked"
        /\ seats'[want[b].seat].owner = want[b].owner
        /\ s # want[b].seat => seats'[s] = seats[s]
    BY <2>1, BookLeasedEffect
  <2>3. /\ stores'[Primary][want[b].seat].state = "locked"
        /\ stores'[Primary][want[b].seat].owner = want[b].owner
        /\ s # want[b].seat => stores'[Primary][s] = stores[Primary][s]
    BY <2>1, <2>2, WriteEffect
  <2> QED BY <1>0, <2>2, <2>3
<1>2. ASSUME NEW r \in Seats, Confirm(r), NEW s \in Seats PROVE Held(s)'
  <2>1. B!Confirm(r) /\ Write(r, "reserved", seats[r].owner)
    BY <1>2 DEF Confirm, RecordSale
  <2>2. /\ seats[r].owner \in Owners \cup {None}
        /\ seats'[r].state = "reserved" /\ seats'[r].owner = seats[r].owner
        /\ s # r => seats'[s] = seats[s]
    BY <2>1, ConfirmEffect
  <2>3. /\ stores'[Primary][r].state = "reserved"
        /\ stores'[Primary][r].owner = seats[r].owner
        /\ s # r => stores'[Primary][s] = stores[Primary][s]
    BY <2>1, <2>2, WriteEffect
  <2> QED BY <1>0, <2>2, <2>3
<1>3. ASSUME SystemReset, NEW s \in Seats PROVE Held(s)'
  <2>1. seats'[s].state = "available"
    BY <1>3 DEF SystemReset, B!Reset, B!FreeSeat
  <2>2. stores'[Primary][s].state = "available"
    BY <1>3 DEF SystemReset, Reset, InitialStore, Servers
  <2> QED BY <2>1, <2>2
<1>4. ASSUME SeatsOnly, NEW s \in Seats PROVE Held(s)'
  <2>1. stores' = stores
    BY <1>4 DEF SeatsOnly, vars
  <2>2. Kept(s) \/ Freed(s)
    BY <1>4, SeatsOnlyEffect
  <2> QED BY <1>0, <2>1, <2>2 DEF Kept, Freed
<1>5. ASSUME StoresOnly, NEW s \in Seats PROVE Held(s)'
  <2>1. seats' = seats
    BY <1>5 DEF StoresOnly, seatVars
  <2>2. stores'[Primary] = stores[Primary]
    BY <1>5, PrimaryUntouched
  <2> QED BY <1>0, <2>1, <2>2
<1>6. ASSUME UNCHANGED systemVars, NEW s \in Seats PROVE Held(s)'
  BY <1>0, <1>6 DEF systemVars, seatVars, vars
<1>7. \A s \in Seats : Held(s)'
  BY <1>1, <1>2, <1>3, <1>4, <1>5, <1>6 DEF SystemNext
<1> QED BY <1>7 DEF HeldInPrimary

LEMMA SystemInitial == SystemInit => SystemInv
<1> SUFFICES ASSUME SystemInit PROVE SystemInv
  OBVIOUS
<1>1. TypeOK
  BY ReplicationInitial DEF SystemInit, IInv
<1>2. /\ clock = 0 /\ seats = [s \in Seats |-> B!FreeSeat]
      /\ pc = [b \in Bookers |-> "idle"] /\ want = [b \in Bookers |-> None]
  BY DEF SystemInit, B!Init, B!LeaseInit
<1>3. B!FreeSeat \in B!Seat /\ B!FreeSeat.state = "available"
  BY DEF B!FreeSeat, B!Seat
<1>4. SeatsTypeOK /\ \A b \in Bookers : Ready(b)
  BY <1>2, <1>3 DEF SeatsTypeOK, Ready
<1>5. ASSUME NEW s \in Seats PROVE stores[Primary][s].state = "available"
  BY DEF SystemInit, Init, InitialStore, Servers
<1>6. HeldInPrimary
  BY <1>2, <1>3, <1>5 DEF HeldInPrimary
<1> QED BY <1>1, <1>4, <1>6 DEF SystemInv

LEMMA SystemInductive == SystemInv /\ [SystemNext]_systemVars => SystemInv'
<1> SUFFICES ASSUME SystemInv, [SystemNext]_systemVars PROVE SystemInv'
  OBVIOUS
<1>1. TypeOK'
  BY DrivesReplicationStep, ReplicationType DEF SystemInv
<1>2. SeatsTypeOK' /\ \A b \in Bookers : Ready(b)'
  <2>1. CASE SystemNext
    BY <2>1, SeatsType, ReadyInductive DEF SystemInv
  <2>2. CASE UNCHANGED systemVars
    BY <2>2 DEF SystemInv, systemVars, seatVars, SeatsTypeOK, Ready
  <2> QED BY <2>1, <2>2
<1>3. HeldInPrimary'
  BY HeldInductive
<1> QED BY <1>1, <1>2, <1>3 DEF SystemInv

-----------------------------------------------------------------------------
\* A held seat is held in the primary's store, whoever resets and when:
\* HeldInPrimary is invariant.
THEOREM SystemHeldInPrimary == SystemSpec => []HeldInPrimary
<1>1. SystemInv => HeldInPrimary
  BY DEF SystemInv
<1> QED BY <1>1, SystemInitial, SystemInductive, PTL DEF SystemSpec

\* The dashboard drives the stores only in the ways SeatReplication allows:
\* DrivesReplication holds of every behaviour.
THEOREM SystemDrivesReplication == SystemSpec => DrivesReplication
<1>1. SystemInit => Init
  BY DEF SystemInit
<1> QED BY <1>1, SystemInitial, SystemInductive, DrivesReplicationStep, PTL
        DEF SystemSpec, DrivesReplication, Spec

\* The seats behave as SeatBooking says, so that what is proved of them there
\* holds beside the stores as well.
THEOREM SystemDrivesSeats == SystemSpec => B!Spec
<1>1. SystemInit => B!Init
  BY DEF SystemInit
<1>2. [SystemNext]_systemVars => [B!Next]_(B!vars)
  BY DEF SystemNext, BookLeased, Confirm, SystemReset, SeatsOnly, StoresOnly, systemVars,
         seatVars, B!Next, B!Booking, B!SeatRequest, B!vars, B!leaseVars, B!bookVars
<1> QED BY <1>1, <1>2, PTL DEF SystemSpec, B!Spec

-----------------------------------------------------------------------------
\* The copies of a seat that were not brought from an earlier era.
Today(s) ==
  {stores[Primary][s]}
    \cup {stores[p][s] : p \in {q \in Peers : <<q, s>> \notin stray}}
    \cup {t.update : t \in {u \in waiting : u.seat = s /\ u.era = era}}

UpToDate(s) ==
  /\ stores[Primary][s].version <= versionClock
  /\ \A c \in Today(s) :
       /\ c.version <= stores[Primary][s].version
       /\ c.version = stores[Primary][s].version \/ c.state = "reserved" =>
            c = stores[Primary][s]

OnItsWay ==
  \A p \in Peers, s \in Seats : stores[p][s].version < stores[Primary][s].version =>
    \E t \in waiting : t.peer = p /\ t.seat = s /\ t.update = stores[Primary][s]

TodayInv == SystemInv /\ Listed /\ (\A s \in Seats : UpToDate(s)) /\ OnItsWay

-----------------------------------------------------------------------------
\* Every copy of today is a seat's state, the primary's among them.
LEMMA TodayType ==
  ASSUME TypeOK, NEW s \in Seats
  PROVE  /\ Today(s) \subseteq SeatState /\ stores[Primary][s] \in Today(s)
         /\ stores[Primary][s] \in SeatState
         /\ \A c \in Today(s) : c.version \in Nat
<1>1. \A v \in Servers : stores[v][s] \in SeatState
  BY DEF TypeOK
<1>2. \A t \in waiting : t.update \in SeatState
  BY DEF TypeOK, Timer
<1>3. Today(s) \subseteq SeatState /\ stores[Primary][s] \in Today(s)
  BY <1>1, <1>2 DEF Today, Servers
<1> QED BY <1>1, <1>3 DEF Servers, SeatState

\* The first store numbers the seats.
LEMMA InitialVersions == \A s \in Seats : InitialStore[s].version = s /\ s \in Nat /\ s <= SeatCount
BY SeatCountAssumption DEF InitialStore, Seats

\* Right after the stores were built all copies of today are the first ones.
LEMMA TodayFresh ==
  ASSUME stores' = [v \in Servers |-> InitialStore], versionClock' = SeatCount,
         \A t \in waiting' : t.era # era'
  PROVE  (\A s \in Seats : UpToDate(s)') /\ OnItsWay'
<1>1. \A v \in Servers, s \in Seats : stores'[v][s] = InitialStore[s]
  OBVIOUS
<1>2. Primary \in Servers /\ Peers \subseteq Servers
  BY DEF Servers
<1>3. ASSUME NEW s \in Seats PROVE UpToDate(s)'
  <2>1. Today(s)' = {stores'[Primary][s]}
    BY <1>1, <1>2 DEF Today
  <2>2. stores'[Primary][s].version = s /\ s \in Nat /\ s <= SeatCount
    BY <1>1, <1>2, InitialVersions
  <2> QED BY <2>1, <2>2 DEF UpToDate
<1>4. OnItsWay'
  <2>1. \A p \in Peers, s \in Seats : stores'[p][s] = stores'[Primary][s]
    BY <1>1, <1>2
  <2>2. \A s \in Seats : stores'[Primary][s].version \in Nat
    BY <1>1, InitialVersions DEF Servers
  <2> QED BY <2>1, <2>2 DEF OnItsWay
<1> QED BY <1>3, <1>4

\* A seat whose primary copy stays and that gets no new copy stays up to date.
LEMMA FewerToday ==
  ASSUME TypeOK, NEW s \in Seats, UpToDate(s), Today(s)' \subseteq Today(s),
         stores'[Primary][s] = stores[Primary][s],
         versionClock' >= versionClock, versionClock' \in Nat
  PROVE  UpToDate(s)'
<1>1. stores[Primary][s].version \in Nat /\ versionClock \in Nat
  BY TodayType DEF TypeOK
<1> QED BY <1>1 DEF UpToDate

\* A write makes one new copy, of the version the clock goes to, and sends it to
\* every peer; nothing is written after a sale.
LEMMA TodayWrite ==
  ASSUME TodayInv, NEW s \in Seats, Update(s), UNCHANGED stray
  PROVE  (\A r \in Seats : UpToDate(r)') /\ OnItsWay'
<1> USE DEF TodayInv, SystemInv
<1>0. stores[Primary][s].state # "reserved"
  BY UpdateWrites
<1>1. PICK state \in {"locked", "reserved"}, owner \in Owners \cup {None} : Write(s, state, owner)
  BY UpdateWrites
<1> DEFINE update == NextState(s, state, owner)
           timers == TimersFor(s, update)
<1>2. /\ update \in SeatState /\ update.version = versionClock + 1
      /\ \A t \in timers : t.seat = s /\ t.update = update
  BY WriteType DEF NextState, TimersFor
<1>3. \A p \in Peers : \E t \in timers : t.peer = p /\ t.seat = s /\ t.update = update
  <2> SUFFICES ASSUME NEW p \in Peers
               PROVE  \E t \in timers : t.peer = p /\ t.seat = s /\ t.update = update
    OBVIOUS
  <2>1. [era |-> era, peer |-> p, seat |-> s, update |-> update] \in timers
    BY DEF TimersFor
  <2> QED BY <2>1
<1>4. /\ stores' = [stores EXCEPT ![Primary][s] = update]
      /\ versionClock' = versionClock + 1 /\ waiting' = waiting \cup timers /\ era' = era
  BY <1>1 DEF Write
<1> HIDE DEF update, timers
<1>5. versionClock \in Nat /\ versionClock' \in Nat /\ versionClock' >= versionClock
  BY <1>4 DEF TypeOK
<1>6. \A v \in Servers, r \in Seats :
        stores'[v][r] = IF v = Primary /\ r = s THEN update ELSE stores[v][r]
  BY <1>4 DEF TypeOK
<1>7. \A p \in Peers : p \in Servers /\ p # Primary /\ Primary \in Servers
  BY ServerAssumption DEF Servers
<1>8. ASSUME NEW r \in Seats, r # s PROVE UpToDate(r)'
  <2>1. Today(r)' \subseteq Today(r)
    BY <1>2, <1>4, <1>6, <1>7, <1>8 DEF Today
  <2>2. stores'[Primary][r] = stores[Primary][r]
    BY <1>6, <1>7, <1>8 DEF Servers
  <2> QED BY <1>5, <2>1, <2>2, FewerToday
<1>9. Today(s)' \subseteq Today(s) \cup {update}
  <2>1. stores'[Primary][s] = update /\ \A p \in Peers : stores'[p][s] = stores[p][s]
    BY <1>6, <1>7 DEF Servers
  <2>2. \A t \in waiting' : t \in waiting \/ t.update = update
    BY <1>2, <1>4
  <2> QED BY <1>4, <2>1, <2>2 DEF Today
<1>10. stores'[Primary][s] = update
  BY <1>6 DEF Servers
<1>11. \A c \in Today(s) : c.version \in Nat /\ c.version <= versionClock /\ c.state # "reserved"
  <2>1. stores[Primary][s].version \in Nat /\ \A c \in Today(s) : c.version \in Nat
    BY TodayType
  <2> QED BY <1>0, <1>5, <2>1 DEF UpToDate
<1>12. UpToDate(s)'
  BY <1>2, <1>4, <1>5, <1>9, <1>10, <1>11 DEF UpToDate
<1>13. OnItsWay'
  BY <1>3, <1>4, <1>6, <1>7 DEF OnItsWay
<1> QED BY <1>8, <1>12, <1>13

-----------------------------------------------------------------------------
\* A delivery leaves a copy that is stray, or one of today.
LEMMA TodayDeliver ==
  ASSUME TodayInv, NEW t \in waiting, DeliverStray(t)
  PROVE  (\A s \in Seats : UpToDate(s)') /\ OnItsWay'
<1> USE DEF TodayInv, SystemInv
<1>0. \A p \in Peers : p \in Servers /\ p # Primary /\ Primary \in Servers
  BY ServerAssumption DEF Servers
<1>1. t.peer \in Peers /\ t.seat \in Seats /\ t.update \in SeatState
  BY DEF TypeOK, Timer
<1>2. waiting' = waiting \ {t} /\ UNCHANGED <<versionClock, era>>
  BY DEF DeliverStray, Deliver
<1> DEFINE old == stores[t.peer][t.seat]
           new == Merge(old, t.update)
<1>3. \A v \in Servers, s \in Seats :
        stores'[v][s] = IF v = t.peer /\ s = t.seat THEN new ELSE stores[v][s]
  BY <1>0, <1>1 DEF DeliverStray, Deliver, TypeOK
<1>4. old \in SeatState /\ new \in {old, t.update}
      /\ new.version >= old.version /\ new.version >= t.update.version
  BY <1>0, <1>1, MergeProperties DEF TypeOK
<1>5. ASSUME <<t.peer, t.seat>> \notin stray' PROVE new \in Today(t.seat)
  <2>1. CASE stores' = stores
    <3>1. new = old /\ <<t.peer, t.seat>> \notin stray
      BY <1>0, <1>1, <1>3, <1>5, <2>1 DEF DeliverStray
    <3> QED BY <1>1, <3>1 DEF Today
  <2>2. CASE stores' # stores
    <3>1. t.era = era
      BY <1>5, <2>2 DEF DeliverStray
    <3>2. t.update \in Today(t.seat)
      BY <3>1 DEF Today
    <3>3. ASSUME new = old PROVE FALSE
      <4>1. stores' = stores
        BY <1>0, <1>1, <3>3 DEF DeliverStray, Deliver, TypeOK
      <4> QED BY <2>2, <4>1
    <3> QED BY <1>4, <3>2, <3>3
  <2> QED BY <2>1, <2>2
<1>6. \A p \in Peers, s \in Seats :
        ~(p = t.peer /\ s = t.seat) /\ <<p, s>> \notin stray' => <<p, s>> \notin stray
  BY DEF DeliverStray
<1> HIDE DEF old, new
<1>7. ASSUME NEW s \in Seats PROVE UpToDate(s)'
  <2>1. stores'[Primary][s] = stores[Primary][s]
    BY <1>0, <1>1, <1>3
  <2>2. ASSUME NEW p \in Peers, <<p, s>> \notin stray' PROVE stores'[p][s] \in Today(s)
    <3>1. CASE p = t.peer /\ s = t.seat
      BY <1>0, <1>3, <1>5, <2>2, <3>1
    <3>2. CASE ~(p = t.peer /\ s = t.seat)
      <4>1. stores'[p][s] = stores[p][s] /\ <<p, s>> \notin stray
        BY <1>0, <1>3, <1>6, <2>2, <3>2
      <4> QED BY <4>1 DEF Today
    <3> QED BY <3>1, <3>2
  <2>3. Today(s)' \subseteq Today(s)
    BY <1>2, <2>1, <2>2 DEF Today
  <2> QED BY <1>2, <2>1, <2>3, FewerToday DEF TypeOK
<1>8. OnItsWay'
  <2> SUFFICES ASSUME NEW p \in Peers, NEW s \in Seats,
                      stores'[p][s].version < stores'[Primary][s].version
               PROVE  \E u \in waiting' : u.peer = p /\ u.seat = s /\ u.update = stores'[Primary][s]
    BY DEF OnItsWay
  <2>1. stores'[Primary][s] = stores[Primary][s]
    BY <1>0, <1>1, <1>3
  <2>2. stores[p][s].version \in Nat /\ stores[Primary][s].version \in Nat
    BY <1>0 DEF TypeOK, SeatState
  <2>3. CASE p = t.peer /\ s = t.seat
    <3>1. stores'[p][s] = new /\ old = stores[p][s]
      BY <1>0, <1>3, <2>3 DEF old
    <3>2. new.version \in Nat /\ t.update.version \in Nat
      BY <1>1, <1>4 DEF SeatState
    <3>3. stores[p][s].version < stores[Primary][s].version /\ t.update # stores[Primary][s]
      BY <1>4, <2>1, <2>2, <3>1, <3>2
    <3> QED BY <1>2, <2>1, <3>3 DEF OnItsWay
  <2>4. CASE ~(p = t.peer /\ s = t.seat)
    <3>1. stores[p][s].version < stores[Primary][s].version
      BY <1>0, <1>3, <2>1, <2>4
    <3>2. PICK u \in waiting : u.peer = p /\ u.seat = s /\ u.update = stores[Primary][s]
      BY <3>1 DEF OnItsWay
    <3> QED BY <1>2, <2>1, <2>4, <3>2
  <2> QED BY <2>3, <2>4
<1> QED BY <1>7, <1>8

\* A recovery sync brings what the primary has now, or leaves a newer copy.
LEMMA TodaySync ==
  ASSUME TodayInv, NEW p \in Peers, SyncStray(p)
  PROVE  (\A s \in Seats : UpToDate(s)') /\ OnItsWay'
<1> USE DEF TodayInv, SystemInv
<1>0. \A q \in Peers : q \in Servers /\ q # Primary /\ Primary \in Servers
  BY ServerAssumption DEF Servers
<1>1. UNCHANGED <<versionClock, era, waiting>>
  BY DEF SyncStray, RecoverySync, timerVars
<1>2. \A v \in Servers, s \in Seats :
        stores'[v][s] = IF v = p THEN Merge(stores[p][s], stores[Primary][s]) ELSE stores[v][s]
  BY <1>0 DEF SyncStray, RecoverySync, CaughtUp, TypeOK
<1>3. ASSUME NEW s \in Seats
      PROVE  /\ stores'[p][s] \in {stores[p][s], stores[Primary][s]}
             /\ stores'[p][s].version >= stores[Primary][s].version
             /\ stores'[p][s].version \in Nat
  <2>1. stores[p][s] \in SeatState /\ stores[Primary][s] \in SeatState
    BY <1>0 DEF TypeOK
  <2> QED BY <1>0, <1>2, <2>1, MergeProperties DEF SeatState
<1>4. \A q \in Peers, s \in Seats :
        <<q, s>> \in stray => <<q, s>> \in stray' \/ (q = p /\ stores'[p][s] # stores[p][s])
  BY DEF SyncStray
<1>5. ASSUME NEW s \in Seats PROVE UpToDate(s)'
  <2>1. stores'[Primary][s] = stores[Primary][s]
    BY <1>0, <1>2
  <2>2. ASSUME NEW q \in Peers, <<q, s>> \notin stray' PROVE stores'[q][s] \in Today(s)
    <3>1. CASE stores'[q][s] = stores[q][s]
      BY <1>4, <2>2, <3>1 DEF Today
    <3>2. CASE stores'[q][s] # stores[q][s]
      <4>1. q = p /\ stores'[p][s] = stores[Primary][s]
        BY <1>0, <1>2, <1>3, <3>2
      <4> QED BY <4>1 DEF Today
    <3> QED BY <3>1, <3>2
  <2>3. Today(s)' \subseteq Today(s)
    BY <1>1, <2>1, <2>2 DEF Today
  <2> QED BY <1>1, <2>1, <2>3, FewerToday DEF TypeOK
<1>6. OnItsWay'
  <2> SUFFICES ASSUME NEW q \in Peers, NEW s \in Seats,
                      stores'[q][s].version < stores'[Primary][s].version
               PROVE  \E u \in waiting' : u.peer = q /\ u.seat = s /\ u.update = stores'[Primary][s]
    BY DEF OnItsWay
  <2>1. stores'[Primary][s] = stores[Primary][s] /\ stores[Primary][s].version \in Nat
    BY <1>0, <1>2 DEF TypeOK, SeatState
  <2>2. q # p
    BY <1>3, <2>1
  <2>3. stores'[q][s] = stores[q][s]
    BY <1>0, <1>2, <2>2
  <2> QED BY <1>1, <2>1, <2>3 DEF OnItsWay
<1> QED BY <1>5, <1>6

-----------------------------------------------------------------------------
\* At the start all copies are the first ones, and none is under way.
LEMMA TodayInitial == SystemInit => TodayInv
<1> SUFFICES ASSUME SystemInit PROVE TodayInv
  OBVIOUS
<1>1. stores = [v \in Servers |-> InitialStore] /\ versionClock = SeatCount /\ waiting = {}
  BY DEF SystemInit, Init
<1>2. \A v \in Servers, s \in Seats : stores[v][s] = InitialStore[s]
  BY <1>1
<1>3. Primary \in Servers /\ Peers \subseteq Servers
  BY DEF Servers
<1>4. ASSUME NEW s \in Seats PROVE UpToDate(s)
  <2>1. Today(s) = {stores[Primary][s]}
    BY <1>1, <1>2, <1>3 DEF Today
  <2>2. stores[Primary][s].version = s /\ s \in Nat /\ s <= SeatCount
    BY <1>2, <1>3, InitialVersions
  <2> QED BY <1>1, <2>1, <2>2 DEF UpToDate
<1>5. OnItsWay
  <2>1. \A p \in Peers, s \in Seats : stores[p][s] = stores[Primary][s]
    BY <1>2, <1>3
  <2>2. \A s \in Seats : stores[Primary][s].version \in Nat
    BY <1>2, InitialVersions DEF Servers
  <2> QED BY <2>1, <2>2 DEF OnItsWay
<1>6. Listed
  BY <1>1 DEF Listed, PendingCoversWaiting
<1> QED BY <1>4, <1>5, <1>6, SystemInitial DEF TodayInv

\* Every step keeps the copies of today up to date; a reset leaves none but its own.
LEMMA TodayInductive == TodayInv /\ [SystemNext]_systemVars => TodayInv'
<1> SUFFICES ASSUME TodayInv, [SystemNext]_systemVars PROVE TodayInv'
  OBVIOUS
<1>1. SystemInv /\ SystemInv' /\ [Next]_vars
  BY SystemInductive, DrivesReplicationStep DEF TodayInv
<1>2. Listed'
  BY <1>1, ListedInductive DEF TodayInv, SystemInv
<1>3. ASSUME NEW b \in Bookers, BookLeased(b) PROVE (\A s \in Seats : UpToDate(s)') /\ OnItsWay'
  <2>1. want[b].seat \in Seats /\ UNCHANGED stray
    BY <1>1, <1>3, BookLeasedEffect DEF SystemInv, BookLeased
  <2> QED BY <1>1, <1>3, <2>1, BookLeasedUpdates, TodayWrite
<1>4. ASSUME NEW s \in Seats, Confirm(s) PROVE (\A r \in Seats : UpToDate(r)') /\ OnItsWay'
  <2>1. UNCHANGED stray
    BY <1>4 DEF Confirm
  <2> QED BY <1>1, <1>4, <2>1, ConfirmUpdates, TodayWrite
<1>5. ASSUME SystemReset PROVE (\A s \in Seats : UpToDate(s)') /\ OnItsWay'
  <2>1. /\ stores' = [v \in Servers |-> InitialStore] /\ versionClock' = SeatCount
        /\ era' = era + 1 /\ waiting' = waiting
    BY <1>5 DEF SystemReset, Reset
  <2>2. \A t \in waiting' : t.era # era'
    <3>1. era \in Nat /\ \A t \in waiting : t.era \in Nat /\ t.era <= era
      BY <1>1 DEF TodayInv, SystemInv, Listed, TypeOK, Timer
    <3> QED BY <2>1, <3>1
  <2> QED BY <2>1, <2>2, TodayFresh
<1>6. ASSUME NEW t \in waiting, DeliverStray(t) PROVE (\A s \in Seats : UpToDate(s)') /\ OnItsWay'
  BY <1>6, TodayDeliver
<1>7. ASSUME NEW p \in Peers, SyncStray(p) PROVE (\A s \in Seats : UpToDate(s)') /\ OnItsWay'
  BY <1>7, TodaySync
<1>8. ASSUME UNCHANGED <<stores, versionClock, era, waiting, stray>>
      PROVE  (\A s \in Seats : UpToDate(s)') /\ OnItsWay'
  BY <1>8 DEF TodayInv, UpToDate, Today, OnItsWay
<1>9. (\A s \in Seats : UpToDate(s)') /\ OnItsWay'
  BY <1>3, <1>4, <1>5, <1>6, <1>7, <1>8
     DEF SystemNext, SeatsOnly, StoresOnly, CleanUp, Exit, systemVars, vars
<1> QED BY <1>1, <1>2, <1>9 DEF TodayInv

-----------------------------------------------------------------------------
\* No replica shows a sale that has not taken place since the last reset, or
\* another buyer, unless an old timer brought it: NoPhantomSale is invariant.
THEOREM SystemNoPhantomSale == SystemSpec => []NoPhantomSale
<1>1. TodayInv => NoPhantomSale
  <2> SUFFICES ASSUME TodayInv, NEW v \in Peers, NEW s \in Seats,
                      stores[v][s].state = "reserved", <<v, s>> \notin stray
               PROVE  seats[s].state = "reserved" /\ stores[v][s].owner = seats[s].owner
    BY DEF NoPhantomSale
  <2>1. stores[v][s] \in Today(s)
    BY DEF Today
  <2>2. stores[v][s] = stores[Primary][s]
    BY <2>1 DEF TodayInv, UpToDate
  <2> QED BY <2>2 DEF TodayInv, SystemInv, HeldInPrimary
<1> QED BY <1>1, TodayInitial, TodayInductive, PTL DEF SystemSpec

\* Whoever holds a seat is shown, or on the way, on every replica whose copy is of
\* today, whoever resets and when: HoldReachesPeers is invariant.
THEOREM SystemHoldReachesPeers == SystemSpec => []HoldReachesPeers
<1>1. TodayInv => HoldReachesPeers
  <2> SUFFICES ASSUME TodayInv, NEW p \in Peers, NEW s \in Seats,
                      seats[s].state # "available", <<p, s>> \notin stray,
                      ~Shows(stores[p][s], s)
               PROVE  \E t \in waiting : t.peer = p /\ t.seat = s /\ Shows(t.update, s)
    BY DEF HoldReachesPeers
  <2>1. Shows(stores[Primary][s], s)
    BY DEF TodayInv, SystemInv, HeldInPrimary, Shows
  <2>2. stores[p][s] \in Today(s) /\ stores[p][s] # stores[Primary][s]
    BY <2>1 DEF Today
  <2>3. stores[p][s].version \in Nat /\ stores[Primary][s].version \in Nat
    BY <2>2, TodayType DEF TodayInv, SystemInv
  <2>4. stores[p][s].version < stores[Primary][s].version
    BY <2>2, <2>3 DEF TodayInv, UpToDate
  <2>5. PICK t \in waiting : t.peer = p /\ t.seat = s /\ t.update = stores[Primary][s]
    BY <2>4 DEF TodayInv, OnItsWay
  <2> QED BY <2>1, <2>5
<1> QED BY <1>1, TodayInitial, TodayInductive, PTL DEF SystemSpec
===============================================================================
