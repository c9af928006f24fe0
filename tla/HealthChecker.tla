---------------------------- MODULE HealthChecker ----------------------------
(***************************************************************************)
(* HealthChecker (src/monitoring/health_checker.py): a server's state is   *)
(* the age of its last heartbeat, looked at now and then.  Any thread may  *)
(* record a heartbeat or refresh the states, the checker's own thread does *)
(* so by itself.  The clock is read before the lock is taken and the       *)
(* listeners are called after it is released, so a refresh is three steps: *)
(* it may judge by a time that has passed, and its news may be old when    *)
(* the listener gets it.                                                   *)
(***************************************************************************)
EXTENDS Integers

CONSTANTS
  Servers,        \* the servers that send heartbeats
  Callers,        \* threads that record heartbeats and ask for states
  Checker,        \* the thread start creates; it never runs twice at a time
  DegradedAfter,  \* degraded_after_sec
  OfflineAfter,   \* offline_after_sec
  MaxLag          \* bound on the wait for the lock, for model checking

ASSUME CheckerAssumption == Checker \notin Callers
ASSUME AfterAssumption ==
  DegradedAfter \in Nat /\ OfflineAfter \in Nat /\ DegradedAfter < OfflineAfter
ASSUME LagAssumption == MaxLag \in Nat

VARIABLES
  sending,     \* the servers that work and send heartbeats
  age,         \* the time since each server's last heartbeat
  heard,       \* the keys of _last_heartbeat
  states,      \* _states, "none" where there is no entry
  registered,  \* whether the listener is in _callbacks
  pc,          \* where each thread stands in update_states or record_heartbeat
  lag,         \* how long ago it read its `now`
  news,        \* what it has still to tell the listener, per server
  told,        \* what the listener was told last; it presumes OFFLINE
  running,     \* whether the checker's thread is alive
  stopEvent,   \* _stop_event
  misled       \* history: the servers whose news went astray

dataVars == <<age, heard, states>>
threadVars == <<pc, lag, news>>
listenerVars == <<registered, told, misled>>
controlVars == <<running, stopEvent>>
vars == <<sending, dataVars, threadVars, listenerVars, controlVars>>

Threads == Callers \cup {Checker}

State == {"ONLINE", "DEGRADED", "OFFLINE"}

\* An age is compared with thresholds after a lag was taken off it.
MaxAge == OfflineAfter + MaxLag + 1

TypeOK ==
  /\ sending \subseteq Servers
  /\ age \in [Servers -> 0 .. MaxAge]
  /\ heard \subseteq Servers
  /\ states \in [Servers -> State \cup {"none"}]
  /\ registered \in BOOLEAN
  /\ pc \in [Threads -> {"idle", "measured", "notifying"}]
  /\ lag \in [Threads -> 0 .. MaxLag]
  /\ news \in [Threads -> [Servers -> State \cup {"none"}]]
  /\ told \in [Servers -> State]
  /\ running \in BOOLEAN
  /\ stopEvent \in BOOLEAN
  /\ misled \subseteq Servers

NoNews == [s \in Servers |-> "none"]

Init ==
  /\ sending = Servers
  /\ age = [s \in Servers |-> 0]
  /\ heard = {}
  /\ states = [s \in Servers |-> "none"]
  /\ registered = FALSE
  /\ pc = [t \in Threads |-> "idle"]
  /\ lag = [t \in Threads |-> 0]
  /\ news = [t \in Threads |-> NoNews]
  /\ told = [s \in Servers |-> "OFFLINE"]
  /\ running = FALSE
  /\ stopEvent = FALSE
  /\ misled = {}

-----------------------------------------------------------------------------
\* get_state's answer: a server without an entry is OFFLINE.
View(state) == IF state = "none" THEN "OFFLINE" ELSE state

MutOfflineEarly(known, a) ==
  IF ~known THEN "OFFLINE"
  ELSE IF a <= DegradedAfter THEN "ONLINE"
  ELSE IF a < OfflineAfter THEN "DEGRADED" ELSE "OFFLINE"

\* _state_for
StateFor(known, a) ==
  IF ~known THEN "OFFLINE"
  ELSE IF a <= DegradedAfter THEN "ONLINE"
  ELSE IF a <= OfflineAfter THEN "DEGRADED" ELSE "OFFLINE"

\* The age that a thread with an old `now` computes: max(0, now - heartbeat).
AgeSeen(t, s) == IF age[s] > lag[t] THEN age[s] - lag[t] ELSE 0

Undelivered(s) == \E t \in Threads : news[t][s] # "none"

\* Thread t has written the new states; it will tell those that changed, if
\* anybody listens.  The listener is misled where nobody does, and where older
\* news is still under way: the two may arrive in either order.
Announce(t, changed) ==
  /\ news' = [news EXCEPT ![t] =
       [s \in Servers |-> IF registered /\ s \in changed THEN states'[s] ELSE "none"]]
  /\ pc' = [pc EXCEPT ![t] = IF registered /\ changed # {} THEN "notifying" ELSE "idle"]
  /\ misled' = misled \cup {s \in changed : ~registered \/ Undelivered(s)}
  /\ lag' = [lag EXCEPT ![t] = 0]

\* register_server
RegisterServer(s) ==
  /\ states' = [states EXCEPT ![s] = View(@)]
  /\ UNCHANGED <<sending, age, heard, threadVars, listenerVars, controlVars>>

MutHeartbeatFromOffline(t, s) ==
  /\ t # Checker /\ pc[t] = "idle"
  /\ s \in sending
  /\ age' = [age EXCEPT ![s] = 0]
  /\ heard' = heard \cup {s}
  /\ states' = [states EXCEPT ![s] = "ONLINE"]
  /\ Announce(t, IF states[s] \in {"ONLINE", "DEGRADED"} THEN {} ELSE {s})
  /\ UNCHANGED <<sending, registered, told, controlVars>>

\* record_heartbeat reads the clock under the lock.
RecordHeartbeat(t, s) ==
  /\ t # Checker /\ pc[t] = "idle"
  /\ s \in sending
  /\ age' = [age EXCEPT ![s] = 0]
  /\ heard' = heard \cup {s}
  /\ states' = [states EXCEPT ![s] = "ONLINE"]
  /\ Announce(t, IF states[s] = "ONLINE" THEN {} ELSE {s})
  /\ UNCHANGED <<sending, registered, told, controlVars>>

\* update_states: `now` is read, by a caller or in the checker's next round.
Measure(t) ==
  /\ pc[t] = "idle"
  /\ t = Checker => running /\ ~stopEvent
  /\ pc' = [pc EXCEPT ![t] = "measured"]
  /\ UNCHANGED <<sending, dataVars, lag, news, listenerVars, controlVars>>

MutRefreshOnline(t) ==
  LET known == {s \in Servers : states[s] = "ONLINE"}
  IN /\ pc[t] = "measured"
     /\ states' = [s \in Servers |->
          IF s \in known THEN StateFor(s \in heard, AgeSeen(t, s)) ELSE states[s]]
     /\ Announce(t, {s \in known : states'[s] # states[s]})
     /\ UNCHANGED <<sending, age, heard, registered, told, controlVars>>

\* update_states, the locked part.
Refresh(t) ==
  LET known == {s \in Servers : s \in heard \/ states[s] # "none"}
  IN /\ pc[t] = "measured"
     /\ states' = [s \in Servers |->
          IF s \in known THEN StateFor(s \in heard, AgeSeen(t, s)) ELSE "none"]
     /\ Announce(t, {s \in known : states'[s] # states[s]})
     /\ UNCHANGED <<sending, age, heard, registered, told, controlVars>>

-----------------------------------------------------------------------------
\* The listener hears of one server more; it is no longer misled if that is
\* the present state and nobody has other news.
Notify(t, s) ==
  /\ pc[t] = "notifying" /\ news[t][s] # "none"
  /\ told' = [told EXCEPT ![s] = news[t][s]]
  /\ news' = [news EXCEPT ![t][s] = "none"]
  /\ pc' = [pc EXCEPT ![t] = IF news'[t] = NoNews THEN "idle" ELSE "notifying"]
  /\ misled' = IF told'[s] = View(states[s]) /\ \A u \in Threads : news'[u][s] = "none"
               THEN misled \ {s} ELSE misled
  /\ UNCHANGED <<sending, dataVars, lag, registered, controlVars>>

\* The listener raises: the rest of the news is lost, and the checker's thread,
\* whose loop catches nothing, ends with it.
Raise(t) ==
  /\ pc[t] = "notifying"
  /\ misled' = misled \cup {s \in Servers : news[t][s] # "none"}
  /\ news' = [news EXCEPT ![t] = NoNews]
  /\ pc' = [pc EXCEPT ![t] = "idle"]
  /\ running' = (running /\ t # Checker)
  /\ UNCHANGED <<sending, dataVars, lag, registered, told, stopEvent>>

\* register_callback and unregister_callback.
Listen(yes) ==
  /\ registered' = yes
  /\ UNCHANGED <<sending, dataVars, threadVars, told, misled, controlVars>>

\* start does nothing while the old thread is alive, although a stop may have
\* told it to end.
Start ==
  /\ ~running
  /\ running' = TRUE
  /\ stopEvent' = FALSE
  /\ UNCHANGED <<sending, dataVars, threadVars, listenerVars>>

\* stop sets the event; the join, outside the lock, changes nothing.
Stop ==
  /\ stopEvent' = TRUE
  /\ UNCHANGED <<sending, dataVars, threadVars, listenerVars, running>>

\* The checker's wait returns because of the event.
Leave ==
  /\ running /\ stopEvent /\ pc[Checker] = "idle"
  /\ running' = FALSE
  /\ UNCHANGED <<sending, dataVars, threadVars, listenerVars, stopEvent>>

\* reset forgets every server and tells nobody.
Reset ==
  /\ heard' = {}
  /\ states' = [s \in Servers |-> "none"]
  /\ misled' = misled \cup {s \in Servers : View(states[s]) # "OFFLINE"}
  /\ UNCHANGED <<sending, age, threadVars, registered, told, controlVars>>

\* A server crashes or comes back.
Crash(s) ==
  /\ s \in sending
  /\ sending' = sending \ {s}
  /\ UNCHANGED <<dataVars, threadVars, listenerVars, controlVars>>

Restart(s) ==
  /\ s \notin sending
  /\ sending' = sending \cup {s}
  /\ UNCHANGED <<dataVars, threadVars, listenerVars, controlVars>>

\* Time passes, for at most MaxLag while somebody waits for the lock.
Tick ==
  /\ \A t \in Threads : pc[t] = "measured" => lag[t] < MaxLag
  /\ age' = [s \in Servers |-> IF age[s] < MaxAge THEN age[s] + 1 ELSE MaxAge]
  /\ lag' = [t \in Threads |-> IF pc[t] = "measured" THEN lag[t] + 1 ELSE 0]
  /\ UNCHANGED <<sending, heard, states, pc, news, listenerVars, controlVars>>

Proceed(t) == Refresh(t) \/ \E s \in Servers : Notify(t, s)

Next ==
  \/ \E t \in Threads : Measure(t) \/ Proceed(t) \/ Raise(t)
  \/ \E t \in Callers, s \in Servers : RecordHeartbeat(t, s)
  \/ \E s \in Servers : RegisterServer(s) \/ Crash(s) \/ Restart(s)
  \/ \E yes \in BOOLEAN : Listen(yes)
  \/ Start \/ Stop \/ Leave \/ Reset \/ Tick

Spec == Init /\ [][Next]_vars

-----------------------------------------------------------------------------
(***************************************************************************)
(* A server is shown DEGRADED or OFFLINE only if its last heartbeat really *)
(* is that old, however long the thread that judged it had waited for the  *)
(* lock and whatever heartbeats came in before it got it.                  *)
(***************************************************************************)
NoFalseAlarm ==
  \A s \in heard :
    /\ states[s] # "none"
    /\ states[s] = "DEGRADED" => age[s] > DegradedAfter
    /\ states[s] = "OFFLINE" => age[s] > OfflineAfter

(***************************************************************************)
(* A listener whose picture of a server is wrong will be told the present  *)
(* state, unless its news went astray: a change made while it did not      *)
(* listen, reset, an exception of its own, or two changes announced by two *)
(* threads at a time, which may reach it in the wrong order.               *)
(***************************************************************************)
NewsUnderWay ==
  \A s \in Servers \ misled : told[s] # View(states[s]) =>
    \E t \in Threads : news[t][s] = View(states[s])

-----------------------------------------------------------------------------
(***************************************************************************)
(* Fairness: time passes, the checker's thread makes its rounds, whoever   *)
(* waits for the lock gets it and a listener returns.                      *)
(***************************************************************************)
Fairness ==
  /\ SF_vars(Tick)
  /\ WF_vars(Measure(Checker))
  /\ \A t \in Threads : WF_vars(Proceed(t) \/ Raise(t))

FairSpec == Spec /\ Fairness

(***************************************************************************)
(* A server that stays silent is OFFLINE in the end and stays so while the *)
(* checker runs on, although a late refresh with an old `now` may take it  *)
(* back to DEGRADED or ONLINE for a while.                                 *)
(***************************************************************************)
SilenceNoticed ==
  \A s \in Servers :
    <>[](running /\ ~stopEvent /\ s \in heard \ sending) => <>[](states[s] = "OFFLINE")
===============================================================================
