------------------------- MODULE HealthCheckerProofs -------------------------
(***************************************************************************)
(* Proofs about HealthChecker, for any servers, threads and thresholds.    *)
(* NoFalseAlarm is inductive next to TypeOK: a refresh subtracts its lag   *)
(* from the age, so what it computes is never above the age, and only a    *)
(* heartbeat, which also writes ONLINE, makes an age smaller.  For         *)
(* NewsUnderWay one has to know who holds news: a thread that is notifying *)
(* (Quiet), and, of a server that is not misled, the present state only    *)
(* (NewsIsPresent).                                                        *)
(***************************************************************************)
EXTENDS HealthChecker, TLAPS

Quiet == \A t \in Threads : pc[t] # "notifying" => news[t] = NoNews

NewsIsPresent ==
  \A t \in Threads, s \in Servers \ misled :
    news[t][s] # "none" => news[t][s] = View(states[s])

NewsInv == Quiet /\ NewsIsPresent /\ NewsUnderWay

-----------------------------------------------------------------------------
\* What a refresh or a heartbeat writes into the variables of the news is of
\* their types.
LEMMA AnnounceType ==
  ASSUME TypeOK, states' \in [Servers -> State \cup {"none"}],
         NEW t \in Threads, NEW changed \in SUBSET Servers, Announce(t, changed)
  PROVE  /\ news' \in [Threads -> [Servers -> State \cup {"none"}]]
         /\ pc' \in [Threads -> {"idle", "measured", "notifying"}]
         /\ misled' \subseteq Servers
         /\ lag' \in [Threads -> 0 .. MaxLag]
<1> DEFINE new == [s \in Servers |-> IF registered /\ s \in changed THEN states'[s] ELSE "none"]
<1>1. new \in [Servers -> State \cup {"none"}]
  OBVIOUS
<1>2. news' = [news EXCEPT ![t] = new]
  BY DEF Announce
<1>3. news' \in [Threads -> [Servers -> State \cup {"none"}]]
  <2> HIDE DEF new
  <2> QED BY <1>1, <1>2 DEF TypeOK
<1>4. lag' \in [Threads -> 0 .. MaxLag]
  BY LagAssumption DEF Announce, TypeOK
<1>5. pc' \in [Threads -> {"idle", "measured", "notifying"}]
  BY DEF Announce, TypeOK
<1>6. misled' \subseteq Servers
  BY DEF Announce, TypeOK
<1> QED BY <1>3, <1>4, <1>5, <1>6

\* The age a thread computes is a number and not above the present age.
LEMMA AgeSeenBounded ==
  ASSUME TypeOK, NEW t \in Threads, NEW s \in Servers
  PROVE  AgeSeen(t, s) \in Nat /\ AgeSeen(t, s) <= age[s]
<1>1. age[s] \in Nat /\ lag[t] \in Nat
  BY LagAssumption, AfterAssumption DEF TypeOK, MaxAge
<1> QED BY <1>1 DEF AgeSeen

\* A refresh writes states of the right type.
LEMMA RefreshType ==
  ASSUME TypeOK, NEW t \in Threads, Refresh(t)
  PROVE  states' \in [Servers -> State \cup {"none"}]
BY DEF Refresh, StateFor, State

\* The largest age that is counted is a number.
LEMMA MaxAgeNat == MaxAge \in Nat
BY AfterAssumption, LagAssumption DEF MaxAge

\* The initial state is typed.
LEMMA TypeInitial == Init => TypeOK
<1> SUFFICES ASSUME Init PROVE TypeOK
  OBVIOUS
<1>1. NoNews \in [Servers -> State \cup {"none"}]
  BY DEF NoNews
<1>2. news \in [Threads -> [Servers -> State \cup {"none"}]]
  BY <1>1 DEF Init
<1>3. age \in [Servers -> 0 .. MaxAge] /\ lag \in [Threads -> 0 .. MaxLag]
  BY MaxAgeNat, LagAssumption DEF Init
<1> QED BY <1>2, <1>3 DEF Init, TypeOK, State

-----------------------------------------------------------------------------
\* Every step keeps every variable within its type.
LEMMA TypeInductive == TypeOK /\ [Next]_vars => TypeOK'
<1> SUFFICES ASSUME TypeOK, [Next]_vars PROVE TypeOK'
  OBVIOUS
<1> USE LagAssumption, AfterAssumption, MaxAgeNat
<1>1. ASSUME NEW t \in Threads, Measure(t) PROVE TypeOK'
  BY <1>1 DEF Measure, TypeOK, dataVars, listenerVars, controlVars
<1>2. ASSUME NEW t \in Threads, Refresh(t) PROVE TypeOK'
  <2> DEFINE known == {s \in Servers : s \in heard \/ states[s] # "none"}
             changed == {s \in known : states'[s] # states[s]}
  <2>1. states' \in [Servers -> State \cup {"none"}]
    BY <1>2, RefreshType
  <2>2. changed \in SUBSET Servers /\ Announce(t, changed)
    BY <1>2 DEF Refresh
  <2> HIDE DEF changed
  <2>3. /\ news' \in [Threads -> [Servers -> State \cup {"none"}]]
        /\ pc' \in [Threads -> {"idle", "measured", "notifying"}]
        /\ misled' \subseteq Servers
        /\ lag' \in [Threads -> 0 .. MaxLag]
    BY <2>1, <2>2, AnnounceType
  <2> QED BY <1>2, <2>1, <2>3 DEF Refresh, TypeOK, controlVars
<1>3. ASSUME NEW t \in Threads, NEW s \in Servers, Notify(t, s) PROVE TypeOK'
  BY <1>3 DEF Notify, TypeOK, dataVars, controlVars
<1>4. ASSUME NEW t \in Threads, Raise(t) PROVE TypeOK'
  BY <1>4 DEF Raise, TypeOK, dataVars, NoNews
<1>5. ASSUME NEW t \in Callers, NEW s \in Servers, RecordHeartbeat(t, s) PROVE TypeOK'
  <2> DEFINE changed == IF states[s] = "ONLINE" THEN {} ELSE {s}
  <2>1. states' \in [Servers -> State \cup {"none"}]
    BY <1>5 DEF RecordHeartbeat, TypeOK, State
  <2>2. t \in Threads /\ changed \in SUBSET Servers /\ Announce(t, changed)
    BY <1>5 DEF RecordHeartbeat, Threads
  <2> HIDE DEF changed
  <2>3. /\ news' \in [Threads -> [Servers -> State \cup {"none"}]]
        /\ pc' \in [Threads -> {"idle", "measured", "notifying"}]
        /\ misled' \subseteq Servers
        /\ lag' \in [Threads -> 0 .. MaxLag]
    BY <2>1, <2>2, AnnounceType
  <2> QED BY <1>5, <2>1, <2>3 DEF RecordHeartbeat, TypeOK, controlVars
<1>6. ASSUME NEW s \in Servers, RegisterServer(s) PROVE TypeOK'
  BY <1>6 DEF RegisterServer, View, State, TypeOK, threadVars, listenerVars, controlVars
<1>7. ASSUME NEW s \in Servers, Crash(s) \/ Restart(s) PROVE TypeOK'
  BY <1>7 DEF Crash, Restart, TypeOK, dataVars, threadVars, listenerVars, controlVars
<1>8. ASSUME NEW yes \in BOOLEAN, Listen(yes) PROVE TypeOK'
  BY <1>8 DEF Listen, TypeOK, dataVars, threadVars, controlVars
<1>9. CASE Start \/ Stop \/ Leave
  BY <1>9 DEF Start, Stop, Leave, TypeOK, dataVars, threadVars, listenerVars
<1>10. CASE Reset
  BY <1>10 DEF Reset, TypeOK, threadVars, controlVars
<1>11. CASE Tick
  <2>1. age' \in [Servers -> 0 .. MaxAge]
    BY <1>11 DEF Tick, TypeOK
  <2>2. lag' \in [Threads -> 0 .. MaxLag]
    BY <1>11 DEF Tick, TypeOK
  <2> QED BY <1>11, <2>1, <2>2 DEF Tick, TypeOK, listenerVars, controlVars
<1>12. CASE UNCHANGED vars
  BY <1>12 DEF TypeOK, vars, dataVars, threadVars, listenerVars, controlVars
<1> QED
  BY <1>1, <1>2, <1>3, <1>4, <1>5, <1>6, <1>7, <1>8, <1>9, <1>10, <1>11, <1>12
     DEF Next, Proceed

-----------------------------------------------------------------------------
\* Ages only grow, except with a heartbeat, which leaves the server ONLINE; and
\* what a refresh writes follows from an age that is not above the real one.
LEMMA AlarmInductive == TypeOK /\ NoFalseAlarm /\ [Next]_vars => NoFalseAlarm'
<1> SUFFICES ASSUME TypeOK, NoFalseAlarm, [Next]_vars PROVE NoFalseAlarm'
  OBVIOUS
<1> USE AfterAssumption, LagAssumption
<1>1. ASSUME NEW t \in Threads, Refresh(t) PROVE NoFalseAlarm'
  <2> SUFFICES ASSUME NEW s \in heard
               PROVE  /\ states'[s] # "none"
                      /\ states'[s] = "DEGRADED" => age[s] > DegradedAfter
                      /\ states'[s] = "OFFLINE" => age[s] > OfflineAfter
    BY <1>1 DEF Refresh, NoFalseAlarm
  <2>1. s \in Servers
    BY DEF TypeOK
  <2>2. states'[s] = StateFor(TRUE, AgeSeen(t, s))
    BY <1>1, <2>1 DEF Refresh
  <2>3. AgeSeen(t, s) \in Nat /\ AgeSeen(t, s) <= age[s]
    BY <2>1, AgeSeenBounded
  <2>4. age[s] \in Nat
    BY <2>1, MaxAgeNat DEF TypeOK
  <2> QED BY <2>2, <2>3, <2>4 DEF StateFor
<1>2. ASSUME NEW t \in Callers, NEW s \in Servers, RecordHeartbeat(t, s) PROVE NoFalseAlarm'
  BY <1>2 DEF RecordHeartbeat, NoFalseAlarm, TypeOK
<1>3. ASSUME NEW s \in Servers, RegisterServer(s) PROVE NoFalseAlarm'
  <2>1. \A u \in heard : states'[u] = states[u]
    BY <1>3 DEF RegisterServer, NoFalseAlarm, TypeOK, View
  <2> QED BY <1>3, <2>1 DEF RegisterServer, NoFalseAlarm
<1>4. CASE Tick
  <2>1. \A s \in Servers : age[s] \in Nat /\ age'[s] >= age[s] /\ age'[s] \in Nat
    BY <1>4, MaxAgeNat DEF Tick, TypeOK
  <2> QED BY <1>4, <2>1 DEF Tick, NoFalseAlarm, TypeOK
<1>5. CASE Reset
  BY <1>5 DEF Reset, NoFalseAlarm
<1>6. ASSUME UNCHANGED dataVars PROVE NoFalseAlarm'
  BY <1>6 DEF dataVars, NoFalseAlarm
<1>7. ASSUME NEW t \in Threads, Measure(t) \/ Raise(t) \/ \E s \in Servers : Notify(t, s)
      PROVE  UNCHANGED dataVars
  BY <1>7 DEF Measure, Raise, Notify
<1>8. ASSUME \/ \E s \in Servers : Crash(s) \/ Restart(s)
             \/ \E yes \in BOOLEAN : Listen(yes)
             \/ Start \/ Stop \/ Leave \/ UNCHANGED vars
      PROVE  UNCHANGED dataVars
  BY <1>8 DEF Crash, Restart, Listen, Start, Stop, Leave, vars
<1> QED BY <1>1, <1>2, <1>3, <1>4, <1>5, <1>6, <1>7, <1>8 DEF Next, Proceed

\* A thread that announces changes had no news before and has exactly these now.
LEMMA AnnounceNews ==
  ASSUME TypeOK, NewsInv, NEW t \in Threads, NEW changed \in SUBSET Servers,
         pc[t] # "notifying", Announce(t, changed), UNCHANGED told,
         states' \in [Servers -> State \cup {"none"}],
         \A s \in Servers \ changed : states'[s] = states[s],
         \A s \in changed : states'[s] # "none"
  PROVE  NewsInv'
<1>1. \A u \in Threads \ {t} : news'[u] = news[u] /\ pc'[u] = pc[u]
  BY DEF Announce, TypeOK
<1>2. \A s \in Servers : news'[t][s] = IF registered /\ s \in changed THEN states'[s] ELSE "none"
  BY DEF Announce, TypeOK
<1>3. news[t] = NoNews
  BY DEF NewsInv, Quiet
<1>4. \A s \in Servers : s \in misled' <=>
         s \in misled \/ (s \in changed /\ (~registered \/ Undelivered(s)))
  BY DEF Announce
<1>5. Quiet'
  <2> SUFFICES ASSUME NEW u \in Threads, pc'[u] # "notifying" PROVE news'[u] = NoNews
    BY DEF Quiet, NoNews
  <2>1. CASE u # t
    BY <1>1, <2>1 DEF NewsInv, Quiet
  <2>2. CASE u = t
    <3>1. ~registered \/ changed = {}
      BY <2>2 DEF Announce, TypeOK
    <3>2. news'[t] = [s \in Servers |-> "none"]
      BY <3>1 DEF Announce, TypeOK
    <3> QED BY <2>2, <3>2 DEF NoNews
  <2> QED BY <2>1, <2>2
<1>6. NewsIsPresent'
  <2> SUFFICES ASSUME NEW u \in Threads, NEW s \in Servers, s \notin misled', news'[u][s] # "none"
               PROVE  news'[u][s] = View(states'[s])
    BY DEF NewsIsPresent, View
  <2>1. CASE u = t
    BY <1>2, <2>1 DEF View
  <2>2. CASE u # t
    <3>1. s \notin misled /\ news[u][s] # "none" /\ news'[u][s] = news[u][s]
      BY <1>1, <1>4, <2>2
    <3>2. s \notin changed
      BY <1>4, <3>1 DEF Undelivered
    <3> QED BY <3>1, <3>2 DEF NewsInv, NewsIsPresent, View
  <2> QED BY <2>1, <2>2
<1>7. NewsUnderWay'
  <2> SUFFICES ASSUME NEW s \in Servers, s \notin misled', told[s] # View(states'[s])
               PROVE  \E u \in Threads : news'[u][s] = View(states'[s])
    BY DEF NewsUnderWay, View
  <2>1. CASE s \in changed
    <3>1. news'[t][s] = states'[s]
      BY <1>2, <1>4, <2>1
    <3> QED BY <2>1, <3>1 DEF View
  <2>2. CASE s \notin changed
    <3>1. states'[s] = states[s] /\ s \notin misled
      BY <1>4, <2>2
    <3>2. PICK u \in Threads : news[u][s] = View(states[s])
      BY <3>1 DEF NewsInv, NewsUnderWay, View
    <3>3. u # t
      BY <1>3, <3>2 DEF NoNews, View
    <3> QED BY <1>1, <3>1, <3>2, <3>3
  <2> QED BY <2>1, <2>2
<1> QED BY <1>5, <1>6, <1>7 DEF NewsInv

\* No step loses news without marking the server as misled.
LEMMA NewsInductive == TypeOK /\ TypeOK' /\ NewsInv /\ [Next]_vars => NewsInv'
<1> SUFFICES ASSUME TypeOK, TypeOK', NewsInv, [Next]_vars PROVE NewsInv'
  OBVIOUS
<1>1. ASSUME NEW t \in Threads, Refresh(t) PROVE NewsInv'
  <2> DEFINE known == {s \in Servers : s \in heard \/ states[s] # "none"}
             changed == {s \in known : states'[s] # states[s]}
  <2>1. pc[t] # "notifying" /\ changed \in SUBSET Servers /\ Announce(t, changed) /\ told' = told
    BY <1>1 DEF Refresh
  <2>2. \A s \in Servers \ changed : states'[s] = states[s]
    BY <1>1 DEF Refresh
  <2>3. \A s \in changed : states'[s] # "none"
    BY <1>1 DEF Refresh, StateFor
  <2>4. states' \in [Servers -> State \cup {"none"}]
    BY DEF TypeOK
  <2> HIDE DEF changed
  <2> QED BY <2>1, <2>2, <2>3, <2>4, AnnounceNews
<1>2. ASSUME NEW t \in Callers, NEW s \in Servers, RecordHeartbeat(t, s) PROVE NewsInv'
  <2> DEFINE changed == IF states[s] = "ONLINE" THEN {} ELSE {s}
  <2>1. /\ t \in Threads /\ pc[t] # "notifying" /\ changed \in SUBSET Servers
        /\ Announce(t, changed) /\ told' = told
    BY <1>2 DEF RecordHeartbeat, Threads
  <2>2. \A u \in Servers \ changed : states'[u] = states[u]
    BY <1>2 DEF RecordHeartbeat, TypeOK
  <2>3. \A u \in changed : states'[u] # "none"
    BY <1>2 DEF RecordHeartbeat, TypeOK
  <2>4. states' \in [Servers -> State \cup {"none"}]
    BY DEF TypeOK
  <2> HIDE DEF changed
  <2> QED BY <2>1, <2>2, <2>3, <2>4, AnnounceNews
<1>3. ASSUME NEW t \in Threads, NEW s \in Servers, Notify(t, s) PROVE NewsInv'
  <2>1. /\ told' = [told EXCEPT ![s] = news[t][s]]
        /\ news' = [news EXCEPT ![t][s] = "none"]
        /\ pc' = [pc EXCEPT ![t] = IF news'[t] = NoNews THEN "idle" ELSE "notifying"]
        /\ misled' = IF told'[s] = View(states[s]) /\ \A u \in Threads : news'[u][s] = "none"
                     THEN misled \ {s} ELSE misled
        /\ states' = states /\ news[t][s] # "none"
    BY <1>3 DEF Notify, dataVars
  <2>2. Quiet'
    BY <2>1 DEF NewsInv, Quiet, TypeOK, NoNews
  <2>3. /\ told'[s] = news[t][s] /\ news'[t][s] = "none"
        /\ \A r \in Servers \ {s} : told'[r] = told[r] /\ (r \in misled' <=> r \in misled)
        /\ \A u \in Threads, r \in Servers : (u # t \/ r # s) => news'[u][r] = news[u][r]
    BY <2>1 DEF TypeOK
  <2>4. ASSUME s \notin misled' PROVE told'[s] = View(states[s])
    BY <2>1, <2>3, <2>4 DEF NewsInv, NewsIsPresent
  <2>5. NewsIsPresent'
    <3> SUFFICES ASSUME NEW u \in Threads, NEW r \in Servers, r \notin misled', news'[u][r] # "none"
                 PROVE  news'[u][r] = View(states[r])
      BY <2>1 DEF NewsIsPresent, View
    <3>1. CASE r # s
      BY <2>3, <3>1 DEF NewsInv, NewsIsPresent
    <3>2. CASE r = s
      <4>1. s \notin misled
        BY <2>1, <3>2
      <4> QED BY <2>3, <3>2, <4>1 DEF NewsInv, NewsIsPresent
    <3> QED BY <3>1, <3>2
  <2>6. NewsUnderWay'
    <3> SUFFICES ASSUME NEW r \in Servers, r \notin misled', told'[r] # View(states[r])
                 PROVE  \E u \in Threads : news'[u][r] = View(states[r])
      BY <2>1 DEF NewsUnderWay, View
    <3>1. r # s
      BY <2>4
    <3>2. r \notin misled /\ told[r] # View(states[r])
      BY <2>3, <3>1
    <3> QED BY <2>3, <3>1, <3>2 DEF NewsInv, NewsUnderWay
  <2> QED BY <2>2, <2>5, <2>6 DEF NewsInv
<1>4. ASSUME NEW t \in Threads, Raise(t) PROVE NewsInv'
  <2>1. /\ misled' = misled \cup {s \in Servers : news[t][s] # "none"}
        /\ news' = [news EXCEPT ![t] = NoNews]
        /\ pc' = [pc EXCEPT ![t] = "idle"]
        /\ told' = told /\ states' = states
    BY <1>4 DEF Raise, dataVars
  <2>2. \A u \in Threads : news'[u] = IF u = t THEN NoNews ELSE news[u]
    BY <2>1 DEF TypeOK
  <2>3. Quiet'
    BY <2>1, <2>2 DEF NewsInv, Quiet, TypeOK, NoNews
  <2>4. NewsIsPresent'
    BY <2>1, <2>2 DEF NewsInv, NewsIsPresent, NoNews, View
  <2>5. NewsUnderWay'
    <3> SUFFICES ASSUME NEW s \in Servers, s \notin misled', told[s] # View(states[s])
                 PROVE  \E u \in Threads : news'[u][s] = View(states[s])
      BY <2>1 DEF NewsUnderWay, View
    <3>1. PICK u \in Threads : news[u][s] = View(states[s])
      BY <2>1 DEF NewsInv, NewsUnderWay
    <3>2. u # t
      BY <2>1, <3>1 DEF View
    <3> QED BY <2>2, <3>1, <3>2
  <2> QED BY <2>3, <2>4, <2>5 DEF NewsInv
<1>5. ASSUME NEW s \in Servers, RegisterServer(s) PROVE NewsInv'
  <2>1. /\ UNCHANGED <<pc, news, told, misled>>
        /\ \A r \in Servers : View(states'[r]) = View(states[r])
    BY <1>5 DEF RegisterServer, TypeOK, View, State, threadVars, listenerVars
  <2> QED BY <2>1 DEF NewsInv, Quiet, NewsIsPresent, NewsUnderWay, NoNews
<1>6. CASE Reset
  <2>1. /\ UNCHANGED <<pc, news, told>>
        /\ misled' = misled \cup {s \in Servers : View(states[s]) # "OFFLINE"}
        /\ \A r \in Servers : View(states'[r]) = "OFFLINE"
    BY <1>6 DEF Reset, View, threadVars
  <2>2. \A r \in Servers \ misled' : View(states'[r]) = View(states[r]) /\ r \notin misled
    BY <2>1
  <2> QED BY <2>1, <2>2 DEF NewsInv, Quiet, NewsIsPresent, NewsUnderWay, NoNews
<1>7. ASSUME NEW t \in Threads, Measure(t) PROVE NewsInv'
  BY <1>7 DEF Measure, NewsInv, Quiet, NewsIsPresent, NewsUnderWay, NoNews, View, TypeOK,
              dataVars, listenerVars
<1>8. ASSUME UNCHANGED <<states, pc, news, told, misled>> PROVE NewsInv'
  BY <1>8 DEF NewsInv, Quiet, NewsIsPresent, NewsUnderWay, NoNews, View
<1>9. ASSUME \/ \E s \in Servers : Crash(s) \/ Restart(s)
             \/ \E yes \in BOOLEAN : Listen(yes)
             \/ Start \/ Stop \/ Leave \/ Tick \/ UNCHANGED vars
      PROVE  UNCHANGED <<states, pc, news, told, misled>>
  BY <1>9 DEF Crash, Restart, Listen, Start, Stop, Leave, Tick, vars, dataVars, threadVars, listenerVars
<1> QED BY <1>1, <1>2, <1>3, <1>4, <1>5, <1>6, <1>7, <1>8, <1>9 DEF Next, Proceed

-----------------------------------------------------------------------------
(***************************************************************************)
(* A server is never shown worse than the age of its last heartbeat        *)
(* warrants, however late a thread comes to write what it judged           *)
(* (update_states, health_checker.py:97-117).                              *)
(***************************************************************************)
THEOREM HealthNoFalseAlarm == Spec => [](TypeOK /\ NoFalseAlarm)
<1>1. Init => TypeOK /\ NoFalseAlarm
  BY TypeInitial DEF Init, NoFalseAlarm
<1>2. TypeOK /\ NoFalseAlarm /\ [Next]_vars => (TypeOK /\ NoFalseAlarm)'
  BY TypeInductive, AlarmInductive
<1> QED BY <1>1, <1>2, PTL DEF Spec

(***************************************************************************)
(* Whatever the threads, a listener that is wrong about a server either has*)
(* the present state coming or is one whose news went astray in one of the *)
(* ways `misled` records (health_checker.py:84-117).                       *)
(***************************************************************************)
THEOREM HealthNewsUnderWay == Spec => []NewsUnderWay
<1>1. Init => TypeOK /\ NewsInv
  BY TypeInitial DEF Init, NewsInv, Quiet, NewsIsPresent, NewsUnderWay, NoNews, View
<1>2. TypeOK /\ NewsInv /\ [Next]_vars => (TypeOK /\ NewsInv)'
  BY TypeInductive, NewsInductive
<1>3. NewsInv => NewsUnderWay
  BY DEF NewsInv
<1> QED BY <1>1, <1>2, <1>3, PTL DEF Spec
===============================================================================
