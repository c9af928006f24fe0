------------------------ MODULE FailureDetectorProofs ------------------------
(***************************************************************************)
(* Proofs about FailureDetector, for any servers, threads, controllers and *)
(* timeout.  As long as starts and stops are not tangled, the thread that  *)
(* runs is the one start knows of (Sole), and what it works with is nobody *)
(* else's: _known_down and current_down account for all that was reported  *)
(* (Reports), and whoever was read as down has timed out and not been      *)
(* reported up since (Lateness).                                           *)
(***************************************************************************)
EXTENDS FailureDetector, TLAPS

\* The thread that runs is _thread.  A start that goes on finds no thread running
\* and everybody else idle; a stop waits for _thread, or it is gone.
Sole ==
  ~tangled =>
    /\ \A t \in Threads : Running(t) => t = thread
    /\ \A k \in Controllers : Starting(k) =>
         /\ \A t \in Threads : ~Running(t)
         /\ \A j \in Controllers \ {k} : ctl[j] = "idle"
    /\ \A k \in Controllers : ctl[k] = "joining" => joining[k] = thread \/ thread = None

\* Down means late, late means lapsed, and so it is of what was just read.
Lateness ==
  /\ \A s \in Servers : status[s] = "down" => s \in Late
  /\ ~tangled => /\ Late \subseteq lapsed
                /\ \A t \in Threads : loop[t] = "read" => seen[t] \subseteq lapsed

ReportedDown == {s \in Servers : reported[s] = "down"}

Reports ==
  ~tangled =>
    /\ (\A t \in Threads : loop[t] \notin {"reporting", "saving"}) => knownDown = ReportedDown
    /\ \A t \in Threads :
         /\ loop[t] = "reporting" => ReportedDown = knownDown \cup seen[t]
         /\ loop[t] = "saving" => ReportedDown = seen[t]

IInv == TypeOK /\ Sole /\ Lateness /\ Reports

-----------------------------------------------------------------------------
\* Fresh is a status for every server.
LEMMA FreshType == TypeOK => Fresh \in [Servers -> {"up", "down", "none"}]
BY DEF TypeOK, Fresh

\* A check, by whomever, keeps the monitor's variables within their types.
LEMMA CheckType ==
  ASSUME TypeOK, Check
  PROVE  /\ age' = age /\ heard' = heard
         /\ status' \in [Servers -> {"up", "down", "none"}]
         /\ told' \in [Servers -> {"up", "down", "none"}]
BY FreshType DEF Check, TypeOK

\* At the start all servers are up and no thread was started.
LEMMA DetectorInitial == Init => IInv
<1> SUFFICES ASSUME Init PROVE IInv
  OBVIOUS
<1>1. TypeOK
  <2>1. age \in [Servers -> 0 .. (Timeout + 1)]
    BY TimeoutAssumption DEF Init
  <2>2. /\ status \in [Servers -> {"up", "down", "none"}]
        /\ told \in [Servers -> {"up", "down", "none"}]
        /\ reported \in [Servers -> {"up", "down"}]
    BY DEF Init
  <2>3. /\ loop \in [Threads -> {"new", "top", "checked", "read", "reporting", "saving", "dead"}]
        /\ seen \in [Threads -> SUBSET Servers]
    BY DEF Init
  <2>4. /\ ctl \in [Controllers -> {"idle", "clearing", "making", "starting", "stopping", "joining"}]
        /\ joining \in [Controllers -> Threads \cup {None}]
    BY DEF Init
  <2> QED BY <2>1, <2>2, <2>3, <2>4 DEF Init, TypeOK
<1>2. Sole /\ Lateness
  BY DEF Init, Sole, Running, Starting, Lateness, Late
<1>3. Reports
  BY DEF Init, Reports, ReportedDown
<1> QED BY <1>1, <1>2, <1>3 DEF IInv

\* Every step keeps every variable within its type.
LEMMA DetectorType == TypeOK /\ [Next]_vars => TypeOK'
<1> SUFFICES ASSUME TypeOK, [Next]_vars PROVE TypeOK'
  OBVIOUS
<1> USE TimeoutAssumption
<1>1. ASSUME NEW s \in Servers, Heartbeat(s) PROVE TypeOK'
  BY <1>1 DEF Heartbeat, TypeOK, controlVars, callVars, loopVars
<1>2. ASSUME NEW s \in Servers, Crash(s) \/ Restart(s) PROVE TypeOK'
  BY <1>2 DEF Crash, Restart, TypeOK, monitorVars, controlVars, callVars, loopVars
<1>3. CASE PollStatus
  BY <1>3, FreshType DEF PollStatus, TypeOK, controlVars, callVars, loopVars
<1>4. CASE QueryStatus
  BY <1>4, CheckType DEF QueryStatus, TypeOK, controlVars, callVars, loopVars
<1>5. CASE ResetMonitor
  BY <1>5 DEF ResetMonitor, TypeOK, controlVars, callVars, loopVars
<1>6. ASSUME NEW t \in Threads, Iterate(t) PROVE TypeOK'
  <2>1. CASE stopEvent
    BY <1>6, <2>1 DEF Iterate, TypeOK, monitorVars, controlVars, callVars
  <2>2. CASE ~stopEvent
    BY <1>6, <2>2, CheckType DEF Iterate, TypeOK, controlVars, callVars
  <2> QED BY <2>1, <2>2
<1>7. ASSUME NEW t \in Threads, ReadDown(t) PROVE TypeOK'
  BY <1>7, CheckType DEF ReadDown, TypeOK, controlVars, callVars
<1>8. ASSUME NEW t \in Threads, ReportFailures(t) PROVE TypeOK'
  BY <1>8 DEF ReportFailures, TypeOK, monitorVars, controlVars, callVars
<1>9. ASSUME NEW t \in Threads, ReportRecoveries(t) PROVE TypeOK'
  BY <1>9 DEF ReportRecoveries, TypeOK, Late, monitorVars, controlVars, callVars
<1>10. ASSUME NEW t \in Threads, SaveKnown(t) PROVE TypeOK'
  BY <1>10 DEF SaveKnown, TypeOK, monitorVars, controlVars, callVars
<1>11. ASSUME NEW k \in Controllers, StartCheck(k) \/ StopSet(k) PROVE TypeOK'
  BY <1>11 DEF StartCheck, StopSet, Goes, Tangle, TypeOK, monitorVars, loopVars
<1>12. ASSUME NEW k \in Controllers, Call(k) \/ GiveUp(k) PROVE TypeOK'
  <2>1. CASE StartClear(k)
    BY <2>1 DEF StartClear, Goes, TypeOK, monitorVars, loopVars
  <2>2. CASE StartMake(k)
    BY <2>2 DEF StartMake, Goes, TypeOK, monitorVars
  <2>3. CASE StartRun(k)
    BY <2>3 DEF StartRun, Goes, TypeOK, monitorVars
  <2>4. CASE StopRead(k)
    BY <2>4 DEF StopRead, Goes, TypeOK, monitorVars, loopVars
  <2>5. CASE Joined(k) \/ GiveUp(k)
    BY <2>5 DEF Joined, GiveUp, Forget, Goes, Tangle, TypeOK, monitorVars, loopVars
  <2> QED BY <1>12, <2>1, <2>2, <2>3, <2>4, <2>5 DEF Call
<1>13. CASE Tick
  <2>1. age' \in [Servers -> 0 .. (Timeout + 1)]
    BY <1>13 DEF Tick, Late, TypeOK
  <2> QED BY <1>13, <2>1 DEF Tick, TypeOK, controlVars, callVars, loopVars
<1>14. CASE UNCHANGED vars
  BY <1>14 DEF vars, monitorVars, controlVars, callVars, loopVars, TypeOK
<1> QED BY <1>1, <1>2, <1>3, <1>4, <1>5, <1>6, <1>7, <1>8, <1>9, <1>10, <1>11, <1>12,
           <1>13, <1>14 DEF Next, Loop

-----------------------------------------------------------------------------
\* A thread that stays in its loop, while nobody starts or stops anything, is
\* still the only one.
LEMMA SoleKept ==
  ASSUME TypeOK, Sole, UNCHANGED controlVars, NEW t \in Threads, Running(t),
         NEW there, loop' = [loop EXCEPT ![t] = there]
  PROVE  Sole'
BY DEF TypeOK, Sole, Running, Starting, controlVars, callVars

\* One thread runs at a time: stop waits for it, and start finds nobody else.
LEMMA SoleInductive == TypeOK /\ Sole /\ [Next]_vars => Sole'
<1> SUFFICES ASSUME TypeOK, Sole, [Next]_vars PROVE Sole'
  OBVIOUS
<1>1. ASSUME NEW t \in Threads, Loop(t) PROVE Sole'
  <2>1. UNCHANGED controlVars
    BY <1>1 DEF Loop, Iterate, ReadDown, ReportFailures, ReportRecoveries, SaveKnown
  <2>2. Running(t)
    BY <1>1 DEF Loop, Iterate, ReadDown, ReportFailures, ReportRecoveries, SaveKnown, Running
  <2>3. \E there \in {"top", "checked", "read", "reporting", "saving", "dead"} :
          loop' = [loop EXCEPT ![t] = there]
    BY <1>1 DEF Loop, Iterate, ReadDown, ReportFailures, ReportRecoveries, SaveKnown
  <2> QED BY <2>1, <2>2, <2>3, SoleKept
<1>2. ASSUME NEW k \in Controllers, StartCheck(k) PROVE Sole'
  <2>1. CASE tangled'
    BY <2>1 DEF Sole
  <2>2. CASE ~tangled'
    <3>1. ~tangled /\ \A j \in Controllers \ {k} : ctl[j] = "idle"
      BY <1>2, <2>2 DEF StartCheck, Tangle
    <3>2. /\ thread' = thread /\ joining' = joining /\ loop' = loop
          /\ ctl' = [ctl EXCEPT ![k] = "clearing"]
      BY <1>2 DEF StartCheck, Goes, loopVars
    <3>3. \A t \in Threads : ~Running(t) /\ ~Running(t)'
      <4>1. \A t \in Threads : Running(t) => t = thread
        BY <3>1 DEF Sole
      <4>2. \A t \in Threads : ~Running(t)
        BY <1>2, <4>1 DEF StartCheck
      <4> QED BY <3>2, <4>2 DEF Running
    <3>4. \A j \in Controllers \ {k} : ctl'[j] = "idle"
      BY <3>1, <3>2 DEF TypeOK
    <3>5. ctl'[k] = "clearing"
      BY <3>2 DEF TypeOK
    <3>6. \A j \in Controllers : Starting(j)' => j = k
      BY <3>4 DEF Starting
    <3> QED BY <3>3, <3>4, <3>5, <3>6 DEF Sole
  <2> QED BY <2>1, <2>2
<1>3. ASSUME NEW k \in Controllers, StartClear(k) PROVE Sole'
  BY <1>3 DEF StartClear, Goes, Sole, Running, Starting, TypeOK, loopVars
<1>4. ASSUME NEW k \in Controllers, StartMake(k) PROVE Sole'
  <2>1. PICK t \in Threads : thread' = t /\ loop' = [loop EXCEPT ![t] = "new"]
    BY <1>4 DEF StartMake
  <2> QED BY <1>4, <2>1 DEF StartMake, Goes, Sole, Running, Starting, TypeOK
<1>5. ASSUME NEW k \in Controllers, StartRun(k) PROVE Sole'
  BY <1>5 DEF StartRun, Goes, Sole, Running, Starting, TypeOK
<1>6. ASSUME NEW k \in Controllers, StopSet(k) PROVE Sole'
  BY <1>6 DEF StopSet, Goes, Tangle, Sole, Running, Starting, TypeOK, loopVars
<1>7. ASSUME NEW k \in Controllers, StopRead(k) PROVE Sole'
  BY <1>7 DEF StopRead, Goes, Sole, Running, Starting, TypeOK, loopVars
<1>8. ASSUME NEW k \in Controllers, Joined(k) PROVE Sole'
  <2>1. ~tangled => \A t \in Threads : ~Running(t)
    BY <1>8, ThreadAssumption DEF Joined, Forget, Goes, Sole
  <2> QED BY <1>8, <2>1 DEF Joined, Forget, Goes, Sole, Running, Starting, TypeOK, loopVars
<1>9. ASSUME NEW k \in Controllers, GiveUp(k) PROVE Sole'
  BY <1>9 DEF GiveUp, Tangle, Sole
<1>10. CASE UNCHANGED <<controlVars, loop>>
  BY <1>10 DEF controlVars, callVars, Sole, Running, Starting
<1> QED BY <1>1, <1>2, <1>3, <1>4, <1>5, <1>6, <1>7, <1>8, <1>9, <1>10
        DEF Next, Call, vars, controlVars, loopVars, Heartbeat, Crash, Restart, PollStatus,
            QueryStatus, ResetMonitor, Tick

-----------------------------------------------------------------------------
\* After a check, or a poll, those that are down are late.
LEMMA FreshIsLate ==
  ASSUME Lateness, status' = Fresh, UNCHANGED <<age, heard>>
  PROVE  /\ Late' = Late
         /\ \A s \in Servers : status'[s] = "down" => s \in Late'
BY DEF Lateness, Fresh, Late

\* What was read as down stays lapsed until it is reported: nobody else reports.
LEMMA LatenessInductive == TypeOK /\ Sole /\ Lateness /\ [Next]_vars => Lateness'
<1> SUFFICES ASSUME TypeOK, Sole, Lateness, [Next]_vars PROVE Lateness'
  OBVIOUS
<1> USE TimeoutAssumption
<1>1. ASSUME NEW s \in Servers, Heartbeat(s) PROVE Lateness'
  <2>1. Late' = Late \ {s}
    BY <1>1 DEF Heartbeat, Late, TypeOK
  <2> QED BY <1>1, <2>1 DEF Heartbeat, Lateness, TypeOK, controlVars, callVars, loopVars
<1>2. CASE UNCHANGED <<monitorVars, loop, seen, tangled, lapsed>>
  BY <1>2 DEF monitorVars, Lateness, Late
<1>3. CASE PollStatus \/ QueryStatus
  <2>1. status' = Fresh /\ UNCHANGED <<age, heard, loop, seen, tangled, lapsed>>
    BY <1>3 DEF PollStatus, QueryStatus, Check, controlVars, callVars, loopVars
  <2> QED BY <2>1, FreshIsLate DEF Lateness
<1>4. CASE ResetMonitor
  BY <1>4 DEF ResetMonitor, Lateness, Late, controlVars, callVars, loopVars
<1>5. ASSUME NEW t \in Threads, Iterate(t) PROVE Lateness'
  <2>1. \A u \in Threads : loop'[u] = "read" => loop[u] = "read"
    BY <1>5 DEF Iterate, TypeOK
  <2>2. CASE stopEvent
    BY <1>5, <2>1, <2>2 DEF Iterate, Lateness, Late, monitorVars, controlVars, callVars
  <2>3. CASE ~stopEvent
    BY <1>5, <2>1, <2>3, FreshIsLate DEF Iterate, Check, Lateness, controlVars, callVars
  <2> QED BY <2>2, <2>3
<1>6. ASSUME NEW t \in Threads, ReadDown(t) PROVE Lateness'
  <2>1. Late' = Late /\ \A s \in Servers : status'[s] = "down" => s \in Late'
    BY <1>6, FreshIsLate DEF ReadDown, Check
  <2>2. ~tangled => seen'[t] \subseteq lapsed' /\ Late' \subseteq lapsed'
    BY <1>6, <2>1 DEF ReadDown, Lateness, TypeOK
  <2>3. \A u \in Threads : loop'[u] = "read" => u = t \/ (loop[u] = "read" /\ seen'[u] = seen[u])
    BY <1>6 DEF ReadDown, TypeOK
  <2> QED BY <1>6, <2>1, <2>2, <2>3 DEF ReadDown, Lateness, controlVars, callVars
<1>7. ASSUME NEW t \in Threads, ReportFailures(t) \/ SaveKnown(t) PROVE Lateness'
  <2>1. \A u \in Threads : loop'[u] = "read" => loop[u] = "read" /\ seen'[u] = seen[u]
    BY <1>7 DEF ReportFailures, SaveKnown, TypeOK
  <2> QED BY <1>7, <2>1 DEF ReportFailures, SaveKnown, Lateness, Late, monitorVars, controlVars, callVars
<1>8. ASSUME NEW t \in Threads, ReportRecoveries(t) PROVE Lateness'
  <2>1. ~tangled => \A u \in Threads : loop'[u] # "read"
    BY <1>8 DEF ReportRecoveries, Sole, Running, TypeOK
  <2> QED BY <1>8, <2>1 DEF ReportRecoveries, Lateness, Late, monitorVars, controlVars, callVars
<1>9. ASSUME NEW k \in Controllers, StartMake(k) \/ StartRun(k) PROVE Lateness'
  <2>1. \A u \in Threads : loop'[u] = "read" => loop[u] = "read"
    BY <1>9 DEF StartMake, StartRun, TypeOK
  <2> QED BY <1>9, <2>1 DEF StartMake, StartRun, Lateness, Late, monitorVars
<1>10. CASE Tick
  <2>1. Late \subseteq Late' /\ (~tangled => Late' \subseteq lapsed')
    BY <1>10 DEF Tick, Late, TypeOK
  <2> QED BY <1>10, <2>1 DEF Tick, Lateness, loopVars, controlVars, callVars
<1>11. ASSUME NEW k \in Controllers, StartCheck(k) \/ StopSet(k) \/ GiveUp(k) PROVE Lateness'
  BY <1>11 DEF StartCheck, StopSet, GiveUp, Forget, Tangle, Lateness, Late, monitorVars, loopVars
<1>12. ASSUME NEW k \in Controllers, StartClear(k) \/ StopRead(k) \/ Joined(k) PROVE Lateness'
  BY <1>2, <1>12 DEF StartClear, StopRead, Joined, Forget, loopVars
<1> QED BY <1>1, <1>2, <1>3, <1>4, <1>5, <1>6, <1>7, <1>8, <1>9, <1>10, <1>11, <1>12
        DEF Next, Loop, Call, Crash, Restart, vars, controlVars, callVars, loopVars

-----------------------------------------------------------------------------
\* Tangled once, tangled for good.
LEMMA TangledStays == [Next]_vars => (tangled => tangled')
<1> SUFFICES ASSUME [Next]_vars PROVE tangled => tangled'
  OBVIOUS
<1>1. ASSUME NEW k \in Controllers, StartCheck(k) \/ StopSet(k) \/ GiveUp(k) PROVE tangled => tangled'
  BY <1>1 DEF StartCheck, StopSet, GiveUp, Tangle
<1>2. ASSUME NEW k \in Controllers, Call(k) PROVE UNCHANGED tangled
  BY <1>2 DEF Call, StartClear, StartMake, StartRun, StopRead, Joined
<1> QED BY <1>1, <1>2
        DEF Next, Loop, Iterate, ReadDown, ReportFailures, ReportRecoveries, SaveKnown, Heartbeat,
            Crash, Restart, PollStatus, QueryStatus, ResetMonitor, Tick, vars, controlVars, callVars

\* The thread in the loop keeps account of its reports, one step after another.
LEMMA ReportsInductive == TypeOK /\ Sole /\ Reports /\ [Next]_vars => Reports'
<1> SUFFICES ASSUME TypeOK, Sole, Reports, [Next]_vars, ~tangled, ~tangled' PROVE Reports'
  BY TangledStays DEF Reports
<1>1. CASE UNCHANGED <<seen, knownDown, reported>> /\ \A t \in Threads :
             \A here \in {"reporting", "saving"} : loop'[t] = here <=> loop[t] = here
  BY <1>1 DEF Reports, ReportedDown
<1>2. CASE UNCHANGED loopVars
  BY <1>1, <1>2 DEF loopVars
<1>3. ASSUME NEW t \in Threads, Iterate(t) PROVE Reports'
  BY <1>1, <1>3 DEF Iterate, TypeOK
<1>4. ASSUME NEW k \in Controllers, StartMake(k) \/ StartRun(k) PROVE Reports'
  BY <1>1, <1>4 DEF StartMake, StartRun, TypeOK
<1>5. ASSUME NEW t \in Threads, Running(t)
      PROVE  \A u \in Threads \ {t} : loop[u] \notin {"read", "reporting", "saving"}
  BY <1>5 DEF Sole, Running
<1>6. ASSUME NEW t \in Threads, ReadDown(t) PROVE Reports'
  <2>1. \A u \in Threads : loop'[u] \notin {"reporting", "saving"} /\ loop[u] \notin {"reporting", "saving"}
    BY <1>5, <1>6 DEF ReadDown, Running, TypeOK
  <2> QED BY <1>6, <2>1 DEF ReadDown, Reports, ReportedDown
<1>7. ASSUME NEW t \in Threads, ReportFailures(t) PROVE Reports'
  <2>1. \A u \in Threads : loop[u] \notin {"reporting", "saving"}
    BY <1>5, <1>7 DEF ReportFailures, Running
  <2>2. \A u \in Threads : loop'[u] = IF u = t THEN "reporting" ELSE loop[u]
    BY <1>7 DEF ReportFailures, TypeOK
  <2>3. ReportedDown' = ReportedDown \cup seen[t] /\ ReportedDown = knownDown
    BY <1>7, <2>1 DEF ReportFailures, ReportedDown, Reports, TypeOK
  <2> QED BY <1>7, <2>1, <2>2, <2>3 DEF ReportFailures, Reports
<1>8. ASSUME NEW t \in Threads, ReportRecoveries(t) PROVE Reports'
  <2>1. \A u \in Threads : loop'[u] = IF u = t THEN "saving" ELSE loop[u]
    BY <1>8 DEF ReportRecoveries, TypeOK
  <2>2. \A u \in Threads \ {t} : loop[u] \notin {"reporting", "saving"}
    BY <1>5, <1>8 DEF ReportRecoveries, Running
  <2>3. ReportedDown = knownDown \cup seen[t]
    BY <1>8 DEF ReportRecoveries, Reports
  <2>4. ReportedDown' = ReportedDown \ (knownDown \ seen[t])
    BY <1>8 DEF ReportRecoveries, ReportedDown, TypeOK
  <2> QED BY <1>8, <2>1, <2>2, <2>3, <2>4 DEF ReportRecoveries, Reports
<1>9. ASSUME NEW t \in Threads, SaveKnown(t) PROVE Reports'
  <2>1. \A u \in Threads : loop'[u] = IF u = t THEN "top" ELSE loop[u]
    BY <1>9 DEF SaveKnown, TypeOK
  <2>2. \A u \in Threads \ {t} : loop[u] \notin {"reporting", "saving"}
    BY <1>5, <1>9 DEF SaveKnown, Running
  <2>3. knownDown' = ReportedDown /\ ReportedDown' = ReportedDown
    BY <1>9 DEF SaveKnown, Reports, ReportedDown
  <2> QED BY <1>9, <2>1, <2>2, <2>3 DEF Reports, ReportedDown
<1>10. ASSUME NEW k \in Controllers, StartCheck(k) \/ StopSet(k) \/ GiveUp(k) PROVE Reports'
  BY <1>2, <1>10 DEF StartCheck, StopSet, GiveUp, Forget
<1>11. ASSUME NEW k \in Controllers, StartClear(k) \/ StopRead(k) \/ Joined(k) PROVE Reports'
  BY <1>2, <1>11 DEF StartClear, StopRead, Joined, Forget
<1> QED BY <1>2, <1>3, <1>4, <1>6, <1>7, <1>8, <1>9, <1>10, <1>11
        DEF Next, Loop, Call, Heartbeat, Crash, Restart, PollStatus, QueryStatus, ResetMonitor,
            Tick, vars

\* The four parts of the invariant hold together.
LEMMA DetectorInductive == IInv /\ [Next]_vars => IInv'
BY DetectorType, SoleInductive, LatenessInductive, ReportsInductive DEF IInv

\* Only ReportFailures reports a failure, of a server that was read as down.
LEMMA NoAlarmStep ==
  ASSUME IInv, [Next]_vars, ~tangled, NEW s \in Servers, reported[s] = "up", reported'[s] = "down"
  PROVE  s \in lapsed
<1>1. ASSUME NEW t \in Threads, ReportFailures(t) PROVE s \in lapsed
  BY <1>1 DEF ReportFailures, IInv, Lateness, TypeOK
<1>2. ASSUME NEW t \in Threads, ReportRecoveries(t) PROVE FALSE
  BY <1>2 DEF ReportRecoveries
<1>3. ASSUME NEW k \in Controllers,
             StartCheck(k) \/ StopSet(k) \/ Call(k) \/ GiveUp(k)
      PROVE  FALSE
  BY <1>3 DEF StartCheck, StopSet, Call, StartClear, StartMake, StartRun, StopRead, Joined, GiveUp,
              Forget, loopVars
<1> QED BY <1>1, <1>2, <1>3
        DEF Next, Loop, Iterate, ReadDown, SaveKnown, Heartbeat, Crash, Restart, PollStatus,
            QueryStatus, ResetMonitor, Tick, vars, loopVars

-----------------------------------------------------------------------------
\* However starts and stops follow on each other, one loop runs at a time, as long
\* as no start overlaps with another call and no stop gives up: OneLoop.
THEOREM DetectorOneLoop == Spec => [](TypeOK /\ OneLoop)
<1>1. Init => IInv
  BY DetectorInitial
<1>2. IInv /\ [Next]_vars => IInv'
  BY DetectorInductive
<1>3. IInv => TypeOK /\ OneLoop
  BY DEF IInv, Sole, OneLoop
<1> QED BY <1>1, <1>2, <1>3, PTL DEF Spec

\* Between two rounds _known_down is what was reported, over restarts too, as long
\* as they leave one loop: KnownIsReported is invariant.
THEOREM DetectorKnown == Spec => []KnownIsReported
<1>1. Init => IInv
  BY DetectorInitial
<1>2. IInv /\ [Next]_vars => IInv'
  BY DetectorInductive
<1>3. IInv => KnownIsReported
  BY DEF IInv, Reports, ReportedDown, KnownIsReported
<1> QED BY <1>1, <1>2, <1>3, PTL DEF Spec

\* No step reports a failure of a server that did not time out: NoFalseAlarm.
THEOREM DetectorNoFalseAlarm == Spec => NoFalseAlarm
<1>1. Init => IInv
  BY DetectorInitial
<1>2. IInv /\ [Next]_vars => IInv'
  BY DetectorInductive
<1>3. IInv /\ [Next]_vars =>
        [\A s \in Servers : ~tangled /\ reported[s] = "up" /\ reported'[s] = "down" => s \in lapsed]_vars
  BY NoAlarmStep
<1> QED BY <1>1, <1>2, <1>3, PTL DEF Spec, NoFalseAlarm
===============================================================================
