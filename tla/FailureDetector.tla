---------------------------- MODULE FailureDetector ----------------------------
(***************************************************************************)
(* HeartbeatMonitor (src/monitoring/heartbeat.py) and the FailureDetector  *)
(* that watches it from a thread of its own (failure_detector.py).  Every  *)
(* method of the monitor holds its lock and is one action.  The detector's *)
(* loop and start and stop hold none: they read and write _thread,         *)
(* _stop_event and _known_down step by step.  Calls of start and stop that *)
(* overlap, or a stop that times out, can therefore leave more loops than  *)
(* one, which share _known_down; `tangled' remembers that.  Nobody passes  *)
(* record_heartbeat a timestamp of his own, and the logger does not raise. *)
(***************************************************************************)
EXTENDS Naturals, FiniteSets

CONSTANTS
  Servers,     \* the servers that send heartbeats
  Timeout,     \* the age at which a heartbeat still counts
  Threads,     \* the threads start may create, and bound on them
  Controllers, \* the threads that call start and stop
  None         \* no thread

ASSUME TimeoutAssumption == Timeout \in Nat
ASSUME ThreadAssumption == None \notin Threads

VARIABLES
  sending,     \* the servers that work and send heartbeats
  age,         \* the time since each server's last heartbeat, 0 without one
  heard,       \* the keys of _heartbeats
  status,      \* _server_status: "up", "down" or no entry
  told,        \* what the monitor's listeners were told last
  thread,      \* the detector's _thread
  stopEvent,   \* its _stop_event
  ctl,         \* where each controller stands in start or stop
  joining,     \* the thread it waits for
  tangled,     \* history: a start overlapped another call, or a stop gave up
  loop,        \* where each thread stands in _run_loop
  seen,        \* its current_down
  knownDown,   \* _known_down
  reported,    \* what the detector's listeners were told last
  lapsed       \* history, while not tangled: who timed out since last reported up

monitorVars == <<age, heard, status, told>>
callVars == <<ctl, joining, tangled>>
controlVars == <<thread, stopEvent, callVars>>
loopVars == <<loop, seen, knownDown, reported>>
vars == <<sending, monitorVars, controlVars, loopVars, lapsed>>

TypeOK ==
  /\ sending \subseteq Servers
  /\ age \in [Servers -> 0 .. (Timeout + 1)]
  /\ heard \subseteq Servers
  /\ status \in [Servers -> {"up", "down", "none"}]
  /\ told \in [Servers -> {"up", "down", "none"}]
  /\ thread \in Threads \cup {None}
  /\ stopEvent \in BOOLEAN
  /\ ctl \in [Controllers -> {"idle", "clearing", "making", "starting", "stopping", "joining"}]
  /\ joining \in [Controllers -> Threads \cup {None}]
  /\ tangled \in BOOLEAN
  /\ loop \in [Threads -> {"new", "top", "checked", "read", "reporting", "saving", "dead"}]
  /\ seen \in [Threads -> SUBSET Servers]
  /\ knownDown \subseteq Servers
  /\ reported \in [Servers -> {"up", "down"}]
  /\ lapsed \subseteq Servers

Init ==
  /\ sending = Servers
  /\ age = [s \in Servers |-> 0]
  /\ heard = {}
  /\ status = [s \in Servers |-> "none"]
  /\ told = [s \in Servers |-> "none"]
  /\ thread = None
  /\ stopEvent = FALSE
  /\ ctl = [k \in Controllers |-> "idle"]
  /\ joining = [k \in Controllers |-> None]
  /\ tangled = FALSE
  /\ loop = [t \in Threads |-> "dead"]
  /\ seen = [t \in Threads |-> {}]
  /\ knownDown = {}
  /\ reported = [s \in Servers |-> "up"]
  /\ lapsed = {}

-----------------------------------------------------------------------------
\* The servers whose last heartbeat is too old.
Late == {s \in heard : age[s] > Timeout}

Fresh == [s \in Servers |-> IF s \in Late THEN "down" ELSE IF s \in heard THEN "up" ELSE status[s]]

\* record_heartbeat: a server that was down or unknown is announced.
Heartbeat(s) ==
  /\ s \in sending
  /\ heard' = heard \cup {s}
  /\ age' = [age EXCEPT ![s] = 0]
  /\ status' = [status EXCEPT ![s] = "up"]
  /\ told' = IF status[s] = "up" THEN told ELSE [told EXCEPT ![s] = "up"]
  /\ UNCHANGED <<sending, controlVars, loopVars, lapsed>>

\* check_server_health: who was not down before and is now is announced.
Check ==
  /\ status' = Fresh
  /\ told' = [s \in Servers |-> IF s \in Late /\ status[s] # "down" THEN "down" ELSE told[s]]
  /\ UNCHANGED <<age, heard>>

\* get_all_server_status refreshes the status without announcing anything.
PollStatus ==
  /\ status' = Fresh
  /\ UNCHANGED <<sending, age, heard, told, controlVars, loopVars, lapsed>>

\* HeartbeatMonitor.reset forgets every server.
ResetMonitor ==
  /\ heard' = {}
  /\ age' = [s \in Servers |-> 0]
  /\ status' = [s \in Servers |-> "none"]
  /\ UNCHANGED <<sending, told, controlVars, loopVars, lapsed>>

\* is_server_alive, get_alive_servers and get_summary check first.
QueryStatus ==
  /\ Check
  /\ UNCHANGED <<sending, controlVars, loopVars, lapsed>>

-----------------------------------------------------------------------------
MutHeedOwn(t) ==
  /\ loop[t] = "top"
  /\ \/ /\ stopEvent /\ thread \in {t, None}
        /\ loop' = [loop EXCEPT ![t] = "dead"]
        /\ UNCHANGED monitorVars
     \/ /\ ~(stopEvent /\ thread \in {t, None})
        /\ Check
        /\ loop' = [loop EXCEPT ![t] = "checked"]
  /\ UNCHANGED <<sending, controlVars, seen, knownDown, reported, lapsed>>

\* The top of the loop: leave it, or let the monitor check the servers.
Iterate(t) ==
  /\ loop[t] = "top"
  /\ \/ /\ stopEvent
        /\ loop' = [loop EXCEPT ![t] = "dead"]
        /\ UNCHANGED monitorVars
     \/ /\ ~stopEvent
        /\ Check
        /\ loop' = [loop EXCEPT ![t] = "checked"]
  /\ UNCHANGED <<sending, controlVars, seen, knownDown, reported, lapsed>>

MutReadUnchecked(t) ==
  /\ loop[t] = "checked"
  /\ seen' = [seen EXCEPT ![t] = Servers \ heard]
  /\ loop' = [loop EXCEPT ![t] = "read"]
  /\ UNCHANGED <<sending, monitorVars, controlVars, knownDown, reported, lapsed>>

MutReadAnnounced(t) ==
  /\ loop[t] = "checked"
  /\ Check
  /\ seen' = [seen EXCEPT ![t] = {s \in Servers : told'[s] = "down"}]
  /\ loop' = [loop EXCEPT ![t] = "read"]
  /\ UNCHANGED <<sending, controlVars, knownDown, reported, lapsed>>

\* get_down_servers checks once more and then lists those that are down.  What
\* others do between the two is possible before them too (QueryStatus).
ReadDown(t) ==
  /\ loop[t] = "checked"
  /\ Check
  /\ seen' = [seen EXCEPT ![t] = {s \in Servers : status'[s] = "down"}]
  /\ loop' = [loop EXCEPT ![t] = "read"]
  /\ UNCHANGED <<sending, controlVars, knownDown, reported, lapsed>>

\* The failure callbacks, then the recovery callbacks, for the changes since
\* _known_down, which is read for each; a callback's exception is swallowed.
ReportFailures(t) ==
  /\ loop[t] = "read"
  /\ reported' = [s \in Servers |-> IF s \in seen[t] \ knownDown THEN "down" ELSE reported[s]]
  /\ loop' = [loop EXCEPT ![t] = "reporting"]
  /\ UNCHANGED <<sending, monitorVars, controlVars, seen, knownDown, lapsed>>

ReportRecoveries(t) ==
  /\ loop[t] = "reporting"
  /\ reported' = [s \in Servers |-> IF s \in knownDown \ seen[t] THEN "up" ELSE reported[s]]
  /\ lapsed' = IF tangled THEN {} ELSE (lapsed \ (knownDown \ seen[t])) \cup Late
  /\ loop' = [loop EXCEPT ![t] = "saving"]
  /\ UNCHANGED <<sending, monitorVars, controlVars, seen, knownDown>>

\* The last use of current_down.
SaveKnown(t) ==
  /\ loop[t] = "saving"
  /\ knownDown' = seen[t]
  /\ seen' = [seen EXCEPT ![t] = {}]
  /\ loop' = [loop EXCEPT ![t] = "top"]
  /\ UNCHANGED <<sending, monitorVars, controlVars, reported, lapsed>>

Running(t) == loop[t] \notin {"new", "dead"}

Goes(k, here, there) == ctl[k] = here /\ ctl' = [ctl EXCEPT ![k] = there]

Tangle(p) ==
  /\ tangled' = (tangled \/ p)
  /\ lapsed' = IF tangled' THEN {} ELSE lapsed

Starting(k) == ctl[k] \in {"clearing", "making", "starting"}

\* start returns at once while the thread it knows of is alive.
StartCheck(k) ==
  /\ \A t \in Threads : t = thread => ~Running(t)
  /\ Goes(k, "idle", "clearing")
  /\ Tangle(\E j \in Controllers \ {k} : ctl[j] # "idle")
  /\ UNCHANGED <<sending, monitorVars, thread, stopEvent, joining, loopVars>>

MutNeverClear(k) ==
  /\ Goes(k, "clearing", "making")
  /\ UNCHANGED <<sending, monitorVars, thread, stopEvent, joining, tangled, loopVars, lapsed>>

StartClear(k) ==
  /\ Goes(k, "clearing", "making")
  /\ stopEvent' = FALSE
  /\ UNCHANGED <<sending, monitorVars, thread, joining, tangled, loopVars, lapsed>>

\* A thread that is dead, or was never started, and nobody waits for it stands
\* for a new one.
StartMake(k) ==
  /\ Goes(k, "making", "starting")
  /\ \E t \in Threads :
       /\ loop[t] \in {"new", "dead"}
       /\ \A j \in Controllers : joining[j] # t
       /\ thread' = t
       /\ loop' = [loop EXCEPT ![t] = "new"]
  /\ UNCHANGED <<sending, monitorVars, stopEvent, joining, tangled, seen, knownDown, reported, lapsed>>

\* _thread is read again: it may be gone, or be another that has been started,
\* and then the call raises.
StartRun(k) ==
  /\ Goes(k, "starting", "idle")
  /\ loop' = [t \in Threads |-> IF t = thread /\ loop[t] = "new" THEN "top" ELSE loop[t]]
  /\ UNCHANGED <<sending, monitorVars, thread, stopEvent, joining, tangled, seen, knownDown,
                 reported, lapsed>>

\* stop sets the event,
StopSet(k) ==
  /\ Goes(k, "idle", "stopping")
  /\ stopEvent' = TRUE
  /\ Tangle(\E j \in Controllers : Starting(j))
  /\ UNCHANGED <<sending, monitorVars, thread, joining, loopVars>>

\* joins the thread, unless there is none, or one that cannot be joined yet,
StopRead(k) ==
  /\ \/ /\ \E t \in Threads : t = thread /\ loop[t] # "new"
        /\ Goes(k, "stopping", "joining")
        /\ joining' = [joining EXCEPT ![k] = thread]
     \/ /\ \A t \in Threads : t = thread => loop[t] = "new"
        /\ Goes(k, "stopping", "idle")
        /\ UNCHANGED joining
  /\ UNCHANGED <<sending, monitorVars, thread, stopEvent, tangled, loopVars, lapsed>>

\* and forgets it, or whichever thread has taken its place.
Forget(k) ==
  /\ Goes(k, "joining", "idle")
  /\ thread' = None
  /\ joining' = [joining EXCEPT ![k] = None]
  /\ UNCHANGED <<sending, monitorVars, stopEvent, loopVars>>

MutJoined(k) == Forget(k) /\ UNCHANGED <<tangled, lapsed>>

\* The join ends with the thread
Joined(k) ==
  /\ \A t \in Threads : t = joining[k] => ~Running(t)
  /\ Forget(k)
  /\ UNCHANGED <<tangled, lapsed>>

\* or, if it has a timeout, any time.
GiveUp(k) ==
  /\ \E t \in Threads : t = joining[k] /\ Running(t)
  /\ Forget(k)
  /\ Tangle(TRUE)

\* A server crashes or comes back.
Crash(s) ==
  /\ s \in sending
  /\ sending' = sending \ {s}
  /\ UNCHANGED <<monitorVars, controlVars, loopVars, lapsed>>

Restart(s) ==
  /\ s \notin sending
  /\ sending' = sending \cup {s}
  /\ UNCHANGED <<monitorVars, controlVars, loopVars, lapsed>>

\* Time passes; a server that works is never late with its heartbeat, except
\* while it starts.
Tick ==
  /\ \A s \in sending \cap heard : age[s] # Timeout
  /\ age' = [s \in Servers |-> IF s \in heard \ Late THEN age[s] + 1 ELSE age[s]]
  /\ lapsed' = IF tangled THEN {} ELSE lapsed \cup {s \in heard : age'[s] > Timeout}
  /\ UNCHANGED <<sending, heard, status, told, controlVars, loopVars>>

Loop(t) ==
  \/ Iterate(t) \/ ReadDown(t)
  \/ ReportFailures(t) \/ ReportRecoveries(t) \/ SaveKnown(t)

Call(k) == StartClear(k) \/ StartMake(k) \/ StartRun(k) \/ StopRead(k) \/ Joined(k)

Next ==
  \/ \E s \in Servers : Heartbeat(s) \/ Crash(s) \/ Restart(s)
  \/ PollStatus \/ QueryStatus \/ ResetMonitor
  \/ \E t \in Threads : Loop(t)
  \/ \E k \in Controllers : StartCheck(k) \/ StopSet(k) \/ Call(k) \/ GiveUp(k)
  \/ Tick

Spec == Init /\ [][Next]_vars

-----------------------------------------------------------------------------
(***************************************************************************)
(* However starts and stops follow on each other, and however stops overlap*)
(* with stops, one loop runs at a time, as long as no start overlaps with  *)
(* another call that does anything and no stop gives up waiting.           *)
(***************************************************************************)
OneLoop == ~tangled => \A t, u \in Threads : Running(t) /\ Running(u) => t = u

(***************************************************************************)
(* Between two rounds of reports _known_down is exactly what was reported: *)
(* no failure and no recovery is reported twice or forgotten, over stops   *)
(* and restarts of the detector too, as long as they leave one loop.       *)
(***************************************************************************)
KnownIsReported ==
  ~tangled /\ (\A t \in Threads : loop[t] \notin {"reporting", "saving"}) =>
    knownDown = {s \in Servers : reported[s] = "down"}

(***************************************************************************)
(* No failure is reported of a server that has not timed out since it was  *)
(* last reported up, although what the loop read is stale when it reports. *)
(***************************************************************************)
NoFalseAlarm ==
  [][\A s \in Servers : ~tangled /\ reported[s] = "up" /\ reported'[s] = "down" => s \in lapsed]_vars

-----------------------------------------------------------------------------
(***************************************************************************)
(* Fairness: time passes, a server that works sends its heartbeats, a      *)
(* thread that was started and a call that was begun go on; nobody owes a  *)
(* query, a start or a stop.                                               *)
(***************************************************************************)
Fairness ==
  /\ SF_vars(Tick)
  /\ \A s \in Servers : WF_vars(Heartbeat(s))
  /\ \A t \in Threads : WF_vars(Loop(t))
  /\ \A k \in Controllers : WF_vars(Call(k))

FairSpec == Spec /\ Fairness

(***************************************************************************)
(* However tangled starts and stops have been, no loop they have left      *)
(* behind goes on once the event stays set, the forgotten ones included.   *)
(***************************************************************************)
StopsForGood == <>[]stopEvent => <>[](\A t \in Threads : ~Running(t))

\* The detector is left running, alone, and the monitor knows the server.
Watched(s) == ~tangled /\ thread # None /\ s \in heard

(***************************************************************************)
(* A server that stays silent is reported down for good, although polls    *)
(* keep the monitor from announcing it: the loop compares for itself.      *)
(***************************************************************************)
FailureReported ==
  \A s \in Servers : <>[](Watched(s) /\ s \notin sending) => <>[](reported[s] = "down")

(***************************************************************************)
(* A server that stays alive is reported up for good.                      *)
(***************************************************************************)
RecoveryReported ==
  \A s \in Servers : <>[](Watched(s) /\ s \in sending) => <>[](reported[s] = "up")
===============================================================================
