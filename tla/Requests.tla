------------------------------- MODULE Requests -------------------------------
(***************************************************************************)
(* What the web requests leave for the page to show, besides the seats: the*)
(* event log and the retry panel (src/dashboard.py).  book_with_retry and  *)
(* simulate_retry run a RetryManager (src/retry/retry_manager.py) whose    *)
(* callbacks log and write self.retry_status without the application's     *)
(* lock; an attempt to book and every other handler log while they hold it.*)
(***************************************************************************)
EXTENDS EventLog

CONSTANTS
  None,            \* nobody
  MaxAttempts,     \* max_attempts of book_with_retry
  MaxSimulated,    \* max_attempts of simulate_retry
  SpikeLength      \* the calls of its flaky_operation that fail

ASSUME NobodyAssumption == None \notin Threads
ASSUME AttemptsAssumption == MaxAttempts \in Nat \ {0}
ASSUME SpikeAssumption ==
  MaxSimulated \in Nat /\ SpikeLength \in Nat /\ SpikeLength < MaxSimulated

VARIABLES
  appLock,     \* the thread that holds self.lock, or None
  pc,          \* where each thread stands
  simulating,  \* the threads that run simulate_retry
  attempt,     \* the failed attempts of the thread's RetryManager.call
  owes,        \* the lines it has to log before it goes on
  retryStatus  \* self.retry_status

requestVars == <<appLock, pc, simulating, attempt, owes, retryStatus>>
vars == <<logVars, requestVars>>

\* The limit of RetryManager.call, by whose manager it is.
Limit(t) == IF t \in simulating THEN MaxSimulated ELSE MaxAttempts

MaxCount == IF MaxAttempts > MaxSimulated THEN MaxAttempts ELSE MaxSimulated

\* count, and n of "Attempt n"; whether next_delay is above zero.
RetryStatus ==
  [count: 0 .. MaxCount, delayed: BOOLEAN, stage: {"Idle", "Attempt", "Complete"},
   status: {"Ready", "Retrying", "Succeeded", "Failed", "Blocked"}]

TypeOK ==
  /\ LogType
  /\ appLock \in Threads \cup {None}
  /\ pc \in [Threads -> {"idle", "attempt", "flaky", "won", "failed", "blocked",
                         "callback", "ending"}]
  /\ simulating \subseteq Threads
  /\ attempt \in [Threads -> 0 .. MaxCount]
  /\ owes \in [Threads -> 0 .. 3]
  /\ retryStatus \in RetryStatus

Init ==
  /\ LogInit
  /\ appLock = None
  /\ pc = [t \in Threads |-> "idle"]
  /\ simulating = {}
  /\ attempt = [t \in Threads |-> 0]
  /\ owes = [t \in Threads |-> 0]
  /\ retryStatus = [count |-> 0, delayed |-> FALSE, stage |-> "Idle", status |-> "Ready"]

-----------------------------------------------------------------------------
\* Thread t stands at a point of its program, its lines logged.
At(t, here) == pc[t] = here /\ owes[t] = 0

\* It goes on from there, with so many lines to log first.
Goto(t, there, lines) ==
  /\ pc' = [pc EXCEPT ![t] = there]
  /\ owes' = [owes EXCEPT ![t] = lines]
  /\ UNCHANGED logVars

\* The line that a thread owes goes through log.
Log(t) ==
  /\ owes[t] > 0
  /\ \/ /\ Load(t) \/ Slice(t) \/ \E line \in Lines : AppendLine(t, line)
        /\ UNCHANGED owes
     \/ Rebind(t) /\ owes' = [owes EXCEPT ![t] = @ - 1]
  /\ UNCHANGED <<appLock, pc, simulating, attempt, retryStatus>>

\* confirm, cancel, renew, toggle, set_strategy, reset: a line under the lock.
Handle(t) ==
  /\ At(t, "idle") /\ appLock = None
  /\ appLock' = t
  /\ Goto(t, "ending", 1)
  /\ UNCHANGED <<simulating, attempt, retryStatus>>

BookCall(t) ==
  /\ At(t, "idle")
  /\ Goto(t, "attempt", 0)
  /\ simulating' = simulating \ {t}
  /\ attempt' = [attempt EXCEPT ![t] = 0]
  /\ UNCHANGED <<appLock, retryStatus>>

\* _book_once under the lock.  A seat leased is logged, and so may be a lease
\* that expired and a breaker that changed: one line stands for all of them.
Attempt(t) ==
  /\ At(t, "attempt") /\ appLock = None
  /\ appLock' = t
  /\ \/ Goto(t, "won", 1)
     \/ \E outcome \in {"failed", "blocked"}, n \in 0 .. 1 : Goto(t, outcome, n)
  /\ UNCHANGED <<simulating, attempt, retryStatus>>

Unlock(t) ==
  /\ appLock = t /\ owes[t] = 0
  /\ appLock' = None
  /\ UNCHANGED <<logVars, pc, simulating, attempt, owes, retryStatus>>

SimulateCall(t) ==
  /\ At(t, "idle")
  /\ Goto(t, "flaky", 0)
  /\ simulating' = simulating \cup {t}
  /\ attempt' = [attempt EXCEPT ![t] = 0]
  /\ UNCHANGED <<appLock, retryStatus>>

FlakyOperation(t) ==
  /\ At(t, "flaky")
  /\ Goto(t, IF attempt[t] < SpikeLength THEN "failed" ELSE "won", 0)
  /\ UNCHANGED <<appLock, simulating, attempt, retryStatus>>

\* A TransientBookingError with attempts left: the manager logs it.
Retry(t) ==
  /\ At(t, "failed") /\ appLock # t
  /\ attempt[t] + 1 < Limit(t)
  /\ attempt' = [attempt EXCEPT ![t] = @ + 1]
  /\ Goto(t, "callback", 1)
  /\ UNCHANGED <<appLock, simulating, retryStatus>>

\* on_retry, before the manager sleeps; simulate_retry's only logs.
OnRetry(t) ==
  /\ At(t, "callback")
  /\ Goto(t, IF t \in simulating THEN "flaky" ELSE "attempt", 1)
  /\ retryStatus' = IF t \in simulating THEN retryStatus
       ELSE [count |-> attempt[t], delayed |-> TRUE, stage |-> "Attempt", status |-> "Retrying"]
  /\ UNCHANGED <<appLock, simulating, attempt>>

MutGiveUp(t) ==
  /\ At(t, "failed") /\ appLock # t
  /\ attempt[t] + 1 >= Limit(t)
  /\ Goto(t, "ending", 3)
  /\ UNCHANGED <<appLock, simulating, attempt, retryStatus>>

\* The last attempt failed: on_giveup, the manager and _fail log a line each.
GiveUp(t) ==
  /\ At(t, "failed") /\ appLock # t
  /\ attempt[t] + 1 >= Limit(t)
  /\ Goto(t, "ending", 3)
  /\ retryStatus' = [retryStatus EXCEPT !.status = "Failed"]
  /\ UNCHANGED <<appLock, simulating, attempt>>

\* A NonRetryableBookingError, logged by _fail.
Blocked(t) ==
  /\ At(t, "blocked") /\ appLock # t
  /\ Goto(t, "ending", 1)
  /\ retryStatus' = [retryStatus EXCEPT !.status = "Blocked"]
  /\ UNCHANGED <<appLock, simulating, attempt>>

Succeeded(t) ==
  /\ At(t, "won") /\ appLock # t
  /\ Goto(t, "idle", 0)
  /\ retryStatus' =
       [count |-> attempt[t], delayed |-> FALSE, stage |-> "Complete", status |-> "Succeeded"]
  /\ UNCHANGED <<appLock, simulating, attempt>>

Return(t) ==
  /\ At(t, "ending") /\ appLock # t
  /\ Goto(t, "idle", 0)
  /\ UNCHANGED <<appLock, simulating, attempt, retryStatus>>

Next ==
  \E t \in Threads :
    \/ Log(t) \/ Unlock(t)
    \/ Handle(t) \/ Return(t)
    \/ BookCall(t) \/ Attempt(t)
    \/ SimulateCall(t) \/ FlakyOperation(t)
    \/ Retry(t) \/ OnRetry(t) \/ GiveUp(t) \/ Blocked(t) \/ Succeeded(t)

Spec == Init /\ [][Next]_vars

-----------------------------------------------------------------------------
(***************************************************************************)
(* The panel says "Retrying" only while some booking has failed an attempt *)
(* and has others ahead of it: whichever bookings overwrite one another's  *)
(* status, the last word is that of a call which has ended.                *)
(***************************************************************************)
RetryingIsUnderWay ==
  retryStatus.status = "Retrying" =>
    \E t \in Threads \ simulating : attempt[t] > 0 /\ pc[t] \notin {"idle", "ending"}
===============================================================================
