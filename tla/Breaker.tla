------------------------------- MODULE Breaker -------------------------------
(***************************************************************************)
(* Breaker (src/circuit_breaker/breaker.py): a CircuitBreaker and a sliding*)
(* window of outcomes (failure_tracker.py) side by side.  The two have     *)
(* locks of their own and Breaker has none, so a report is several steps:  *)
(* into the window, into the circuit and, for a failure, a look at the rate*)
(* and a forced opening that does not take the circuit's lock; and the     *)
(* protected call runs between its admission and its report without one.   *)
(*                                                                         *)
(* The forced opening is three writes, of constants: the state, the count  *)
(* of successes, the time.  One that falls inside a method which holds the *)
(* lock nearly always does what it would have done just before or just     *)
(* after that method, since the method writes the same value, or goes on   *)
(* only when it has found that value.  The exception is record_success in  *)
(* HALF_OPEN: its count may be cleared, or its state overwritten, under its*)
(* hands.  So that is the method which is taken apart here.                *)
(***************************************************************************)
EXTENDS Circuit, SequencesExt

CONSTANTS
  Callers,      \* threads that use the breaker: one behind the dashboard's lock
  RateLimit,    \* failure_rate_threshold, in percent
  Window,       \* window_seconds
  MaxEvents     \* bound on the outcomes under way or remembered, for model checking

ASSUME CallersAssumption == IsFiniteSet(Callers) /\ Callers # {}
ASSUME RateAssumption == RateLimit \in Nat
ASSUME WindowAssumption == Window \in Nat
ASSUME EventsAssumption == MaxEvents \in Nat

VARIABLES
  cb,        \* self.cb
  events,    \* self.tracker._events: the age and the outcome of each call
  pc,        \* where each caller stands in call
  tally,     \* the count that the caller in record_success has read
  broken,    \* whether the protected service may still fail
  streak,    \* history: failures the circuit heard of since the last success
  trials     \* history: calls let through since the circuit went HALF_OPEN

vars == <<cb, events, pc, tally, broken, streak, trials>>

\* Trials are counted up to one more than there should be.
MaxTrials == (HalfOpenSuccesses + 1) * Cardinality(Callers)

\* An age is compared with the window only and stops just past it.
Event == [age: 0 .. (Window + 1), failed: BOOLEAN]

Places == {"idle", "calling", "succeeded", "counting", "concluding",
           "failed", "checking", "forcing", "clearing", "dating"}

TypeOK ==
  /\ cb \in CircuitType
  /\ events \in Seq(Event)
  /\ pc \in [Callers -> Places]
  /\ tally \in 0 .. HalfOpenSuccesses
  /\ broken \in BOOLEAN
  /\ streak \in 0 .. FailureThreshold
  /\ trials \in 0 .. MaxTrials

Init ==
  /\ cb = InitialCircuit
  /\ events = <<>>
  /\ pc = [c \in Callers |-> "idle"]
  /\ tally = 0
  /\ broken = TRUE
  /\ streak = 0
  /\ trials = 0

-----------------------------------------------------------------------------
\* _prune pops off the left while what it finds there is older than the window.
Stale(es) == {i \in DOMAIN es : \A j \in 1 .. i : es[j].age > Window}

Prune(es) == SubSeq(es, Cardinality(Stale(es)) + 1, Len(es))

Record(failed) == events' = Prune(Append(events, [age |-> 0, failed |-> failed]))

Failures(es) == Len(SelectSeq(es, LAMBDA e : e.failed))

\* failure_percentage() > failure_rate_threshold, the empty window being at 0.
RateHigh(es) == Failures(es) * 100 > RateLimit * Len(es)

At(c, here, there) == pc[c] = here /\ pc' = [pc EXCEPT ![c] = there]

\* A circuit that leaves HALF_OPEN forgets its trials.
KeepTrials == trials' = IF cb'.state = "HALF_OPEN" THEN trials ELSE 0

Busy == Cardinality({c \in Callers : pc[c] # "idle"})

\* The circuit's lock is free: nobody is in the middle of record_success.
LockFree == \A c \in Callers : pc[c] \notin {"counting", "concluding"}

Admit(c) ==
  /\ LockFree
  /\ Len(Prune(events)) + Busy < MaxEvents
  /\ Allows(cb)
  /\ cb' = Poll(cb)
  /\ At(c, "idle", "calling")
  /\ trials' = IF cb'.state = "HALF_OPEN" THEN UpTo(MaxTrials, trials + 1) ELSE 0
  /\ UNCHANGED <<events, tally, broken, streak>>

\* The call returns, and record_success or record_failure begins: the tracker
\* first.  A broken service may still answer; a mended one always does.
ServeWell(c) ==
  /\ At(c, "calling", "succeeded")
  /\ Record(FALSE)
  /\ UNCHANGED <<cb, tally, broken, streak, trials>>

ServeBadly(c) ==
  /\ broken
  /\ At(c, "calling", "failed")
  /\ Record(TRUE)
  /\ UNCHANGED <<cb, tally, broken, streak, trials>>

\* The circuit next: a success outside HALF_OPEN.
NoteSuccess(c) ==
  /\ LockFree
  /\ cb.state # "HALF_OPEN"
  /\ At(c, "succeeded", "idle")
  /\ cb' = ClearFailures(cb)
  /\ streak' = 0
  /\ UNCHANGED <<events, tally, broken, trials>>

\* A success in HALF_OPEN takes the lock, finds that state and reads the count;
ReadCount(c) ==
  /\ LockFree
  /\ cb.state = "HALF_OPEN"
  /\ At(c, "succeeded", "counting")
  /\ tally' = cb.successes
  /\ UNCHANGED <<cb, events, broken, streak, trials>>

\* writes it back, one higher;
WriteCount(c) ==
  /\ At(c, "counting", "concluding")
  /\ cb' = [cb EXCEPT !.successes = tally + 1]
  /\ tally' = 0
  /\ UNCHANGED <<events, broken, streak, trials>>

\* and reads it once more to see whether it was the last, whatever the state.
EndCount(c) ==
  /\ At(c, "concluding", "idle")
  /\ cb' = Conclude(cb)
  /\ streak' = 0
  /\ KeepTrials
  /\ UNCHANGED <<events, tally, broken>>

NoteFailure(c) ==
  /\ LockFree
  /\ At(c, "failed", "checking")
  /\ cb' = Fail(cb)
  /\ streak' = UpTo(FailureThreshold, streak + 1)
  /\ KeepTrials
  /\ UNCHANGED <<events, tally, broken>>

\* get_counts prunes the window; the percentage is then compared without a lock.
CheckRate(c) ==
  /\ events' = Prune(events)
  /\ \/ RateHigh(events') /\ At(c, "checking", "forcing")
     \/ ~RateHigh(events') /\ At(c, "checking", "idle")
  /\ UNCHANGED <<cb, tally, broken, streak, trials>>

MutForce(c) ==
  /\ At(c, "forcing", "clearing")
  /\ cb' = IF cb.failures >= FailureThreshold THEN [cb EXCEPT !.state = "OPEN"] ELSE cb
  /\ KeepTrials
  /\ UNCHANGED <<events, tally, broken, streak>>

\* self.cb._transition(OPEN), without the lock and whatever the state is by now.
ForceOpen(c) ==
  /\ At(c, "forcing", "clearing")
  /\ cb' = [cb EXCEPT !.state = "OPEN"]
  /\ KeepTrials
  /\ UNCHANGED <<events, tally, broken, streak>>

\* Its second write may find the circuit probing again,
ForceClear(c) ==
  /\ At(c, "clearing", "dating")
  /\ cb' = [cb EXCEPT !.successes = 0]
  /\ UNCHANGED <<events, tally, broken, streak, trials>>

\* and so may its third.
ForceDate(c) ==
  /\ At(c, "dating", "idle")
  /\ cb' = [cb EXCEPT !.age = 0]
  /\ UNCHANGED <<events, tally, broken, streak, trials>>

ReadState ==
  /\ LockFree
  /\ cb' = Poll(cb)
  /\ UNCHANGED <<events, pc, tally, broken, streak, trials>>

\* The service is mended, for good.
Mend ==
  /\ broken
  /\ broken' = FALSE
  /\ UNCHANGED <<cb, events, pc, tally, streak, trials>>

Tick ==
  /\ cb' = Older(cb)
  /\ events' = [i \in DOMAIN events |-> [events[i] EXCEPT !.age = UpTo(Window + 1, @ + 1)]]
  /\ UNCHANGED <<pc, tally, broken, streak, trials>>

Finish(c) ==
  \/ ServeWell(c) \/ ServeBadly(c)
  \/ NoteSuccess(c) \/ ReadCount(c) \/ WriteCount(c) \/ EndCount(c)
  \/ NoteFailure(c) \/ CheckRate(c)
  \/ ForceOpen(c) \/ ForceClear(c) \/ ForceDate(c)

Next ==
  \/ \E c \in Callers : Admit(c) \/ Finish(c)
  \/ ReadState \/ Mend \/ Tick

Spec == Init /\ [][Next]_vars

-----------------------------------------------------------------------------
(***************************************************************************)
(* In a CLOSED circuit the counter is the number of failures since the last*)
(* success, whatever cycles of opening, forced or not, late outcomes and   *)
(* probing went before; it is below the threshold.                         *)
(***************************************************************************)
CountsConsecutive ==
  cb.state = "CLOSED" => cb.failures = streak /\ streak < FailureThreshold

(***************************************************************************)
(* What limits the trials of one probing phase is the number of threads: of*)
(* the calls let through, fewer than half_open_successes are counted, none *)
(* has failed and the others are still under way, or have been forgotten:  *)
(* each other thread may have begun to force the circuit open before the   *)
(* phase and clear the count in the middle of it, even of the success that *)
(* was to be the last.  Those make the limit a product, and it is reached. *)
(***************************************************************************)
TrialsBounded ==
  cb.state = "HALF_OPEN" => trials < (HalfOpenSuccesses + 1) * Cardinality(Callers)

(***************************************************************************)
(* Once every report is through, a failure that came last and left the     *)
(* window above the limit has opened the circuit, whatever other reports   *)
(* and probes were interleaved with its four steps.                        *)
(***************************************************************************)
FailureTrips ==
  /\ \A c \in Callers : pc[c] \in {"idle", "calling"}
  /\ events # <<>>
  /\ Last(events).failed /\ Last(events).age = 0
  /\ RateHigh(Prune(events))
  => cb.state = "OPEN"

-----------------------------------------------------------------------------
(***************************************************************************)
(* Fairness: time passes, the dashboard's poll reads the state, a call that*)
(* was let through ends and is reported, and there is always a customer    *)
(* who tries again.  A broken service need not be mended.                  *)
(***************************************************************************)
Fairness ==
  /\ WF_vars(Tick) /\ WF_vars(ReadState)
  /\ \A c \in Callers : WF_vars(Finish(c)) /\ SF_vars(Admit(c))

FairSpec == Spec /\ Fairness

(***************************************************************************)
(* A circuit does not stay OPEN: it comes to probe, or the success of a    *)
(* probe has overwritten the forced opening, although late failures of     *)
(* calls let through earlier, and forced openings, restart its timeout.    *)
(***************************************************************************)
OpenEnds == cb.state = "OPEN" ~> cb.state # "OPEN"

(***************************************************************************)
(* Once the service is mended the circuit ends up CLOSED for good: neither *)
(* the failures still in the window nor a belated forced opening keep it   *)
(* from closing.                                                           *)
(***************************************************************************)
MendedCloses == <>(~broken) => <>[](cb.state = "CLOSED")
===============================================================================
