---------------------------- MODULE BreakerProofs ----------------------------
(***************************************************************************)
(* Proofs about Breaker, for any number of threads and any thresholds,     *)
(* timeouts and window.  CountsConsecutive and the types rest on what a    *)
(* caller in the middle of record_success may rely on (Locking): the lock  *)
(* keeps everybody out but those who force the circuit open.  Trials are   *)
(* bounded because each of them is a success that is counted, a call that  *)
(* has not been heard of, or was forgotten by a thread that cleared the    *)
(* count, which each thread does once in a phase at most (Accounted).      *)
(* A rate that is too high trips the circuit because the last failure, once*)
(* the circuit has heard of it, leaves nobody probing, and whoever is on   *)
(* the way to the comparison finds the rate as it is now (Tripping).       *)
(***************************************************************************)
EXTENDS Breaker, SequenceTheorems, FiniteSetTheorems, TLAPS

\* One caller at a time is in record_success, in a circuit that is not CLOSED,
\* and the count it has read is at most cleared since.
Locking ==
  /\ \A c, d \in Callers :
       pc[c] \in {"counting", "concluding"} /\ pc[d] \in {"counting", "concluding"} => c = d
  /\ \A c \in Callers : pc[c] \in {"counting", "concluding"} => cb.state # "CLOSED"
  /\ \A c \in Callers : pc[c] = "counting" => tally < HalfOpenSuccesses /\ cb.successes <= tally
  /\ cb.successes = HalfOpenSuccesses => \E c \in Callers : pc[c] = "concluding"

\* The calls that were let through and that the circuit has not counted.
UnderWay == {c \in Callers : pc[c] \in {"calling", "succeeded", "counting", "failed"}}

\* The callers that have the circuit's count still to clear.
Clearing == {c \in Callers : pc[c] = "clearing"}

Others == Callers \ Clearing

Accounted ==
  IF cb.state = "HALF_OPEN"
  THEN IF Others = {} THEN trials = 0
       ELSE trials + HalfOpenSuccesses
              <= cb.successes + Cardinality(UnderWay) + HalfOpenSuccesses * Cardinality(Others)
  ELSE trials = 0

\* The premise of FailureTrips, but for the callers.
RecentFailure ==
  /\ events # <<>>
  /\ Last(events).failed /\ Last(events).age = 0
  /\ RateHigh(Prune(events))

Tripped ==
  /\ cb.age = 0 /\ cb.state # "HALF_OPEN" /\ LockFree
  /\ cb.state = "OPEN" \/ \E c \in Callers : pc[c] \in {"checking", "forcing"}

Tripping == RecentFailure => Tripped \/ \E c \in Callers : pc[c] = "failed"

-----------------------------------------------------------------------------
\* The first n numbers are n.
LEMMA FirstNumbers ==
  ASSUME NEW n \in Nat
  PROVE  IsFiniteSet(1 .. n) /\ Cardinality(1 .. n) = n
BY FS_Interval

\* The stale outcomes are the first so many.
LEMMA StaleFirst ==
  ASSUME NEW es \in Seq(Event)
  PROVE  /\ Cardinality(Stale(es)) \in 0 .. Len(es)
         /\ Stale(es) = 1 .. Cardinality(Stale(es))
<1> DEFINE k == Cardinality(Stale(es))
<1>1. Stale(es) \subseteq 1 .. Len(es) /\ Len(es) \in Nat
  BY DEF Stale
<1>2. IsFiniteSet(Stale(es)) /\ k \in Nat /\ k <= Len(es)
  <2>1. IsFiniteSet(1 .. Len(es)) /\ Cardinality(1 .. Len(es)) = Len(es)
    BY <1>1, FirstNumbers
  <2> QED BY <1>1, <2>1, FS_Subset, FS_CardinalityType
<1>3. \A i \in Stale(es) : 1 .. i \subseteq Stale(es)
  BY <1>1 DEF Stale
<1>4. k + 1 \notin Stale(es)
  <2> SUFFICES ASSUME k + 1 \in Stale(es) PROVE FALSE
    OBVIOUS
  <2>1. 1 .. k + 1 \in SUBSET Stale(es)
    BY <1>3
  <2>2. Cardinality(1 .. k + 1) <= k
    BY <1>2, <2>1, FS_Subset
  <2>3. Cardinality(1 .. k + 1) = k + 1
    BY <1>2, FirstNumbers
  <2> QED BY <1>2, <2>2, <2>3
<1>5. Stale(es) \in SUBSET (1 .. k)
  BY <1>1, <1>2, <1>3, <1>4
<1>6. IsFiniteSet(1 .. k) /\ Cardinality(1 .. k) = k
  BY <1>2, FirstNumbers
<1>7. Stale(es) = 1 .. k
  BY <1>5, <1>6, FS_Subset
<1> QED BY <1>2, <1>7

\* What _prune leaves: a sequence that ends as before, and with nothing to prune.
LEMMA PruneProperties ==
  ASSUME NEW es \in Seq(Event)
  PROVE  /\ Prune(es) \in Seq(Event)
         /\ Prune(es) # <<>> => Last(Prune(es)) = Last(es)
         /\ Prune(Prune(es)) = Prune(es)
<1> DEFINE k == Cardinality(Stale(es))
           kept == SubSeq(es, k + 1, Len(es))
<1>1. k \in 0 .. Len(es) /\ Stale(es) = 1 .. k /\ Len(es) \in Nat
  BY StaleFirst
<1> HIDE DEF k
<1>2. /\ kept \in Seq(Event)
      /\ Len(kept) = Len(es) - k
      /\ \A i \in 1 .. Len(es) - k : kept[i] = es[k + i]
  <2>1. \A i \in k + 1 .. Len(es) : es[i] \in Event
    BY <1>1
  <2>2. /\ kept \in Seq(Event)
        /\ Len(kept) = IF k + 1 <= Len(es) THEN Len(es) - (k + 1) + 1 ELSE 0
        /\ \A i \in 1 .. Len(es) - (k + 1) + 1 : kept[i] = es[(k + 1) + i - 1]
    BY <1>1, <2>1, SubSeqProperties
  <2> QED BY <1>1, <2>2
<1> HIDE DEF kept
<1>3. Prune(es) = kept
  BY DEF Prune, k, kept
<1>4. kept # <<>> => Last(kept) = Last(es)
  BY <1>1, <1>2 DEF Last
<1>5. Stale(kept) = {}
  <2> SUFFICES ASSUME NEW i \in Stale(kept) PROVE FALSE
    OBVIOUS
  <2>1. i \in 1 .. Len(kept) /\ kept[1].age > Window
    BY <1>2 DEF Stale
  <2>2. k + 1 \in 1 .. Len(es) /\ es[k + 1].age > Window
    BY <1>1, <1>2, <2>1
  <2>3. \A j \in 1 .. k : es[j].age > Window
    BY <1>1 DEF Stale
  <2>4. k + 1 \in Stale(es)
    BY <1>1, <2>2, <2>3 DEF Stale
  <2> QED BY <1>1, <2>4
<1>6. Prune(kept) = kept
  <2>1. Cardinality(Stale(kept)) = 0
    BY <1>5, FS_EmptySet
  <2>2. Prune(kept) = SubSeq(kept, 1, Len(kept))
    BY <2>1 DEF Prune
  <2> QED BY <1>2, <2>2, SubSeqFull
<1> QED BY <1>2, <1>3, <1>4, <1>6

\* What each recording leaves: a well-typed window that ends in the outcome.
LEMMA RecordProperties ==
  ASSUME events \in Seq(Event), NEW failed \in BOOLEAN, Record(failed)
  PROVE  /\ events' \in Seq(Event)
         /\ events' # <<>> => Last(events') = [age |-> 0, failed |-> failed]
<1> DEFINE outcome == [age |-> 0, failed |-> failed]
           longer == Append(events, outcome)
<1>1. outcome \in Event
  BY WindowAssumption DEF Event
<1>2. longer \in Seq(Event) /\ Last(longer) = outcome
  BY <1>1, AppendProperties DEF Last
<1>3. events' = Prune(longer)
  BY DEF Record
<1> QED BY <1>2, <1>3, PruneProperties

\* A tick leaves a window of as many outcomes, none of which is of this moment.
LEMMA AgedProperties ==
  ASSUME events \in Seq(Event),
         events' = [i \in DOMAIN events |-> [events[i] EXCEPT !.age = UpTo(Window + 1, @ + 1)]]
  PROVE  /\ events' \in Seq(Event)
         /\ events' # <<>> => Last(events').age # 0
<1>1. ASSUME NEW e \in Event
      PROVE  /\ [e EXCEPT !.age = UpTo(Window + 1, @ + 1)] \in Event
             /\ [e EXCEPT !.age = UpTo(Window + 1, @ + 1)].age # 0
  <2> DEFINE n == UpTo(Window + 1, e.age + 1)
  <2>1. n \in 1 .. (Window + 1)
    BY WindowAssumption DEF Event, UpTo
  <2> HIDE DEF n
  <2>2. [e EXCEPT !.age = n] = [age |-> n, failed |-> e.failed] /\ e.failed \in BOOLEAN
    BY DEF Event
  <2>3. n \in 0 .. (Window + 1) /\ n # 0
    BY <2>1, WindowAssumption
  <2>4. [age |-> n, failed |-> e.failed] \in Event
    BY <2>2, <2>3 DEF Event
  <2> QED BY <2>2, <2>3, <2>4 DEF n
<1>2. events' \in Seq(Event) /\ Len(events') = Len(events)
  BY <1>1
<1>3. ASSUME events' # <<>> PROVE Last(events').age # 0
  <2>1. Len(events) \in DOMAIN events
    BY <1>2, <1>3
  <2>2. events[Len(events)] \in Event
    BY <2>1
  <2> QED BY <1>1, <1>2, <2>1, <2>2 DEF Last
<1> QED BY <1>2, <1>3

-----------------------------------------------------------------------------
\* A transition, field by field.
LEMMA TransitionFields ==
  ASSUME NEW c \in CircuitType, NEW new \in {"CLOSED", "OPEN", "HALF_OPEN"}
  PROVE  /\ TransitionTo(c, new) \in CircuitType
         /\ TransitionTo(c, new).state = new
         /\ TransitionTo(c, new).successes = 0
         /\ TransitionTo(c, new).failures = IF new = "CLOSED" THEN 0 ELSE c.failures
         /\ TransitionTo(c, new).age = IF new = "OPEN" THEN 0 ELSE c.age
<1> USE ThresholdAssumption, TimeoutAssumption, SuccessesAssumption
<1> DEFINE failures == IF new = "CLOSED" THEN 0 ELSE c.failures
           age == IF new = "OPEN" THEN 0 ELSE c.age
<1>1. TransitionTo(c, new) =
        [state |-> new, failures |-> failures, successes |-> 0, age |-> age]
  BY DEF TransitionTo, CircuitType
<1>2. failures \in 0 .. FailureThreshold /\ age \in 0 .. RecoveryTimeout
  BY DEF CircuitType
<1>3. 0 \in 0 .. HalfOpenSuccesses
  OBVIOUS
<1> HIDE DEF failures, age
<1>4. [state |-> new, failures |-> failures, successes |-> 0, age |-> age] \in CircuitType
  BY <1>2, <1>3 DEF CircuitType
<1> QED BY <1>1, <1>4 DEF failures, age

\* A failure that is counted, field by field.
LEMMA CountedFields ==
  ASSUME NEW c \in CircuitType
  PROVE  /\ Counted(c) \in CircuitType
         /\ Counted(c).state = c.state
         /\ Counted(c).successes = c.successes
         /\ Counted(c).failures = UpTo(FailureThreshold, c.failures + 1)
         /\ Counted(c).age = 0
<1> USE ThresholdAssumption, TimeoutAssumption
<1> DEFINE failures == UpTo(FailureThreshold, c.failures + 1)
<1>1. Counted(c) = [state |-> c.state, failures |-> failures, successes |-> c.successes, age |-> 0]
  BY DEF Counted, CircuitType
<1>2. failures \in 0 .. FailureThreshold
  BY DEF CircuitType, UpTo
<1> HIDE DEF failures
<1>3. [state |-> c.state, failures |-> failures, successes |-> c.successes, age |-> 0]
        \in CircuitType
  BY <1>2 DEF CircuitType
<1> QED BY <1>1, <1>3 DEF failures

\* record_success, in its two forms.
LEMMA SuccessFields ==
  ASSUME NEW c \in CircuitType
  PROVE  /\ ClearFailures(c) \in CircuitType
         /\ ClearFailures(c).state = c.state /\ ClearFailures(c).age = c.age
         /\ ClearFailures(c).successes = c.successes
         /\ ClearFailures(c).failures = 0
         /\ Conclude(c) \in CircuitType
         /\ c.successes >= HalfOpenSuccesses =>
              /\ Conclude(c).state = "CLOSED" /\ Conclude(c).failures = 0
              /\ Conclude(c).successes = 0
         /\ ~(c.successes >= HalfOpenSuccesses) => Conclude(c) = c
<1> USE ThresholdAssumption
<1>1. ClearFailures(c) = [state |-> c.state, failures |-> 0, successes |-> c.successes, age |-> c.age]
  BY DEF ClearFailures, CircuitType
<1>2. [state |-> c.state, failures |-> 0, successes |-> c.successes, age |-> c.age] \in CircuitType
  BY DEF CircuitType
<1>3. c.successes >= HalfOpenSuccesses => Conclude(c) = TransitionTo(c, "CLOSED")
  BY DEF Conclude
<1>4. ~(c.successes >= HalfOpenSuccesses) => Conclude(c) = c
  BY DEF Conclude
<1> QED BY <1>1, <1>2, <1>3, <1>4, TransitionFields

\* One write of the forced opening, or of a success.
LEMMA WriteFields ==
  ASSUME NEW c \in CircuitType
  PROVE  /\ [c EXCEPT !.state = "OPEN"] \in CircuitType
         /\ \A n \in 0 .. HalfOpenSuccesses : [c EXCEPT !.successes = n] \in CircuitType
         /\ [c EXCEPT !.age = 0] \in CircuitType
BY TimeoutAssumption DEF CircuitType

\* record_failure, case by case.
LEMMA FailFields ==
  ASSUME NEW c \in CircuitType
  PROVE  /\ Fail(c) \in CircuitType
         /\ Fail(c).state # "HALF_OPEN" /\ Fail(c).age = 0
         /\ Fail(c).successes \in {0, c.successes}
         /\ Fail(c).state = "CLOSED" =>
              /\ c.state = "CLOSED" /\ c.failures + 1 < FailureThreshold
              /\ Fail(c).failures = c.failures + 1
<1> USE ThresholdAssumption
<1>1. CASE c.state = "HALF_OPEN"
  BY <1>1, TransitionFields DEF Fail
<1>2. CASE c.state # "HALF_OPEN" /\ Counted(c).failures >= FailureThreshold
  BY <1>2, CountedFields, TransitionFields DEF Fail
<1>3. CASE c.state # "HALF_OPEN" /\ ~(Counted(c).failures >= FailureThreshold)
  <2>1. Fail(c) = Counted(c)
    BY <1>3 DEF Fail
  <2>2. c.failures + 1 < FailureThreshold /\ Counted(c).failures = c.failures + 1
    BY <1>3, CountedFields DEF UpTo, CircuitType
  <2> QED BY <1>3, <2>1, <2>2, CountedFields
<1> QED BY <1>1, <1>2, <1>3

\* A look at the state may begin the probing, without successes.
LEMMA PollFields ==
  ASSUME NEW c \in CircuitType
  PROVE  /\ Poll(c) \in CircuitType
         /\ \/ Poll(c) = c
            \/ /\ c.state = "OPEN" /\ c.age >= RecoveryTimeout
               /\ Poll(c).state = "HALF_OPEN" /\ Poll(c).successes = 0
BY TransitionFields DEF Poll

\* Time changes the age only.
LEMMA OlderFields ==
  ASSUME NEW c \in CircuitType
  PROVE  /\ Older(c) \in CircuitType
         /\ Older(c).state = c.state /\ Older(c).failures = c.failures
         /\ Older(c).successes = c.successes
<1> DEFINE age == UpTo(RecoveryTimeout, c.age + 1)
<1>1. Older(c) = [state |-> c.state, failures |-> c.failures, successes |-> c.successes, age |-> age]
  BY DEF Older, CircuitType
<1>2. age \in 0 .. RecoveryTimeout
  BY TimeoutAssumption DEF CircuitType, UpTo
<1> HIDE DEF age
<1>3. [state |-> c.state, failures |-> c.failures, successes |-> c.successes, age |-> age]
        \in CircuitType
  BY <1>2 DEF CircuitType
<1> QED BY <1>1, <1>3

-----------------------------------------------------------------------------
\* Nothing has happened at first.
LEMMA BreakerInitial == Init => TypeOK /\ Locking /\ CountsConsecutive /\ Accounted /\ Tripping
<1> SUFFICES ASSUME Init PROVE TypeOK /\ Locking /\ CountsConsecutive /\ Accounted /\ Tripping
  OBVIOUS
<1> USE ThresholdAssumption, TimeoutAssumption, SuccessesAssumption DEF Init, InitialCircuit
<1>1. MaxTrials \in Nat
  BY CallersAssumption, FS_CardinalityType DEF MaxTrials
<1>2. TypeOK
  BY <1>1 DEF TypeOK, CircuitType, Places
<1> QED BY <1>2 DEF Locking, CountsConsecutive, Accounted, Tripping, RecentFailure

\* Trials are counted within their bound.
LEMMA TrialsType ==
  ASSUME TypeOK
  PROVE  /\ MaxTrials \in Nat
         /\ UpTo(MaxTrials, trials + 1) \in 0 .. MaxTrials
         /\ KeepTrials => trials' \in 0 .. MaxTrials
<1>1. MaxTrials \in Nat
  BY CallersAssumption, SuccessesAssumption, FS_CardinalityType DEF MaxTrials
<1> QED BY <1>1 DEF TypeOK, UpTo, KeepTrials

\* Whoever moves is where he says, and comes to where he says.
LEMMA Moves ==
  ASSUME TypeOK, NEW c \in Callers, NEW here, NEW there \in Places, At(c, here, there)
  PROVE  /\ pc[c] = here /\ pc'[c] = there
         /\ \A d \in Callers : d # c => pc'[d] = pc[d]
         /\ pc' \in [Callers -> Places]
BY DEF At, TypeOK

\* Every step keeps every variable within its type.
LEMMA TypeInductive == TypeOK /\ Locking /\ [Next]_vars => TypeOK'
<1> SUFFICES ASSUME TypeOK, Locking, [Next]_vars PROVE TypeOK'
  OBVIOUS
<1> USE DEF Places
<1>0. /\ cb \in CircuitType /\ events \in Seq(Event) /\ trials \in 0 .. MaxTrials
      /\ tally \in 0 .. HalfOpenSuccesses /\ HalfOpenSuccesses \in Nat \ {0}
  BY SuccessesAssumption DEF TypeOK
<1>1. ASSUME NEW c \in Callers, Admit(c) PROVE TypeOK'
  <2>1. cb' \in CircuitType
    BY <1>0, <1>1, PollFields DEF Admit
  <2>2. trials' \in 0 .. MaxTrials
    BY <1>1, TrialsType DEF Admit
  <2> QED BY <1>1, <2>1, <2>2 DEF Admit, At, TypeOK
<1>2. ASSUME NEW c \in Callers, ServeWell(c) PROVE TypeOK'
  <2>1. events' \in Seq(Event)
    BY <1>0, <1>2, RecordProperties DEF ServeWell
  <2> QED BY <1>2, <2>1 DEF ServeWell, At, TypeOK
<1>3. ASSUME NEW c \in Callers, ServeBadly(c) PROVE TypeOK'
  <2>1. events' \in Seq(Event)
    BY <1>0, <1>3, RecordProperties DEF ServeBadly
  <2> QED BY <1>3, <2>1 DEF ServeBadly, At, TypeOK
<1>4. ASSUME NEW c \in Callers, NoteSuccess(c) PROVE TypeOK'
  <2>1. cb' \in CircuitType
    BY <1>0, <1>4, SuccessFields DEF NoteSuccess
  <2>2. streak' \in 0 .. FailureThreshold
    BY <1>4, ThresholdAssumption DEF NoteSuccess
  <2> QED BY <1>4, <2>1, <2>2 DEF NoteSuccess, At, TypeOK
<1>5. ASSUME NEW c \in Callers, NoteFailure(c) PROVE TypeOK'
  <2>1. cb' \in CircuitType
    BY <1>0, <1>5, FailFields DEF NoteFailure
  <2>2. trials' \in 0 .. MaxTrials
    BY <1>5, TrialsType DEF NoteFailure
  <2>3. streak' \in 0 .. FailureThreshold
    BY <1>5, ThresholdAssumption DEF NoteFailure, UpTo, TypeOK
  <2> QED BY <1>5, <2>1, <2>2, <2>3 DEF NoteFailure, At, TypeOK
<1>6. ASSUME NEW c \in Callers, CheckRate(c) PROVE TypeOK'
  <2>1. events' \in Seq(Event)
    BY <1>0, <1>6, PruneProperties DEF CheckRate
  <2> QED BY <1>6, <2>1 DEF CheckRate, At, TypeOK
<1>7. ASSUME NEW c \in Callers, ForceOpen(c) PROVE TypeOK'
  <2>1. cb' \in CircuitType
    BY <1>0, <1>7, WriteFields DEF ForceOpen
  <2>2. trials' \in 0 .. MaxTrials
    BY <1>7, TrialsType DEF ForceOpen
  <2> QED BY <1>7, <2>1, <2>2 DEF ForceOpen, At, TypeOK
<1>8. ASSUME NEW c \in Callers, ForceClear(c) PROVE TypeOK'
  <2>1. cb' = [cb EXCEPT !.successes = 0] /\ 0 \in 0 .. HalfOpenSuccesses
    BY <1>0, <1>8 DEF ForceClear
  <2>2. cb' \in CircuitType
    BY <1>0, <2>1, WriteFields
  <2> QED BY <1>8, <2>2 DEF ForceClear, At, TypeOK
<1>9. ASSUME NEW c \in Callers, ForceDate(c) PROVE TypeOK'
  <2>1. cb' \in CircuitType
    BY <1>0, <1>9, WriteFields DEF ForceDate
  <2> QED BY <1>9, <2>1 DEF ForceDate, At, TypeOK
<1>10. ASSUME NEW c \in Callers, ReadCount(c) PROVE TypeOK'
  <2>1. tally' \in 0 .. HalfOpenSuccesses
    BY <1>0, <1>10 DEF ReadCount, CircuitType
  <2> QED BY <1>10, <2>1 DEF ReadCount, At, TypeOK
<1>11. ASSUME NEW c \in Callers, WriteCount(c) PROVE TypeOK'
  <2>1. tally + 1 \in 0 .. HalfOpenSuccesses
    BY <1>0, <1>11 DEF WriteCount, At, Locking
  <2>2. cb' \in CircuitType
    <3>1. cb' = [cb EXCEPT !.successes = tally + 1]
      BY <1>11 DEF WriteCount
    <3>2. [cb EXCEPT !.successes = tally + 1] \in CircuitType
      BY <1>0, <2>1, WriteFields
    <3> QED BY <3>1, <3>2
  <2>3. tally' \in 0 .. HalfOpenSuccesses
    BY <1>0, <1>11 DEF WriteCount
  <2> QED BY <1>11, <2>2, <2>3 DEF WriteCount, At, TypeOK
<1>12. ASSUME NEW c \in Callers, EndCount(c) PROVE TypeOK'
  <2>1. cb' \in CircuitType
    BY <1>0, <1>12, SuccessFields DEF EndCount
  <2>2. trials' \in 0 .. MaxTrials
    BY <1>12, TrialsType DEF EndCount
  <2>3. streak' \in 0 .. FailureThreshold
    BY <1>12, ThresholdAssumption DEF EndCount
  <2> QED BY <1>12, <2>1, <2>2, <2>3 DEF EndCount, At, TypeOK
<1>13. CASE ReadState
  BY <1>0, <1>13, PollFields DEF ReadState, TypeOK
<1>14. CASE Mend
  BY <1>14 DEF Mend, TypeOK
<1>15. CASE Tick
  <2>1. cb' \in CircuitType
    BY <1>0, <1>15, OlderFields DEF Tick
  <2>2. events' \in Seq(Event)
    BY <1>0, <1>15, AgedProperties DEF Tick
  <2> QED BY <1>15, <2>1, <2>2 DEF Tick, TypeOK
<1>16. CASE UNCHANGED vars
  BY <1>16 DEF vars, TypeOK
<1> QED BY <1>1, <1>2, <1>3, <1>4, <1>5, <1>6, <1>7, <1>8, <1>9, <1>10, <1>11, <1>12, <1>13,
           <1>14, <1>15, <1>16 DEF Next, Finish

-----------------------------------------------------------------------------
\* While the circuit's lock is free, steps that do not take it for a success
\* leave a count below the one that closes.
LEMMA StaysFree ==
  ASSUME TypeOK, Locking, LockFree, LockFree',
         cb'.successes \in {0, cb.successes}
  PROVE  Locking'
BY SuccessesAssumption DEF LockFree, Locking, TypeOK

\* A forced opening leaves the caller in record_success what he relies on.
LEMMA ForcedLocking ==
  ASSUME TypeOK, Locking, UNCHANGED tally,
         \A c \in Callers : \A p \in {"counting", "concluding"} : pc'[c] = p <=> pc[c] = p,
         cb'.state \in {"OPEN", cb.state}, cb'.successes \in {0, cb.successes}
  PROVE  Locking'
<1>1. cb \in CircuitType /\ HalfOpenSuccesses \in Nat \ {0} /\ tally \in Nat
  BY SuccessesAssumption DEF TypeOK
<1>2. cb.successes \in Nat /\ cb'.successes <= cb.successes
  BY <1>1 DEF CircuitType
<1>3. \A c \in Callers : pc'[c] \in {"counting", "concluding"} <=> pc[c] \in {"counting", "concluding"}
  OBVIOUS
<1>4. \A c, d \in Callers :
        pc'[c] \in {"counting", "concluding"} /\ pc'[d] \in {"counting", "concluding"} => c = d
  BY <1>3 DEF Locking
<1>5. \A c \in Callers : pc'[c] \in {"counting", "concluding"} => cb'.state # "CLOSED"
  BY <1>3 DEF Locking
<1>6. \A c \in Callers : pc'[c] = "counting" => tally' < HalfOpenSuccesses /\ cb'.successes <= tally'
  BY <1>1, <1>2 DEF Locking
<1>7. cb'.successes = HalfOpenSuccesses => \E c \in Callers : pc'[c] = "concluding"
  BY <1>1 DEF Locking
<1> QED BY <1>4, <1>5, <1>6, <1>7 DEF Locking

\* Every step leaves the caller in record_success what he relies on.
LEMMA LockingInductive == TypeOK /\ Locking /\ [Next]_vars => Locking'
<1> SUFFICES ASSUME TypeOK, Locking, [Next]_vars PROVE Locking'
  OBVIOUS
<1>0. cb \in CircuitType /\ HalfOpenSuccesses \in Nat \ {0} /\ cb.successes \in 0 .. HalfOpenSuccesses
  BY SuccessesAssumption DEF TypeOK, CircuitType
<1>1. ASSUME NEW c \in Callers, Admit(c) \/ NoteSuccess(c) \/ NoteFailure(c) PROVE Locking'
  <2>1. LockFree /\ LockFree'
    BY <1>1 DEF Admit, NoteSuccess, NoteFailure, At, LockFree, TypeOK
  <2>2. cb'.successes \in {0, cb.successes}
    BY <1>0, <1>1, PollFields, SuccessFields, FailFields DEF Admit, NoteSuccess, NoteFailure
  <2> QED BY <2>1, <2>2, StaysFree
<1>2. ASSUME NEW c \in Callers, ServeWell(c) \/ ServeBadly(c) \/ CheckRate(c) PROVE Locking'
  <2>1. \A d \in Callers : \A p \in {"counting", "concluding"} : pc'[d] = p <=> pc[d] = p
    BY <1>2 DEF ServeWell, ServeBadly, CheckRate, At, TypeOK
  <2> QED BY <1>2, <2>1, ForcedLocking DEF ServeWell, ServeBadly, CheckRate
<1>3. ASSUME NEW c \in Callers, ForceOpen(c) \/ ForceClear(c) \/ ForceDate(c) PROVE Locking'
  <2>1. \A d \in Callers : \A p \in {"counting", "concluding"} : pc'[d] = p <=> pc[d] = p
    BY <1>3 DEF ForceOpen, ForceClear, ForceDate, At, TypeOK
  <2>2. cb'.state \in {"OPEN", cb.state} /\ cb'.successes \in {0, cb.successes}
    BY <1>0, <1>3 DEF ForceOpen, ForceClear, ForceDate, CircuitType
  <2> QED BY <1>3, <2>1, <2>2, ForcedLocking DEF ForceOpen, ForceClear, ForceDate
<1>4. ASSUME NEW c \in Callers, ReadCount(c) PROVE Locking'
  <2>1. /\ pc'[c] = "counting" /\ cb' = cb /\ cb.state = "HALF_OPEN" /\ tally' = cb.successes
        /\ \A d \in Callers : pc'[d] \in {"counting", "concluding"} => d = c
    BY <1>4 DEF ReadCount, At, LockFree, TypeOK
  <2>2. cb.successes < HalfOpenSuccesses
    BY <1>0, <1>4 DEF ReadCount, LockFree, Locking
  <2> QED BY <1>0, <2>1, <2>2 DEF Locking
<1>5. ASSUME NEW c \in Callers, WriteCount(c) PROVE Locking'
  <2>1. /\ pc[c] = "counting" /\ pc'[c] = "concluding"
        /\ \A d \in Callers : pc'[d] \in {"counting", "concluding"} => d = c
    BY <1>5 DEF WriteCount, At, Locking, TypeOK
  <2>2. cb'.state # "CLOSED"
    BY <1>0, <1>5, <2>1 DEF WriteCount, Locking, CircuitType
  <2> QED BY <2>1, <2>2 DEF Locking
<1>6. ASSUME NEW c \in Callers, EndCount(c) PROVE Locking'
  <2>1. \A d \in Callers : pc'[d] \notin {"counting", "concluding"}
    BY <1>6 DEF EndCount, At, Locking, TypeOK
  <2>2. cb'.successes # HalfOpenSuccesses
    BY <1>0, <1>6, SuccessFields DEF EndCount
  <2> QED BY <2>1, <2>2 DEF Locking
<1>7. CASE ReadState
  BY <1>0, <1>7, PollFields, StaysFree DEF ReadState, LockFree
<1>8. CASE Mend \/ UNCHANGED vars
  BY <1>8, ForcedLocking DEF Mend, vars
<1>9. CASE Tick
  BY <1>0, <1>9, OlderFields, ForcedLocking DEF Tick
<1> QED BY <1>1, <1>2, <1>3, <1>4, <1>5, <1>6, <1>7, <1>8, <1>9 DEF Next, Finish

-----------------------------------------------------------------------------
\* In a CLOSED circuit the counter goes with the streak.
LEMMA CountsInductive == TypeOK /\ Locking /\ CountsConsecutive /\ [Next]_vars => CountsConsecutive'
<1> SUFFICES ASSUME TypeOK, Locking, CountsConsecutive, [Next]_vars PROVE CountsConsecutive'
  OBVIOUS
<1> USE DEF CountsConsecutive
<1>0. cb \in CircuitType /\ streak \in 0 .. FailureThreshold /\ FailureThreshold \in Nat \ {0}
  BY ThresholdAssumption DEF TypeOK
<1>1. ASSUME NEW c \in Callers, Admit(c) PROVE CountsConsecutive'
  BY <1>0, <1>1, PollFields DEF Admit
<1>2. ASSUME NEW c \in Callers, NoteSuccess(c) PROVE CountsConsecutive'
  BY <1>0, <1>2, SuccessFields DEF NoteSuccess
<1>3. ASSUME NEW c \in Callers, NoteFailure(c) PROVE CountsConsecutive'
  BY <1>0, <1>3, FailFields DEF NoteFailure, UpTo
<1>4. ASSUME NEW c \in Callers, WriteCount(c) PROVE CountsConsecutive'
  <2>1. cb.state # "CLOSED"
    BY <1>4 DEF WriteCount, At, Locking
  <2> QED BY <1>0, <1>4, <2>1 DEF WriteCount, CircuitType
<1>5. ASSUME NEW c \in Callers, EndCount(c) PROVE CountsConsecutive'
  <2>1. cb.state # "CLOSED"
    BY <1>5 DEF EndCount, At, Locking
  <2> QED BY <1>0, <1>5, <2>1, SuccessFields DEF EndCount
<1>6. ASSUME NEW c \in Callers, ForceOpen(c) \/ ForceClear(c) \/ ForceDate(c) PROVE CountsConsecutive'
  BY <1>0, <1>6 DEF ForceOpen, ForceClear, ForceDate, CircuitType
<1>7. ASSUME NEW c \in Callers, ServeWell(c) \/ ServeBadly(c) \/ ReadCount(c) \/ CheckRate(c)
      PROVE  CountsConsecutive'
  BY <1>7 DEF ServeWell, ServeBadly, ReadCount, CheckRate
<1>8. CASE ReadState
  BY <1>0, <1>8, PollFields DEF ReadState
<1>9. CASE Mend \/ UNCHANGED vars
  BY <1>9 DEF Mend, vars
<1>10. CASE Tick
  BY <1>0, <1>10, OlderFields DEF Tick
<1> QED BY <1>1, <1>2, <1>3, <1>4, <1>5, <1>6, <1>7, <1>8, <1>9, <1>10 DEF Next, Finish

-----------------------------------------------------------------------------
\* Products are only ever compared and taken one by one.
LEMMA Products ==
  ASSUME NEW h \in Nat, NEW m \in Nat, NEW n \in Nat
  PROVE  /\ h * n \in Nat
         /\ h * (n + 1) = h * n + h
         /\ (h + 1) * n = h * n + n
         /\ m <= n => h * m <= h * n
<1>1. h * n \in Nat /\ h * (n + 1) = h * n + h /\ (h + 1) * n = h * n + n
  OBVIOUS
<1>2. ASSUME m <= n PROVE h * m <= h * n
  <2>1. PICK k \in Nat : n = m + k
    BY <1>2
  <2>2. h * n = h * m + h * k /\ h * k \in Nat /\ h * m \in Nat
    BY <2>1
  <2> QED BY <2>2
<1> QED BY <1>1, <1>2

\* Calls under way are finitely many, and so are those not about to clear.
LEMMA Finite ==
  /\ IsFiniteSet(UnderWay) /\ IsFiniteSet(Others) /\ IsFiniteSet(Callers)
  /\ Cardinality(UnderWay) \in Nat /\ Cardinality(Others) \in Nat /\ Cardinality(Callers) \in Nat
  /\ UnderWay \in SUBSET Others /\ Cardinality(UnderWay) <= Cardinality(Others)
  /\ Cardinality(Others) <= Cardinality(Callers)
<1>1. UnderWay \in SUBSET Others /\ Others \in SUBSET Callers
  BY DEF UnderWay, Others, Clearing
<1> QED BY <1>1, CallersAssumption, FS_Subset, FS_CardinalityType

\* A step that leaves HALF_OPEN, or does not enter it, accounts for no trial.
LEMMA NoTrials ==
  ASSUME cb'.state # "HALF_OPEN", KeepTrials
  PROVE  Accounted'
BY DEF KeepTrials, Accounted

\* A step of callers that keep the circuit and their standing towards it.
LEMMA SameTrials ==
  ASSUME Accounted, UnderWay' = UnderWay, Others' = Others, trials' = trials,
         cb'.state = cb.state, cb'.successes = cb.successes
  PROVE  Accounted'
BY DEF Accounted

\* Every trial stays accounted for.
LEMMA AccountedInductive == TypeOK /\ Locking /\ Accounted /\ [Next]_vars => Accounted'
<1> SUFFICES ASSUME TypeOK, Locking, Accounted, [Next]_vars PROVE Accounted'
  OBVIOUS
<1> DEFINE weight == HalfOpenSuccesses * Cardinality(Others)
<1>0. /\ cb \in CircuitType /\ trials \in Nat /\ cb.successes \in 0 .. HalfOpenSuccesses
      /\ HalfOpenSuccesses \in Nat \ {0} /\ Cardinality(UnderWay) \in Nat
      /\ MaxTrials \in Nat /\ weight \in Nat
  BY TrialsType, Finite, Products, SuccessesAssumption DEF TypeOK, CircuitType
<1>1. ASSUME NEW c \in Callers, Admit(c) PROVE Accounted'
  <2>1. UnderWay' = UnderWay \cup {c} /\ c \notin UnderWay /\ Others' = Others /\ c \in Others
    BY <1>1 DEF Admit, At, UnderWay, Others, Clearing, TypeOK
  <2>2. Cardinality(UnderWay)' = Cardinality(UnderWay) + 1 /\ weight' = weight
    BY <2>1, Finite, FS_AddElement
  <2>3. CASE cb' = cb
    <3>0. UpTo(MaxTrials, trials + 1) <= trials + 1
      BY <1>0 DEF UpTo
    <3>1. cb.state = "HALF_OPEN" => trials' <= trials + 1 /\ trials' \in Nat
      BY <1>1, <2>3, <3>0, TrialsType DEF Admit
    <3>2. cb.state # "HALF_OPEN" => trials' = 0
      BY <1>1, <2>3 DEF Admit
    <3>3. ASSUME cb.state = "HALF_OPEN"
          PROVE  trials + HalfOpenSuccesses <= cb.successes + Cardinality(UnderWay) + weight
      BY <2>1, <3>3 DEF Accounted
    <3>4. ASSUME cb.state = "HALF_OPEN"
          PROVE  trials' + HalfOpenSuccesses <= cb'.successes + Cardinality(UnderWay)' + weight'
      <4> HIDE DEF weight
      <4> QED BY <1>0, <2>2, <2>3, <3>1, <3>3, <3>4
    <3> QED BY <2>1, <2>3, <3>2, <3>4 DEF Accounted
  <2>4. CASE cb.state = "OPEN" /\ cb'.state = "HALF_OPEN" /\ cb'.successes = 0
    <3>1. trials = 0 /\ trials' = UpTo(MaxTrials, 1)
      BY <1>1, <2>4 DEF Admit, Accounted
    <3>2. trials' <= 1 /\ trials' \in Nat
      BY <3>1, TrialsType DEF UpTo
    <3>3. HalfOpenSuccesses <= weight
      <4>1. Cardinality(Others) \in Nat /\ Cardinality(Others) >= 1
        BY <2>1, Finite, FS_EmptySet
      <4>2. HalfOpenSuccesses * 1 <= weight
        BY <1>0, <4>1, Products
      <4> QED BY <1>0, <4>2
    <3>4. trials' + HalfOpenSuccesses <= cb'.successes + Cardinality(UnderWay)' + weight'
      <4> HIDE DEF weight
      <4> QED BY <1>0, <2>2, <2>4, <3>2, <3>3
    <3> QED BY <2>1, <2>4, <3>4 DEF Accounted
  <2> QED BY <1>0, <1>1, <2>3, <2>4, PollFields DEF Admit
<1>2. ASSUME NEW c \in Callers, ServeWell(c) \/ ServeBadly(c) PROVE Accounted'
  <2>1. UnderWay' = UnderWay /\ Others' = Others
    BY <1>2 DEF ServeWell, ServeBadly, At, UnderWay, Others, Clearing, TypeOK
  <2> QED BY <1>2, <2>1, SameTrials DEF ServeWell, ServeBadly
<1>3. ASSUME NEW c \in Callers, NoteSuccess(c) PROVE Accounted'
  <2>1. cb'.state # "HALF_OPEN" /\ trials' = trials /\ cb.state # "HALF_OPEN"
    BY <1>0, <1>3, SuccessFields DEF NoteSuccess
  <2> QED BY <2>1 DEF Accounted
<1>4. ASSUME NEW c \in Callers, ReadCount(c) PROVE Accounted'
  <2>1. UnderWay' = UnderWay /\ Others' = Others
    BY <1>4 DEF ReadCount, At, UnderWay, Others, Clearing, TypeOK
  <2> QED BY <1>4, <2>1, SameTrials DEF ReadCount
<1>5. ASSUME NEW c \in Callers, WriteCount(c) PROVE Accounted'
  <2>1. UnderWay' = UnderWay \ {c} /\ c \in UnderWay /\ Others' = Others
    BY <1>5 DEF WriteCount, At, UnderWay, Others, Clearing, TypeOK
  <2>2. Cardinality(UnderWay)' = Cardinality(UnderWay) - 1 /\ weight' = weight
    BY <2>1, Finite, FS_RemoveElement
  <2>3. cb'.state = cb.state /\ cb'.successes = tally + 1 /\ trials' = trials
    BY <1>5 DEF WriteCount, TypeOK, CircuitType
  <2>4. cb.successes <= tally /\ tally \in Nat
    BY <1>0, <1>5 DEF WriteCount, At, Locking, TypeOK
  <2>5. ASSUME cb.state = "HALF_OPEN", Others # {}
        PROVE  trials' + HalfOpenSuccesses <= cb'.successes + Cardinality(UnderWay)' + weight'
    <3>1. trials + HalfOpenSuccesses <= cb.successes + Cardinality(UnderWay) + weight
      BY <2>5 DEF Accounted
    <3> HIDE DEF weight
    <3> QED BY <1>0, <2>2, <2>3, <2>4, <3>1
  <2> QED BY <2>1, <2>3, <2>5 DEF Accounted
<1>6. ASSUME NEW c \in Callers, EndCount(c) PROVE Accounted'
  <2>1. UnderWay' = UnderWay /\ Others' = Others
    BY <1>6 DEF EndCount, At, UnderWay, Others, Clearing, TypeOK
  <2>2. CASE cb.successes >= HalfOpenSuccesses
    BY <1>0, <1>6, <2>2, SuccessFields, NoTrials DEF EndCount
  <2>3. CASE ~(cb.successes >= HalfOpenSuccesses)
    <3>1. cb' = cb /\ trials' = trials
      BY <1>0, <1>6, <2>3, SuccessFields DEF EndCount, KeepTrials, Accounted
    <3> QED BY <2>1, <3>1, SameTrials
  <2> QED BY <2>2, <2>3
<1>7. ASSUME NEW c \in Callers, NoteFailure(c) PROVE Accounted'
  BY <1>0, <1>7, FailFields, NoTrials DEF NoteFailure
<1>8. ASSUME NEW c \in Callers, CheckRate(c) PROVE Accounted'
  <2>1. UnderWay' = UnderWay /\ Others' = Others
    BY <1>8 DEF CheckRate, At, UnderWay, Others, Clearing, TypeOK
  <2> QED BY <1>8, <2>1, SameTrials DEF CheckRate
<1>9. ASSUME NEW c \in Callers, ForceOpen(c) PROVE Accounted'
  <2>1. cb'.state # "HALF_OPEN"
    BY <1>0, <1>9 DEF ForceOpen, CircuitType
  <2> QED BY <1>9, <2>1, NoTrials DEF ForceOpen
<1>10. ASSUME NEW c \in Callers, ForceClear(c) PROVE Accounted'
  <2>1. UnderWay' = UnderWay /\ Others' = Others \cup {c} /\ c \notin Others
    BY <1>10 DEF ForceClear, At, UnderWay, Others, Clearing, TypeOK
  <2>2. Cardinality(Others)' = Cardinality(Others) + 1
    BY <2>1, Finite, FS_AddElement
  <2>3. weight' = weight + HalfOpenSuccesses
    BY <1>0, <2>2, Finite, Products
  <2>4. cb'.state = cb.state /\ cb'.successes = 0 /\ trials' = trials
    BY <1>10 DEF ForceClear, TypeOK, CircuitType
  <2>5. ASSUME cb.state = "HALF_OPEN"
        PROVE  trials' + HalfOpenSuccesses <= cb'.successes + Cardinality(UnderWay)' + weight'
    <3>1. trials = 0 \/ trials + HalfOpenSuccesses <= cb.successes + Cardinality(UnderWay) + weight
      BY <2>5 DEF Accounted
    <3> HIDE DEF weight
    <3> QED BY <1>0, <2>1, <2>3, <2>4, <3>1
  <2> QED BY <2>1, <2>4, <2>5 DEF Accounted
<1>11. ASSUME NEW c \in Callers, ForceDate(c) PROVE Accounted'
  <2>1. UnderWay' = UnderWay /\ Others' = Others
    BY <1>11 DEF ForceDate, At, UnderWay, Others, Clearing, TypeOK
  <2>2. cb'.state = cb.state /\ cb'.successes = cb.successes
    BY <1>11 DEF ForceDate, TypeOK, CircuitType
  <2> QED BY <1>11, <2>1, <2>2, SameTrials DEF ForceDate
<1>12. CASE ReadState
  <2>1. UnderWay' = UnderWay /\ Others' = Others /\ trials' = trials
    BY <1>12 DEF ReadState, UnderWay, Others, Clearing
  <2>2. CASE cb' = cb
    BY <2>1, <2>2, SameTrials
  <2>3. CASE cb.state = "OPEN" /\ cb'.state = "HALF_OPEN" /\ cb'.successes = 0
    <3>1. trials = 0
      BY <2>3 DEF Accounted
    <3>2. ASSUME Others # {} PROVE HalfOpenSuccesses <= weight
      <4>1. Cardinality(Others) \in Nat /\ Cardinality(Others) >= 1
        BY <3>2, Finite, FS_EmptySet
      <4>2. HalfOpenSuccesses * 1 <= weight
        BY <1>0, <4>1, Products
      <4> QED BY <1>0, <4>2
    <3>3. ASSUME Others # {}
          PROVE  trials + HalfOpenSuccesses <= 0 + Cardinality(UnderWay) + weight
      <4> HIDE DEF weight
      <4> QED BY <1>0, <3>1, <3>2, <3>3
    <3> QED BY <2>1, <2>3, <3>1, <3>3 DEF Accounted
  <2> QED BY <1>0, <1>12, <2>2, <2>3, PollFields DEF ReadState
<1>13. CASE Mend \/ UNCHANGED vars
  BY <1>13, SameTrials DEF Mend, vars, UnderWay, Others, Clearing
<1>14. CASE Tick
  <2>1. UnderWay' = UnderWay /\ Others' = Others /\ trials' = trials
    BY <1>14 DEF Tick, UnderWay, Others, Clearing
  <2> QED BY <1>0, <1>14, <2>1, OlderFields, SameTrials DEF Tick
<1> QED BY <1>1, <1>2, <1>3, <1>4, <1>5, <1>6, <1>7, <1>8, <1>9, <1>10, <1>11, <1>12, <1>13, <1>14
        DEF Next, Finish

\* What is accounted for is below the bound.
LEMMA AccountedBounds == TypeOK /\ Locking /\ Accounted => TrialsBounded
<1> SUFFICES ASSUME TypeOK, Locking, Accounted, cb.state = "HALF_OPEN"
             PROVE  trials < (HalfOpenSuccesses + 1) * Cardinality(Callers)
  BY DEF TrialsBounded
<1> DEFINE h == HalfOpenSuccesses
           n == Cardinality(Callers)
           o == Cardinality(Others)
           u == Cardinality(UnderWay)
<1>1. /\ h \in Nat \ {0} /\ n \in Nat /\ o \in Nat /\ u \in Nat /\ u <= o /\ o <= n
      /\ trials \in Nat /\ cb.successes \in 0 .. h
  BY Finite, TrialsType, SuccessesAssumption DEF TypeOK, CircuitType
<1>2. h * o <= h * n /\ (h + 1) * n = h * n + n /\ h * o \in Nat /\ h * n \in Nat
  BY <1>1, Products
<1>3. n >= 1
  BY Finite, CallersAssumption, FS_EmptySet
<1>4. CASE Others = {}
  BY <1>1, <1>2, <1>3, <1>4 DEF Accounted
<1>5. CASE Others # {}
  <2>1. trials + h <= cb.successes + u + h * o
    BY <1>5 DEF Accounted
  <2>2. cb.successes + u < h + o
    <3>1. CASE cb.successes = h
      <4>1. PICK c \in Callers : pc[c] = "concluding"
        BY <3>1 DEF Locking
      <4>2. UnderWay \in SUBSET (Others \ {c}) /\ c \in Others
        BY <4>1 DEF UnderWay, Others, Clearing
      <4>3. Cardinality(Others \ {c}) = o - 1 /\ IsFiniteSet(Others \ {c})
        BY <4>2, Finite, FS_RemoveElement
      <4>4. u <= o - 1
        BY <4>2, <4>3, FS_Subset
      <4> QED BY <1>1, <3>1, <4>4
    <3>2. CASE cb.successes # h
      BY <1>1, <3>2
    <3> QED BY <3>1, <3>2
  <2> HIDE DEF h, n, o, u
  <2>3. trials < o + h * o
    BY <1>1, <1>2, <2>1, <2>2
  <2>4. trials < (h + 1) * n
    BY <1>1, <1>2, <2>3
  <2> QED BY <2>4 DEF h, n
<1> QED BY <1>4, <1>5

-----------------------------------------------------------------------------
\* Who has the circuit tripped leaves it so while no time passes.
LEMMA StaysTripped ==
  ASSUME TypeOK, Tripped, LockFree',
         cb'.age = 0, cb'.state \in {"OPEN", cb.state},
         cb'.state = "OPEN" \/ \E c \in Callers : pc'[c] \in {"checking", "forcing"}
  PROVE  Tripped'
BY DEF Tripped

\* The circuit has heard of the last failure and is tripped, or is to hear yet.
LEMMA TrippingInductive ==
  ASSUME RecoveryTimeout > 0, TypeOK, Tripping, [Next]_vars
  PROVE  Tripping'
<1>0. cb \in CircuitType /\ events \in Seq(Event)
  BY DEF TypeOK
<1> SUFFICES ASSUME RecentFailure'
             PROVE  Tripped' \/ \E c \in Callers : pc'[c] = "failed"
  BY DEF Tripping
<1>1. ASSUME NEW c \in Callers, ServeWell(c) PROVE FALSE
  <2>1. Last(events') = [age |-> 0, failed |-> FALSE]
    BY <1>0, <1>1, RecordProperties DEF ServeWell, RecentFailure
  <2>2. Last(events').failed = FALSE
    BY <2>1
  <2> QED BY <2>2 DEF RecentFailure
<1>2. ASSUME NEW c \in Callers, ServeBadly(c) PROVE pc'[c] = "failed"
  BY <1>2 DEF ServeBadly, At, TypeOK
<1>3. CASE Tick
  BY <1>0, <1>3, AgedProperties DEF Tick, RecentFailure
<1>4. ASSUME events' = events \/ events' = Prune(events)
      PROVE  Tripped \/ \E c \in Callers : pc[c] = "failed"
  <2>1. Prune(Prune(events)) = Prune(events) /\ (Prune(events) # <<>> => Last(Prune(events)) = Last(events))
    BY <1>0, PruneProperties
  <2>2. Prune(events') = Prune(events) /\ Last(events') = Last(events) /\ events' # <<>>
    BY <1>4, <2>1 DEF RecentFailure
  <2>3. events # <<>>
    <3> SUFFICES ASSUME events = <<>> PROVE FALSE
      OBVIOUS
    <3>1. Cardinality(Stale(events)) \in 0 .. Len(events) /\ Len(events) = 0
      BY <1>0, StaleFirst
    <3>2. Prune(events) = SubSeq(events, 1, Len(events))
      BY <3>1 DEF Prune
    <3>3. Prune(events) = events
      BY <1>0, <3>2, SubSeqFull
    <3> QED BY <1>4, <2>2, <3>3
  <2>4. RecentFailure
    BY <2>2, <2>3 DEF RecentFailure
  <2> QED BY <2>4 DEF Tripping
<1>5. ASSUME NEW c \in Callers, NoteFailure(c) PROVE Tripped'
  <2>1. pc'[c] = "checking" /\ LockFree'
    BY <1>5 DEF NoteFailure, At, LockFree, TypeOK
  <2>2. cb'.age = 0 /\ cb'.state # "HALF_OPEN"
    BY <1>0, <1>5, FailFields DEF NoteFailure
  <2> QED BY <2>1, <2>2 DEF Tripped
<1>6. ASSUME NEW c \in Callers,
             Admit(c) \/ NoteSuccess(c) \/ ReadCount(c) \/ WriteCount(c) \/ EndCount(c)
             \/ CheckRate(c) \/ ForceOpen(c) \/ ForceClear(c) \/ ForceDate(c)
      PROVE  /\ events' = events \/ events' = Prune(events)
             /\ \A d \in Callers : pc[d] = "failed" => pc'[d] = "failed"
  BY <1>6 DEF Admit, NoteSuccess, ReadCount, WriteCount, EndCount, CheckRate, ForceOpen, ForceClear,
              ForceDate, At, TypeOK
<1>7. ASSUME NEW c \in Callers, Tripped, Admit(c) \/ NoteSuccess(c) PROVE Tripped'
  <2>1. Poll(cb) = cb
    BY <1>7, TimeoutAssumption DEF Poll, Tripped
  <2>2. cb'.age = 0 /\ cb'.state = cb.state
    BY <1>0, <1>7, <2>1, SuccessFields DEF Admit, NoteSuccess, Tripped
  <2>3. LockFree' /\ \A d \in Callers : pc[d] \in {"checking", "forcing"} => pc'[d] = pc[d]
    BY <1>7 DEF Admit, NoteSuccess, At, LockFree, TypeOK
  <2> QED BY <1>7, <2>2, <2>3, StaysTripped DEF Tripped
<1>8. ASSUME NEW c \in Callers, Tripped, ReadCount(c) \/ WriteCount(c) \/ EndCount(c) PROVE FALSE
  BY <1>8 DEF ReadCount, WriteCount, EndCount, At, Tripped, LockFree
<1>9. ASSUME NEW c \in Callers, Tripped, CheckRate(c) PROVE Tripped'
  <2>1. RateHigh(Prune(events'))
    BY DEF RecentFailure
  <2>2. events' = Prune(events) /\ Prune(Prune(events)) = Prune(events)
    BY <1>0, <1>9, PruneProperties DEF CheckRate
  <2>3. RateHigh(events')
    BY <2>1, <2>2
  <2>4. pc'[c] = "forcing" /\ LockFree' /\ cb' = cb
    BY <1>9, <2>3 DEF CheckRate, At, LockFree, Tripped, TypeOK
  <2> QED BY <1>9, <2>4, StaysTripped DEF Tripped
<1>10. ASSUME NEW c \in Callers, Tripped, ForceOpen(c) PROVE Tripped'
  <2>1. cb'.state = "OPEN" /\ cb'.age = 0
    BY <1>0, <1>10 DEF ForceOpen, Tripped, CircuitType
  <2>2. LockFree'
    BY <1>10 DEF ForceOpen, At, LockFree, Tripped, TypeOK
  <2> QED BY <2>1, <2>2 DEF Tripped
<1>11. ASSUME NEW c \in Callers, Tripped, ForceClear(c) \/ ForceDate(c) PROVE Tripped'
  <2>1. cb'.state = cb.state /\ cb'.age = 0
    BY <1>0, <1>11 DEF ForceClear, ForceDate, Tripped, CircuitType
  <2>2. LockFree' /\ \A d \in Callers : pc[d] \in {"checking", "forcing"} => pc'[d] = pc[d]
    BY <1>11 DEF ForceClear, ForceDate, At, LockFree, Tripped, TypeOK
  <2> QED BY <1>11, <2>1, <2>2, StaysTripped DEF Tripped
<1>12. ASSUME ReadState \/ Mend \/ UNCHANGED vars
       PROVE  Tripped' \/ \E c \in Callers : pc'[c] = "failed"
  <2>1. events' = events /\ pc' = pc
    BY <1>12 DEF ReadState, Mend, vars
  <2>2. ASSUME Tripped PROVE cb' = cb
    BY <1>12, <2>2, TimeoutAssumption DEF ReadState, Mend, vars, Poll, Tripped
  <2> QED BY <1>4, <2>1, <2>2 DEF Tripped, LockFree
<1>13. ASSUME NEW c \in Callers,
              Admit(c) \/ NoteSuccess(c) \/ ReadCount(c) \/ WriteCount(c) \/ EndCount(c)
              \/ CheckRate(c) \/ ForceOpen(c) \/ ForceClear(c) \/ ForceDate(c)
       PROVE  Tripped' \/ \E d \in Callers : pc'[d] = "failed"
  BY <1>4, <1>6, <1>7, <1>8, <1>9, <1>10, <1>11, <1>13
<1> QED BY <1>1, <1>2, <1>3, <1>5, <1>12, <1>13 DEF Next, Finish

-----------------------------------------------------------------------------
\* What holds of every state, and lets each step be taken for what it is.
LEMMA BreakerInvariant == Spec => [](TypeOK /\ Locking)
<1>1. Init => TypeOK /\ Locking
  BY BreakerInitial
<1>2. TypeOK /\ Locking /\ [Next]_vars => (TypeOK /\ Locking)'
  BY TypeInductive, LockingInductive
<1> QED BY <1>1, <1>2, PTL DEF Spec

\* The circuit, the window of its failures and the place of every caller are
\* what the code takes them to be, for any thresholds and timeouts: TypeOK.
THEOREM BreakerType == Spec => []TypeOK
BY BreakerInvariant, PTL

\* In a CLOSED circuit the counter is the number of failures since the last
\* success: CountsConsecutive is invariant.
THEOREM BreakerCounts == Spec => []CountsConsecutive
<1>1. Init => CountsConsecutive
  BY BreakerInitial
<1>2. TypeOK /\ Locking /\ CountsConsecutive /\ [Next]_vars => CountsConsecutive'
  BY CountsInductive
<1> QED BY <1>1, <1>2, BreakerInvariant, PTL DEF Spec

\* A probing phase lets through no more calls than the threads and what they may
\* make the circuit forget allow, although the circuit is forced open without
\* its lock: TrialsBounded is invariant.
THEOREM BreakerTrials == Spec => []TrialsBounded
<1>1. Init => Accounted
  BY BreakerInitial
<1>2. TypeOK /\ Locking /\ Accounted /\ [Next]_vars => Accounted'
  BY AccountedInductive
<1>3. TypeOK /\ Locking /\ Accounted => TrialsBounded
  BY AccountedBounds
<1> QED BY <1>1, <1>2, <1>3, BreakerInvariant, PTL DEF Spec

\* Once every report is through, a failure that came last and left the rate
\* above the limit has opened the circuit, if it stays open for any time at
\* all: FailureTrips is invariant.
THEOREM BreakerTrips == ASSUME RecoveryTimeout > 0 PROVE Spec => []FailureTrips
<1>1. Init => Tripping
  BY BreakerInitial
<1>2. TypeOK /\ Tripping /\ [Next]_vars => Tripping'
  BY TrippingInductive
<1>3. Tripping => FailureTrips
  BY DEF Tripping, Tripped, RecentFailure, FailureTrips
<1> QED BY <1>1, <1>2, <1>3, BreakerType, PTL DEF Spec
===============================================================================
