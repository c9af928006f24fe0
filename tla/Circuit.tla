------------------------------- MODULE Circuit -------------------------------
(***************************************************************************)
(* The data of CircuitBreaker (src/circuit_breaker/state_machine.py) and   *)
(* what its methods do to it, as operators from circuit to circuit.  Each  *)
(* method holds the breaker's RLock; which of them are one step all the    *)
(* same, although somebody may write without that lock, Breaker says.      *)
(***************************************************************************)
EXTENDS Naturals

CONSTANTS
  FailureThreshold,   \* failures in a row that open the circuit
  RecoveryTimeout,    \* time it stays OPEN after its last failure
  HalfOpenSuccesses   \* successes in HALF_OPEN that close it

ASSUME ThresholdAssumption == FailureThreshold \in Nat \ {0}
ASSUME TimeoutAssumption == RecoveryTimeout \in Nat
ASSUME SuccessesAssumption == HalfOpenSuccesses \in Nat \ {0}

\* failures is compared with the threshold only and stops there; age, the time
\* since _last_failure_time, is compared with the timeout only and stops there.
CircuitType ==
  [state: {"CLOSED", "OPEN", "HALF_OPEN"},
   failures: 0 .. FailureThreshold,
   successes: 0 .. HalfOpenSuccesses,
   age: 0 .. RecoveryTimeout]

InitialCircuit ==
  [state |-> "CLOSED", failures |-> 0, successes |-> 0, age |-> RecoveryTimeout]

-----------------------------------------------------------------------------
UpTo(bound, n) == IF n < bound THEN n ELSE bound

\* _transition: every new state starts without successes.
TransitionTo(c, new) ==
  [state |-> new,
   failures |-> IF new = "CLOSED" THEN 0 ELSE c.failures,
   successes |-> 0,
   age |-> IF new = "OPEN" THEN 0 ELSE c.age]

MutNeverPoll(c) == c

\* The state property and allow_request look at the timeout first.
Poll(c) ==
  IF c.state = "OPEN" /\ c.age >= RecoveryTimeout THEN TransitionTo(c, "HALF_OPEN") ELSE c

Allows(c) == Poll(c).state # "OPEN"

MutKeepFailures(c) == c

\* record_success outside HALF_OPEN.
ClearFailures(c) == [c EXCEPT !.failures = 0]

MutConclude(c) == IF c.successes > HalfOpenSuccesses THEN TransitionTo(c, "CLOSED") ELSE c

\* record_success in HALF_OPEN, once it has counted itself.
Conclude(c) == IF c.successes >= HalfOpenSuccesses THEN TransitionTo(c, "CLOSED") ELSE c

\* A failure outside HALF_OPEN is counted, and dated.
Counted(c) ==
  [state |-> c.state, failures |-> UpTo(FailureThreshold, c.failures + 1),
   successes |-> c.successes, age |-> 0]

\* record_failure, in OPEN too: a late failure postpones the recovery.
Fail(c) ==
  IF c.state = "HALF_OPEN" THEN TransitionTo(c, "OPEN")
  ELSE IF Counted(c).failures >= FailureThreshold
       THEN TransitionTo(Counted(c), "OPEN") ELSE Counted(c)

\* Time passes.
Older(c) == [c EXCEPT !.age = UpTo(RecoveryTimeout, @ + 1)]
===============================================================================
