-------------------------------- MODULE Routing --------------------------------
(***************************************************************************)
(* How a booking finds its server (_book_locked and below in               *)
(* src/dashboard.py): the servers' metrics, the strategy of the load       *)
(* balancer (src/load_balancer), a second look at the breaker of the       *)
(* server it picked, and the outcome that breaker hears of.  The           *)
(* application's lock is held throughout, but time passes, and with it the *)
(* recovery timeouts of the breakers.  Between bookings administrators     *)
(* toggle servers and change the strategy.                                 *)
(***************************************************************************)
EXTENDS FiniteSetsExt

CONSTANTS
  N,           \* the servers are 1 .. N, in the order of SERVER_IDS
  Weight,      \* the weights _strategy_for gives them
  VNodes,      \* the hashes of each server's virtual nodes
  KeyHashes,   \* the hashes of the routing keys
  Threshold    \* the failover manager's two thresholds

Servers == 1 .. N

ASSUME NAssumption == N \in Nat \ {0}
ASSUME WeightAssumption == Weight \in [Servers -> Nat \ {0}]
ASSUME RingAssumption ==
  VNodes \in [Servers -> SUBSET Nat] /\ \A s \in Servers : VNodes[s] # {}
ASSUME KeyAssumption == KeyHashes \subseteq Nat
ASSUME HealthAssumption == Threshold \in Nat \ {0}

\* Resource-Aware and Adaptive Feedback pick the best score, and the scores
\* follow random walks: either may pick any server.
Strategies == {"Round Robin", "Weighted Round Robin", "Consistent Hashing", "Scored"}

VARIABLES
  strategy,   \* self.strategy_name
  index,      \* the round robin's _rr_index, from 1; 0 for its -1
  current,    \* the weighted round robin's _current, 0 if there is no entry
  up,         \* the servers that are online
  circuit,    \* the state of each server's breaker
  health,     \* the failover manager's _states
  joined,     \* the recovery manager's _cluster_members
  routing,    \* whether a booking is between its metrics and its outcome
  online,     \* the servers whose metrics in that booking say "online"
  passed      \* history: bookings in a row that saw a server and went elsewhere,
              \* under the two strategies that rotate

balancerVars == <<strategy, index, current, passed>>
clusterVars == <<up, health, joined>>
vars == <<balancerVars, clusterVars, circuit, routing, online>>

Health == [healthy: BOOLEAN, fails: 0 .. Threshold, recoveries: 0 .. Threshold]

\* The sum of f over a set of servers, counted in units: the provers know
\* cardinalities, but not the folds of the community modules.
Credits(f, set) == UNION {{s} \X (1 .. f[s]) : s \in set}
Debts(f, set) == UNION {{s} \X (1 .. -f[s]) : s \in set}
SumOver(f, set) == Cardinality(Credits(f, set)) - Cardinality(Debts(f, set))

TotalWeight(set) == SumOver(Weight, set)

MaxWeight == Max({Weight[s] : s \in Servers})

\* passed stops counting where what is said of it is violated for any weight.
MaxPassed == 2 * N * MaxWeight

TypeOK ==
  /\ strategy \in Strategies
  /\ index \in 0 .. N
  /\ current \in [Servers -> Int]
  /\ up \subseteq Servers
  /\ circuit \in [Servers -> {"CLOSED", "OPEN", "HALF_OPEN"}]
  /\ health \in [Servers -> Health]
  /\ joined \subseteq Servers
  /\ routing \in BOOLEAN
  /\ online \subseteq Servers
  /\ passed \in [Servers -> 0 .. MaxPassed]

FreshStrategy(name) ==
  /\ strategy' = name
  /\ index' = 0
  /\ current' = [s \in Servers |-> 0]
  /\ passed' = [s \in Servers |-> 0]

Init ==
  /\ strategy = "Round Robin"
  /\ index = 0
  /\ current = [s \in Servers |-> 0]
  /\ up = Servers
  /\ circuit = [s \in Servers |-> "CLOSED"]
  /\ health = [s \in Servers |-> [healthy |-> TRUE, fails |-> 0, recoveries |-> 1]]
  /\ joined = {}
  /\ routing = FALSE
  /\ online = {}
  /\ passed = [s \in Servers |-> 0]

-----------------------------------------------------------------------------
UpTo(bound, n) == IF n < bound THEN n ELSE bound

MutReported(h, good) ==
  LET fails == IF good THEN h.fails ELSE UpTo(Threshold, h.fails + 1)
      recoveries == IF good THEN UpTo(Threshold, h.recoveries + 1) ELSE 0
  IN [fails |-> fails, recoveries |-> recoveries,
      healthy |-> (h.healthy /\ fails < Threshold) \/ (good /\ recoveries >= Threshold)]

\* update_health: the counters are compared with the thresholds only.
Reported(h, good) ==
  LET fails == IF good THEN 0 ELSE UpTo(Threshold, h.fails + 1)
      recoveries == IF good THEN UpTo(Threshold, h.recoveries + 1) ELSE 0
  IN [fails |-> fails, recoveries |-> recoveries,
      healthy |-> (h.healthy /\ fails < Threshold) \/ (good /\ recoveries >= Threshold)]

\* mark_recovered and rejoin_cluster, whose callbacks nobody registers.
Rejoined(s) == joined \cup {s}

\* toggle_server.  What rejoining delivers is RecoverySync in SeatReplication.
Toggle(s) ==
  /\ ~routing
  /\ up' = IF s \in up THEN up \ {s} ELSE up \cup {s}
  /\ health' = [health EXCEPT ![s] = Reported(@, s \notin up)]
  /\ joined' = IF s \in up THEN joined ELSE Rejoined(s)
  /\ UNCHANGED <<balancerVars, circuit, routing, online>>

\* set_strategy makes a new strategy object, under the old name too.
SetStrategy(name) ==
  /\ ~routing
  /\ FreshStrategy(name)
  /\ UNCHANGED <<clusterVars, circuit, routing, online>>

\* What the look at a breaker finds: its timeout may be over by now.
Looked(state) == IF state = "OPEN" THEN {"OPEN", "HALF_OPEN"} ELSE {state}

LookAtBreakers(set) ==
  circuit' \in {c \in [Servers -> {"CLOSED", "OPEN", "HALF_OPEN"}] :
                  \A s \in Servers : c[s] \in IF s \in set THEN Looked(circuit[s]) ELSE {circuit[s]}}

\* get_snapshot shows the state of every server's breaker.
Snapshot ==
  /\ ~routing
  /\ LookAtBreakers(Servers)
  /\ UNCHANGED <<balancerVars, clusterVars, routing, online>>

\* _current_metrics looks at the breakers of the servers that are up; the status
\* "online" is for those whose breaker is not OPEN.
Measure ==
  /\ ~routing
  /\ LookAtBreakers(up)
  /\ routing' = TRUE
  /\ online' = {s \in up : circuit'[s] # "OPEN"}
  /\ UNCHANGED <<balancerVars, clusterVars>>

\* The number of servers that the round robin would ask before s.
Ahead(s) == (s + N - index - 1) % N

\* The round robin's choice: the first that is online after the last one.
Turn(s) == \A t \in online : Ahead(s) <= Ahead(t)

MutRoundRobin(s) ==
  /\ strategy = "Round Robin"
  /\ Turn(s)
  /\ UNCHANGED <<index, current>>

RoundRobin(s) ==
  /\ strategy = "Round Robin"
  /\ Turn(s)
  /\ index' = s
  /\ UNCHANGED current

\* All that are online gain their weight; who is offline keeps its account.
Raised == [t \in Servers |-> IF t \in online THEN current[t] + Weight[t] ELSE current[t]]

\* The weighted one's choice: the first of those with the most.
Heaviest(s) ==
  \A t \in online : Raised[t] < Raised[s] \/ (Raised[t] = Raised[s] /\ s <= t)

MutWeighted(s) ==
  /\ strategy = "Weighted Round Robin"
  /\ Heaviest(s)
  /\ current' = [Raised EXCEPT ![s] = @ - TotalWeight(Servers)]
  /\ UNCHANGED index

\* The smooth rotation: the server picked pays for all that are online.
WeightedRoundRobin(s) ==
  /\ strategy = "Weighted Round Robin"
  /\ Heaviest(s)
  /\ current' = [Raised EXCEPT ![s] = @ - TotalWeight(online)]
  /\ UNCHANGED index

MutOwner(key, set) ==
  CHOOSE s \in set : Cardinality({t \in set : t < s}) = key % Cardinality(set)

\* The server of the first virtual node at or after the key, or else of the
\* first on the ring; the stable sort puts the servers' order into ties.
Owner(key, set) ==
  LET ring == UNION {VNodes[s] : s \in set}
      after == {h \in ring : h >= key}
      place == Min(IF after # {} THEN after ELSE ring)
  IN Min({s \in set : place \in VNodes[s]})

ConsistentHashing(s) ==
  /\ strategy = "Consistent Hashing"
  /\ \E key \in KeyHashes : s = Owner(key, online)
  /\ UNCHANGED <<index, current>>

Scored(s) == strategy = "Scored" /\ UNCHANGED <<index, current>>

Pick(s) == RoundRobin(s) \/ WeightedRoundRobin(s) \/ ConsistentHashing(s) \/ Scored(s)

\* choose_failover_target: the first server that is healthy and online.
FailoverTarget == {t \in online : health[t].healthy /\ \A u \in online : health[u].healthy => t <= u}

\* _select_circuit_safe_server's second look: the server picked, or the failover
\* target, or none if their breakers are OPEN.
SafeServer(s) ==
  IF circuit[s] # "OPEN" THEN {s} ELSE {t \in FailoverTarget \ {s} : circuit[t] # "OPEN"}

\* A success closes a breaker (the dashboard asks for one only), a failure may
\* open it; who finds no server blocks the booking and leaves the breakers alone.
Outcome(set) ==
  \E state \in {"CLOSED", "OPEN"} :
    circuit' = [t \in Servers |-> IF t \in set THEN state ELSE circuit[t]]

\* The balancer picks a server, and the booking runs on it or past it.
Book ==
  /\ routing
  /\ \E s \in online :
       /\ Pick(s)
       /\ Outcome(SafeServer(s))
       /\ passed' = [t \in Servers |->
             IF strategy \in {"Round Robin", "Weighted Round Robin"} /\ t \in online \ {s}
             THEN UpTo(MaxPassed, passed[t] + 1) ELSE 0]
  /\ routing' = FALSE /\ online' = {}
  /\ UNCHANGED <<strategy, clusterVars>>

\* "No online server is available"
Refuse ==
  /\ routing /\ online = {}
  /\ routing' = FALSE
  /\ UNCHANGED <<balancerVars, clusterVars, circuit, online>>

Next ==
  \/ \E s \in Servers : Toggle(s)
  \/ \E name \in Strategies : SetStrategy(name)
  \/ Snapshot \/ Measure \/ Book \/ Refuse

Spec == Init /\ [][Next]_vars

-----------------------------------------------------------------------------
(***************************************************************************)
(* The rotation starves nobody, however the other servers come and go in   *)
(* the middle of a round: a server that every booking could have used is   *)
(* passed over at most N - 1 times in a row by the round robin, and by the *)
(* weighted one at most as often as its weight goes into twice the heaviest*)
(* weight for every other server.  With up to three servers, as the        *)
(* dashboard has, two cycles are a limit as well, and mostly a closer one. *)
(***************************************************************************)
Rotates ==
  \A s \in Servers :
    IF strategy = "Weighted Round Robin"
    THEN /\ passed[s] * Weight[s] <= 2 * (N - 1) * MaxWeight
         /\ N <= 3 => passed[s] * Weight[s] <= 2 * (TotalWeight(Servers) - 1)
    ELSE passed[s] <= N - 1

(***************************************************************************)
(* The accounts of the weighted round robin balance, those of servers that *)
(* went offline in the middle of a cycle included.                         *)
(***************************************************************************)
AccountsBalance == SumOver(current, Servers) = 0

(***************************************************************************)
(* Nor does any group of servers drift from what its weights say, however  *)
(* they come and go: it is never owed and never owes more than the heaviest*)
(* weight for every pair of one in the group and one outside.  With up to  *)
(* three servers no account reaches a whole cycle.                         *)
(***************************************************************************)
GroupLimit(k) == k * (N - k) * MaxWeight

SharesBalance ==
  /\ \A set \in SUBSET Servers :
       SumOver(current, set) \in -GroupLimit(Cardinality(set)) .. GroupLimit(Cardinality(set))
  /\ N <= 3 => \A s \in Servers :
       current[s] \in -TotalWeight(Servers) + 1 .. TotalWeight(Servers) - 1

(***************************************************************************)
(* A booking that reaches the balancer while a server is online is given   *)
(* one, and the rotations leave no choice: the scan of the round robin,    *)
(* which starts at an index of another booking, and the maximum of the     *)
(* weighted one each end at one server, and every key has its server.      *)
(***************************************************************************)
ServerFound ==
  online # {} =>
    /\ strategy = "Round Robin" => \E s \in online : \A t \in online : Turn(t) <=> t = s
    /\ strategy = "Weighted Round Robin" =>
         \E s \in online : \A t \in online : Heaviest(t) <=> t = s
    /\ \A key \in KeyHashes : Owner(key, online) \in online

(***************************************************************************)
(* No server that serves is held back as unhealthy, after however many     *)
(* toggles: failure reports do not add up across recoveries.               *)
(***************************************************************************)
NobodyHeldBack == \A s \in up : health[s].healthy

(***************************************************************************)
(* "When servers are added/removed the ring minimizes remapping"           *)
(* (consistent_hashing.py:4): if one server goes, only its own keys move.  *)
(***************************************************************************)
KeysStay ==
  \A key \in KeyHashes, s \in online :
    online # {s} /\ Owner(key, online) # s =>
      Owner(key, online \ {s}) = Owner(key, online)
===============================================================================
