# Formal model of DistributedTickitSystem

The program is a ticket-booking web dashboard: one Python process with a Flask
server (`src/dashboard.py`, a thread per request) that simulates a cluster of
three booking servers. This directory holds TLA+ modules of its parts, TLC runs
on small instances, and TLAPS proofs for every size of the parts that matter
most. Line numbers refer to files under `src/`.

## 1. Inventory

| Component | State | Operations | Talks to |
|---|---|---|---|
| Lease manager `locking/lease_manager.py` | `_leases_by_seat`, `_leases_by_id` | acquire, renew, release, validate, get_active_lease, expire_leases | called by the seat handlers |
| Seat handlers `dashboard.py` 225-419, 451-456, 502 | `seats`, the application's `RLock` | book_with_retry, confirm_seat, cancel_lock, renew_lease, reset, snapshot | leases, stores, routing |
| Retry manager `retry/` | locals of `call` | call: attempt, sleep, give up | wraps a booking attempt; sleeps without the lock |
| Replication `synchronization/` | one `StateStore` per server, a version clock, running timers, `_pending` | update_seat, broadcast_with_delay, _deliver_update, apply_remote_update, reset | one timer thread per update and peer calls back into the dashboard |
| Circuit breaker `circuit_breaker/` | `CircuitBreaker` fields under its lock, the tracker's window under another | allow_request, call, record_success, record_failure | protects `_reserve_on_server` |
| Load balancer `load_balancer/` | `_rr_index`, `_current`, the active strategy | select, set_strategy | reads the metrics |
| Routing `dashboard.py` 165-215, 291-340 | `servers[..]["online"]` | toggle_server, set_strategy, _current_metrics, choice of a server | balancer, breakers, failover, recovery |
| Failover and recovery managers `failover/` | health counters per server; cluster members | update_health, choose_failover_target; mark_recovered, rejoin_cluster, receive_sync_updates | called by toggle_server |
| Heartbeat monitor `monitoring/heartbeat.py` | `_heartbeats`, `_server_status` | record_heartbeat, check_server_health, get_all_server_status, reset | fed by `_current_metrics` |
| Failure detector `monitoring/failure_detector.py` | `_thread`, `_stop_event`, `_known_down` | start, stop, the loop | polls the heartbeat monitor |
| Health checker `monitoring/health_checker.py` | `_last_heartbeat`, `_states`, `_callbacks`, `_thread`, `_stop_event` | register_server, record_heartbeat, update_states and the getters that call it, start, stop, reset | its own thread and its listeners; not wired into the dashboard |
| Event log and retry panel `dashboard.py` 225-272, 421-449, 490-500 | `logs`, `retry_status` | log, on_retry, on_giveup, simulate_retry, _fail | written by every request and timer, partly without the lock |
| Telemetry, HTTP ingress, web page | averages and an event list; none; none | | output only, or one callable behind a socket |

What is hard here, and where:

* **Interleaving of requests.** The handlers hold the RLock, but a booking
  drops it to sleep between attempts (`retry_manager.py:79`), and the clock moves
  while it is held. A breaker's reports hold no lock over their steps, and its forced opening
  none at all; nor do the failure detector's loop, `start` and `stop`. `log` and the retry callbacks run without the application's
  lock, and the health checker reads the clock before its lock and calls its
  listeners after it.
* **Time.** Leases, breakers and heartbeats all expire, and other calls
  race the expiry. `_expire_locked` runs inside nearly every lease call, for all
  seats, and only one caller reads which leases it removed.
* **Ordering.** Each update travels on its own timer with a random delay, so
  updates overtake one another, a reset and a recovery sync.
* **Two structures kept in step by hand**: seats and leases, leases by seat and
  by id, seats and the primary's store, tracker and circuit.
* **Rotation under change.** Servers leave and return in the middle of a
  round-robin round.

`PROJECT.json` lists these hazards one by one, each at its line and with the
properties that watch it.

## 2. Modules

    LeaseTable <-- LeaseManager <-- SeatBooking   both refine ExclusiveLease
                                        ^
                                        | B == INSTANCE SeatBooking
              SeatReplication <-- TicketSystem    refines SeatReplication
    Circuit <-- Breaker       EventLog <-- Requests
    FailureDetector           HealthChecker           Routing

* **LeaseTable**: the two dictionaries as a record of two functions, and what
  the methods do to the pair. Pure operators, so that a handler that makes two
  calls under one lock (confirm: validate, then release) is one step.
* **ExclusiveLease**: the abstract specification. One lease per seat, granted on
  a free seat only, with an id never used before; a lease that ended stays ended.
  No clock, no dictionaries.
* **LeaseManager**: the class on its own, under clients that present any id ever
  issued. A call that raises still drops the stale leases: `DropStale`. `Ttls` is what
  `ttl_seconds` may be in acquire and renew: a renewal may shorten its lease, and a lease
  for no time is over at once.
  SeatBooking extends this module: its handlers work on the same clock, tables and
  ids, and `LeaseSpec` is what the class promises to any other client.
* **SeatBooking**: the seat handlers. `BookCall` arrives; `BookRouted` takes the
  lock, expires leases, finds the seat free and keeps the lock; `BookLeased` or
  `BookTransient` ends the attempt; `BookRefused` ends the call. Between the two
  halves of an attempt only the clock moves: the code reads it twice. `Confirm`,
  `Cancel`, `Renew`, `Snapshot`, `Reset` are one action each; `LeaseExpired` is a
  confirm or a renew that comes too late.
* **SeatReplication**: the stores and the timers. A timer is *waiting*, then
  *delivered* (callback done), then *ending* (its clean-up done, its thread not
  yet dead), because the clean-up asks which threads are alive. `era` tells the
  timers of before a reset from those after.
* **TicketSystem**: the two composed, as an extension of SeatReplication. A handler that locks or sells a seat also
  writes the primary's store and starts timers in the same step; timers' callbacks
  and recovery syncs wait for the same lock. `stray` is a history variable: the copies in
  the peers' stores that a timer of before a reset brought, until something of today
  replaces them. It lets `NoPhantomSale` and `HoldReachesPeers` speak of every reset.
* **Circuit** and **Breaker**: the circuit's methods as operators on a record,
  then the wrapper's unlocked steps: `ServeWell`/`ServeBadly` record in the
  window, `NoteSuccess`/`NoteFailure` in the circuit, `CheckRate` compares, and
  `ForceOpen`, `ForceClear`, `ForceDate` are the three writes of the `_transition` that
  `breaker.py:71` calls without the circuit's lock. Of the methods that hold the lock
  (`LockFree`), only `record_success` in HALF_OPEN is taken apart (`ReadCount`, `WriteCount`,
  `EndCount`): its count may be cleared, or its state overwritten, under its hands. In all the
  others an unlocked write that falls inside has the effect it would have just before or
  after, since the method writes the same constant or goes on only after reading it. A
  method's look at the clock and the store of what it read are one step.
* **FailureDetector**: the monitor's methods as actions; the loop step by step
  (check, read, report failures, report recoveries, save); start and stop, which hold no
  lock, step by step too (`StartCheck`, `StartClear`, `StartMake`, `StartRun`; `StopSet`,
  `StopRead`, then `Joined` or `GiveUp`), from any number of `Controllers` at once.
  `tangled` is a history variable: a start has overlapped with another call that does
  something, or a stop has given up waiting. From then on there may be two loops. Nobody
  passes `record_heartbeat` a `timestamp` of his own, as nobody in the repository does, and
  the `logger`, which is `print` by default, does not raise.
* **HealthChecker**: `update_states` in three steps (clock, locked refresh, news one
  server at a time), which callers and the checker's own thread take in any order;
  heartbeats, start, stop, reset and a listener that comes, goes and raises. `lag` is
  how long ago a thread read its `now`; `misled` keeps the servers whose news went
  astray, so that the property can say what holds of all the others.
* **EventLog**: `log` as the four steps between which threads switch: load `self.logs`,
  append, slice, rebind. `stale` threads hold a list that was replaced meanwhile.
* **Requests**: who calls `log`, with and without the lock: handlers, the attempts of a
  booking, the retry manager's logger and callbacks, `_fail`, `simulate_retry`; and
  the retry panel they share.
* **Routing**: metrics, choice by each strategy, the second look at the picked breaker
  with the failover (`SafeServer`), the outcome, toggles, polls and changes of strategy. `passed` is a history variable. `SumOver` adds
  integers by counting units, since the provers know cardinalities but not folds.

`map` in `PROJECT.json` gives the source lines of each definition. Operators named
`Mut...` are wrong variants of the definition that follows them; nothing refers
to them in the models. Each shows that a property would notice that mistake.

### Abstractions

* Texts, names and counters that nothing decides on are left out: the wording of log
  lines, success and failure counts, telemetry, the lease's holder. In Requests one
  line stands for the lines that one locked step writes, and how an attempt ends is a
  free choice.
* Seat, lease, owner and server names are model values. `uuid4` draws an id not
  issued before.
* Time is a counter, or an age that stops where comparisons stop telling values
  apart. Each lease-manager call reads the clock once.
* `BookRefused` merges the reasons for which a booking ends at once: unknown,
  locked or sold seat, no server online. It may fire for a free seat, which stands
  for "No online server is available".
* `LeaseConflictError` in a booking is shown unreachable instead of modelled
  (`ReserveNeverConflicts`). The failover of a booking is modelled, in `SafeServer`, and is
  not reached either: whoever is picked was not OPEN at the first look, the lock is held since,
  and without a step that opens a breaker in between nothing but time passes.
  `CircuitOpenError` is not reached for the same reason.
* In Routing the two strategies that compare scores are one, `Scored`, that may pick
  any server: their inputs are random walks. A breaker is reduced to its state;
  that an OPEN breaker's timeout is over is a choice made when somebody looks.
  Consistent hashing takes the hashes as given.
* `FailureTracker` reads its timestamp just before its lock; both are one step.

## 3. Runs

| Run | Shows | Instance |
|---|---|---|
| `lease_manager` | the dictionaries agree, nobody takes a running lease over, ExclusiveLease is implemented | 2 seats, 3 ids, 2 owners, TTLs 0 to 2, clock to 5 |
| `seat_booking` | seats and leases stay in step under all handlers and two concurrent bookings | 2 seats and an unknown one, 3 ids, 2 owners, 2 threads, 2 attempts, TTL 2, clock to 4 |
| `seat_booking_expiry` | *violated*: an expired lock comes back by itself | 1 seat, 1 thread |
| `seat_replication` | no update lost, no replica goes back, convergence | 2 seats, 1 peer, 3 updates, 1 reset with no update under way |
| `replicas_reset` | *violated*: convergence when a reset overtakes an update | 1 seat, 1 peer |
| `ticket_system` | the stores never run ahead of the seats; holds reach the replicas; bookings return | 1 seat, 2 ids, 2 owners, 1 thread, 2 attempts, 1 peer, 1 reset at any time |
| `primary_mirror` | *violated*: the primary's store has each seat's state | 1 seat |
| `breaker` | counting, trials, forced opening, recovery | 2 callers, threshold 2, 2 successes, limit 60 %, window 1, 4 outcomes |
| `failure_detector` | reports are right and single, and come in the end; loops can be stopped | 1 server, 2 loops, 2 controllers, timeout 1 |
| `health_checker` | no state worse than the heartbeats, wrong pictures explained, silence noticed | 1 server, 2 callers and the checker, thresholds 1 and 2, lag to 2 |
| `requests` | what the unlocked log and retry panel still guarantee | 2 threads, 2 lines, limit 2, the code's 3 and 4 attempts |
| `routing` | nobody starves or is held back, shares balance, keys stay | 3 servers, weights 3-2-1, 6 virtual nodes with a tie, 4 keys |

Why the bounds are enough for what the runs look for:

* Two seats are needed because a lease call drops other seats' leases; three ids
  let a seat be leased, lost and leased again while another seat holds one; the
  clock runs past twice the TTL, so a renewed lease expires too.
* Two booking threads can both find a seat free; a third adds only another waiter.
* Two seats share the version clock in `seat_replication`; three updates make two
  of the same seat overtake each other while the other seat's is under way. Peers
  do not interact, so one is enough. The run with a reset waits for the timers
  (`QuietResets`), since without that convergence is false (`replicas_reset`).
* In `ticket_system` the seat is locked by one owner, lost and locked by the
  other while updates travel, and reset while they travel. `MaxVersion` is never reached there.
* `breaker`: two callers make every outcome arrive in another state than the one it
  was admitted in. `MaxEvents` bounds outcomes remembered or under way; it delays
  admissions only until old outcomes leave the window, as `OpenEnds` and
  `MendedCloses`, checked on the same run, would show otherwise. Counters and ages
  stop at their threshold.
* `failure_detector`: two controllers overlap in every way that two calls can; two loops
  are what overlapping starts leave. Thread names are reused once dead, so restarts are
  unlimited. Servers do not interact, so one is enough.
* `health_checker`: servers do not interact but in one refresh's news, so one is enough;
  two callers and the checker make two refreshes and a heartbeat overlap. A lag of
  2 takes an age from past the last threshold to below the first. Ages stop at
  `MaxAge`, from where no lag brings them back under a threshold.
* `requests`: two calls of `log` overlap in every way that two can; the log is longer
  than its limit after three lines. Counters are the code's own or stop at the limit.
* `routing` is the dashboard's own cluster and its own weights and thresholds. The
  ring is small, with two servers at one place and a key past the last place.
  `passed` counts to where the claim is violated for any weight.

Deadlock is checked in every run: in `routing`, for instance, it shows that every
strategy finds a server whenever one is online.

### Properties

* *Leases*: `TablesAgree`, `NoTakeover` (a running lease changes by its own renewal or
  release only; a renewal may shorten it), `ImplementsExclusiveLease`.
* *Seats*: `NoLeftoverLease`, `CountdownIsBacked`, `IdIsOwn`,
  `ReserveNeverConflicts`, `SoldUnderLease`, `OwnerKept`.
* *Replication*: `LagIsUnderWay` (where a peer lags, the last word is on its way),
  `VersionsAgree`, `PendingCoversWaiting`, `NoRegression`, `ReplicasConverge`.
* *System*: `HeldInPrimary`, `NoPhantomSale` (no replica shows a sale that a reset has undone or
  that never was, unless a timer of before the reset brought that very copy),
  `HoldReachesPeers` (a replica that does not show a held seat has the update under way that
  does, with the same exception), `DrivesReplication` (the composed
  system uses the stores only as SeatReplication allows), `BookingReturns`.
* *Breaker*: `CountsConsecutive`, `TrialsBounded` (a probing phase lets through fewer calls than
  `HalfOpenSuccesses + 1` times the threads, and one less than that is reached, because each other
  thread's forced opening may make the circuit forget once what it has counted),
  `FailureTrips`, `OpenEnds`, `MendedCloses`.
* *Failure detector*: `KnownIsReported` and `NoFalseAlarm` (as long as the calls of start and
  stop are not `tangled`), `StopsForGood` (however tangled, once the event stays set every
  loop ends, those that `_thread` has forgotten included), `FailureReported`,
  `RecoveryReported`.
* *Health checker*: `NoFalseAlarm`, `NewsUnderWay`, `SilenceNoticed`.
* *Log and panel*: `OnlyOverlapsLose` (a line is lost in overlapping calls only, and the
  log heals), `LogBounded`, `RetryingIsUnderWay` (the panel's last word is that of a call
  which has ended).
* *Routing*: `Rotates` (under round robin a server waits for at most N - 1 others; under
  the weighted one for at most as many as its weight goes into 2 (N - 1) `MaxWeight` and,
  with up to three servers, into two cycles), `SharesBalance` (a group of k servers is owed
  and owes at most k (N - k) `MaxWeight` and, with up to three servers, each account stays
  within a cycle), `NobodyHeldBack` (no server that serves is unhealthy in the failover
  manager), `KeysStay`.

The type invariants of all the state machines are proved (section 5) and have no run of their
own, nor have `OneLoop` and `ServerFound`. Every safety property that a passing run checks is
also a theorem; the liveness properties are model-checked only.

### What the violated runs show

1. **Orphaned locks.** `validate`, `renew` and `acquire` drop the list that
   `_expire_locked` returns. If one of them, for any seat, is the first call after a
   lease ran out, the seat stays locked with its countdown at 0 until somebody
   cancels it or resets.
2. **Reset and timers.** Timers survive `reset` and deliver old versions into the new
   stores, where they are the higher ones.
3. **Cancel and expiry do not write the store.** The primary and the replicas keep the
   seat locked until it is booked again.

Divergences seen while reading, without a run of their own:

* *Pending count.* `_deliver_update` cleans up in its timer's own thread, which is alive,
  so the last timer of a seat stays in `_pending` and the count of
  `eventual_consistency.py` 159 ("the number of pending replication events") never
  returns to zero. The model has this (`CleanUp`, `Exit`).
* *Swallowed failures.* `get_all_server_status` marks a server down without telling the
  listeners that `heartbeat.py` 39 promises to notify. The failure detector compares for
  itself and is not affected (`FailureReported`).
* *Lost log lines.* `README.md` 242 has all events appear in the event log; `on_retry`,
  `on_giveup`, the retry manager's logger, the `_fail` of a booking and `simulate_retry`
  log without the lock, and lines of calls that overlap may be lost. `OnlyOverlapsLose` is
  what remains.
* *Retry panel.* `README.md` 97-102 has the retry count, the stage and the next delay of
  the panel follow a simulated retry; the `on_retry` of `simulate_retry` only logs, so the
  panel does not change before the end (`OnRetry`). After a booking that gave up or was
  blocked the next delay stays set: only a success sets it to 0 (`GiveUp`, `Blocked`).
* *Two detectors.* `start` of `failure_detector.py` 54-60 tests `_thread` and sets it in two
  unlocked steps, and `stop` forgets whichever thread is there when it returns. Two starts, or a
  start during a stop, leave two loops that share `_known_down` and may report a failure twice.
  `tangled` marks these behaviours; without it `OneLoop` and `KnownIsReported` are false.
* *Health checker.* A refresh that waited for the lock may bring an OFFLINE server back to
  ONLINE without a heartbeat, until the next refresh; news of two threads may arrive in
  the wrong order; a `start` that comes before a stopped thread has ended leaves no checker.
* `README.md` 207 says that a seat turns Reserved when its countdown ends, while the code
  frees it; `state_machine.py` 8 promises a limited number of trials, while the limit is
  a multiple of the number of threads (`TrialsBounded`); `breaker.py` 9 closes "after successful probe",
  while a success admitted before the circuit opened counts as one; `README.md` 164-171
  describes failover messages whose branch a booking does not reach (`SafeServer`); an offline server
  never becomes unhealthy in the failover manager, since toggles report once and its
  threshold is 2; with all servers offline the failure rate does not rise, since such a
  failure is not counted (`dashboard.py:269`).

## 4. Fairness

* SeatBooking: a thread that waits for the RLock gets it although others take it in
  between (strong fairness on entering, since the lock is free again and again);
  a thread that holds it goes on (weak); the clock runs; the page polls every four
  seconds and gets the lock. No user owes a confirm, cancel, renew or reset.
* SeatReplication: started timers fire (weak, over all timers: there are finitely many);
  the threads' clean-up and end are not needed. No update, sync or reset is owed; that they
  stop is due to `MaxVersion` and `MaxResets`, and it is the premise of *eventual*
  consistency.
* Breaker: time passes, the poll reads the state, an admitted call returns and is
  reported to the end, and customers keep trying (strong: admission is possible again and again).
  That a broken service is mended is not assumed.
* FailureDetector: time passes (strong, because a heartbeat that is due comes first),
  working servers send heartbeats, started threads and begun calls go on, a join ends when
  its thread has. Nobody owes a start or a stop. Reports are claimed only while a detector is
  left running, the end of all loops only while the event stays set.
* HealthChecker: time passes (strong, since a thread that waits for the lock holds the
  clock at `MaxLag`), the checker's loop goes round, whoever waits for the lock gets it and
  a listener returns or raises (weak, per thread). No heartbeat, start or query is owed.
* LeaseManager, Routing and Requests are checked for safety only.

## 5. Proofs

Proved by TLAPS for any seats, ids, owners, threads, servers, peers, TTL, thresholds, limits
and numbers of attempts, from the named assumptions on the constants (`None` is none of the
values, TTL and attempts are positive, every seat may be requested, threads that log or call
a breaker are finitely many, ...). Where a theorem takes more than that, the table says so:

| Module | Theorem | Says |
|---|---|---|
| LeaseManagerProofs | `LeaseManagerCorrect` | `LeaseTypeOK` and `TablesAgree` always hold |
| | `LeaseManagerNoTakeover` | `NoTakeover` |
| | `LeaseManagerRefines` | `ImplementsExclusiveLease` |
| SeatBookingProofs | `LeaseEndsWithLock` | `NoLeftoverLease` |
| | `CountdownBacked` | `CountdownIsBacked` |
| | `NoForeignLease` | `IdIsOwn` |
| | `NoConflict` | `ReserveNeverConflicts` |
| | `SaleUnderLease` | `SoldUnderLease` |
| | `NoOverwrittenOwner` | `OwnerKept` |
| | `SeatBookingRefines` | `ImplementsExclusiveLease` |
| TicketSystemProofs | `ReplicationPending` | `PendingCoversWaiting` |
| | `ReplicationLag` | `TypeOK` and `LagIsUnderWay`, under `QuietResets` |
| | `ReplicationSettles` | no update under way means equal stores, under `QuietResets` |
| | `ReplicationVersionsAgree` | `VersionsAgree`, under `QuietResets` |
| | `ReplicationNoRegression` | `NoRegression`, under `QuietResets` |
| | `SystemHeldInPrimary` | `HeldInPrimary` |
| | `SystemDrivesReplication` | `DrivesReplication`: the system implements SeatReplication |
| | `SystemDrivesSeats` | the system implements SeatBooking |
| | `SystemNoPhantomSale` | `NoPhantomSale` |
| | `SystemHoldReachesPeers` | `HoldReachesPeers` |
| BreakerProofs | `BreakerType` | `TypeOK` |
| | `BreakerCounts` | `CountsConsecutive` |
| | `BreakerTrials` | `TrialsBounded` |
| | `BreakerTrips` | `FailureTrips`, if the recovery timeout is not 0 |
| RoutingProofs | `RoutingType` | `TypeOK` |
| | `RoutingNobodyHeldBack` | `NobodyHeldBack` |
| | `RoutingNeverUnhealthy` | no server is ever unhealthy, if the threshold is not 1 |
| | `RoutingKeysStay` | `KeysStay` |
| | `RoutingServerFound` | `ServerFound` |
| | `RoundRobinRotates` | `Rotates` while the strategy is Round Robin |
| | `RoutingAccountsBalance` | `AccountsBalance`: the accounts sum to zero |
| | `RoutingGroupsBalance` | the first half of `SharesBalance`, for groups |
| | `RoutingSharesBalance` | `SharesBalance` |
| | `RoutingRotates` | `Rotates` |
| FailureDetectorProofs | `DetectorOneLoop` | `TypeOK` and `OneLoop` |
| | `DetectorKnown` | `KnownIsReported` |
| | `DetectorNoFalseAlarm` | `NoFalseAlarm` |
| HealthCheckerProofs | `HealthNoFalseAlarm` | `TypeOK` and `NoFalseAlarm` |
| | `HealthNewsUnderWay` | `NewsUnderWay` |
| RequestsProofs | `RequestsRetrying` | `TypeOK` and `RetryingIsUnderWay` |
| | `RequestsLogBounded` | `LogBounded` |
| | `RequestsOnlyOverlapsLose` | `OnlyOverlapsLose` |

* `QuietResets`: nobody resets while an update is under way; without it convergence
  is false (`replicas_reset`). The theorems of the whole system do not take it.
* *Up to three servers*: `SERVER_IDS` of `dashboard.py` lists three, and the closer bounds in
  `Rotates` and `SharesBalance` ask for no more. That on the accounts is false of four: with
  weights 10, 1, 1, 1 toggles can drive an account past a cycle. The bounds with `MaxWeight`
  hold of any number.
* *The threshold is not 1*: the failover manager's is 2 (`failover_manager.py` 35-36).
* With a recovery timeout of 0 a circuit leaves OPEN at the next look at it.

The arguments:

* **LeaseManagerProofs** begins with one lemma per operator of LeaseTable: expiry, store
  and release keep a typed table consistent, and what each leaves at every key. Nothing
  after these expands the table again, here or in SeatBookingProofs.
  `TablesAgree` is not inductive: an acquire overwrites `_leases_by_id` at the new id, and
  were that entry taken, the dictionary by seat would be left pointing at a lost lease.
  `IssuedOnly` (every id in the table was issued) with `id \notin issued` excludes that.
  The refinement maps a seat to its running lease's id:
  acquire is `Grant`, the clock and release are `End`, and renew and clean-up stutter.
* **SeatBookingProofs**. The heart is `SeatInv`: a locked seat either describes exactly
  the lease that covers it, or its lease is gone and its countdown is over. The second
  case is the orphan of finding 1; the invariant says that it is the only way for the
  two to differ. The id clause (an id kept by a locked seat is issued, and names that
  seat or nothing) makes a late confirm or cancel harmless, and `BookerInv` carries
  what an attempt checked across the clock's step. One lemma per action, then
  `StepInv` and `Invariance`, which includes `TypeOK`. The two action properties rest on
  `StepOfSeat`, which says in five cases what a step can make of a seat; `OwnerKept` also
  needs `Ownerless` (an available seat has no owner), since a booking writes its own
  without looking. For the refinement a booking is `Grant`, since the seat it found free has
  no entry at all; whatever else drops entries is `End` (`DropStep`), and a renewal keeps
  the id of a lease that was running.
* **TicketSystemProofs**, the stores. `CopiesOK` speaks of every copy of a seat, in a store
  or in a timer: none is newer than the primary's, whose version the clock has reached;
  equal versions are equal copies; a sold copy is the primary's own, since nothing is written
  after a sale. A write adds one copy with a version above all (`WriteCopies`); a delivery
  and a recovery sync copy what exists already (`MergeCopies`). `LagIsUnderWay` follows
  because the timer of the primary's last write goes only by being delivered.
  `ReplicationPending` needs no convention: a reset opens an era of which no timer is yet.
* **TicketSystemProofs**, the system. SeatReplication locks only what its store does not show
  sold, and sells only what it shows locked, to its owner. The handlers look at `seats`
  instead, so that the system implements it only as long as `HeldInPrimary` holds; and that
  holds as long as the steps are those of SeatReplication. `SystemInv` proves the two
  together. It needs `Ready`: the seat that a booking found free is still free when it is
  recorded, because the lock is held in between. `NoPhantomSale` and
  `HoldReachesPeers` hold whatever is reset when, so that neither `CopiesOK` nor `LagIsUnderWay` is
  at hand: an old timer may carry a version above all of today's. `TodayInv` says the same of the
  copies of `Today(s)` only, the stores' that are not stray and the timers' of this era: a sold one
  is the primary's own (`UpToDate`), and a peer that shows something else is being told
  (`OnItsWay`). It is inductive because a timer of today that finds a stray copy newer than its own
  leaves it stray, and any that changes a copy makes it one of today (`TodayWrite`,
  `TodayDeliver`, `TodaySync`).
* **BreakerProofs**. `CountsConsecutive` is inductive. A trial is a success that is in the
  count, a call not heard of yet, or one that a forced opening begun before the phase has made the
  circuit forget; each other thread can do that once in a phase, since forcing is the last thing it
  does in its report and it does not come back but as a trial itself (`Accounted`). `Locking`: one
  thread at most is inside `record_success`. `Tripping`: after a late failure somebody is on the way to the comparison,
  and finds the window as it is now, or the circuit is OPEN and no time has passed.
* **RoutingProofs**. `KeysStay` compares the first place at or after a key on two rings.
  `TurnComes` says of the round robin that a server passed over k times is at least k places
  nearer to its turn. The accounts: a weighted booking moves the total from all who are online
  to one of them, whatever the set is. With at most one other server beside the two compared,
  and that one less than a cycle off, the greater of two accounts is no more than half of
  what the third leaves, which keeps all three within a cycle (`WeightedBounded`); a server
  passed over climbs by its weight each time and has less than two cycles to climb (`Owed`).
  For N servers a bound on single accounts does not carry itself, but one on all groups at
  once does (`GroupsOwed`): a group of k is owed at most k (N - k) `MaxWeight`. The group of the server
  picked only pays. A group that is passed over had, server by server, no more than the one
  picked (`PickedGroup`, `PassedGroup`), so that with j of its servers online j times what the
  picked one has is at least theirs; the bound on the group *together with* the picked server,
  taken j times, and that on its offline part, taken once, then give (j + 1) times the new
  claim (`GroupBound`). The other side of `SharesBalance` is the bound on the servers outside,
  since all accounts sum to zero (`BothSides`). With groups of one this bounds every account, and
  `TurnsOwed` turns it into a bound on the turns missed (`OneMoreTurn`, shared with `Owed`).
  `ServerFound` needs that a finite set has a greatest member, without induction: a smallest
  set that had none would have a smaller one (`Greatest`, from the well-foundedness of the
  subset order). `Toggled` says what a server's last toggle left in its health counters.
* **FailureDetectorProofs**. `Sole`: while nothing is tangled, the thread that runs is the one
  `start` knows of; a start that gets past its check finds it dead and meets no other call before
  its end, and a join that ends leaves it dead. Then `_known_down` and `current_down` belong to one loop,
  and `Reports` says at each of its steps what they add up to. `Lateness` follows a server
  from its status through what the loop read to the report.
* **HealthCheckerProofs**. `NoFalseAlarm` is inductive: the age a late thread computes is at
  most the true age, and only a heartbeat, which also writes ONLINE, makes an age smaller.
  `NewsUnderWay` needs to know who has news (`Quiet`) and that, unless the server is
  misled, it is the present state (`NewsIsPresent`); `Announce` is treated once, for
  heartbeats and refreshes.
* **RequestsProofs**, of EventLog and Requests. `Room` counts only the threads past their
  append, since one that has loaded the list has added nothing yet. `Healed` says for a
  call that overlaps no other what it has saved so far, step by step, in terms of `Agree`,
  the equality of the last n lines. `RetryingIsUnderWay` needs `Called`: `on_retry` is
  called after a failed attempt.

Only model-checked: what rests on fairness (`ReplicasConverge`, `BookingReturns`, `OpenEnds`,
`MendedCloses`, `FailureReported`, `RecoveryReported`, `SilenceNoticed`), which is out of this
prover's reach; and, by a run each, that the three violated properties are violated.

## 6. Plan

Open, in this order: compose Routing with SeatBooking (which server a lease came through, a
retry that picks another server), then the metrics with the heartbeat monitor, and prove what
these compositions promise.

### Not modelled

Telemetry (averages, an event list without bound), the HTTP gateway (a web server around one
callable, which nothing in the repository starts), the Flask routes and the page,
the delays and jitter of the backoff, the retry decorator (it has no caller), and the methods that nothing calls
(`broadcast_update`, `cancel_pending_replication`, `update_from_heartbeat_snapshot`,
`FailureTracker.reset`).
