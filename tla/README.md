# UVA GPS-Denied Navigation: TLA+ specifications

This directory models the parts of the drone's software whose correctness
depends on interleavings, failures and message order. TLC checks the models on
small instances; TLAPS proves the main results for every value of the constants.

## 1. The system

One process runs on each drone (`src/main.cpp`), a Go control plane runs on the
ground. Inside the process:

| Component | State | Operations | Interacts with |
|---|---|---|---|
| main loop (`main.cpp`) | home, mailbox for a peer's command, publishing task | one tick: sense, decide, publish, report | calls every component below |
| `DroneSecurity` | counted failures by kind | note, decay, `evaluate` | fed by the loop with mesh errors, refusals and the client's status |
| `CommandPolicy` | none | `evaluate_remote_command`, `apply_remote_command` | between the mailbox and the tick's command |
| `SafetyManager`, `DecisionEngine` | none that outlives a tick, home | `evaluate`, `enforce`, `update` | first and last writer of the tick's command |
| `LocalizationFusion`, `TimeSyncTracker` | samples of offsets, last stamps | `observe_*`, `status`, `update` | read by security, safety and decision |
| `ControlPlaneTelemetryClient` | failures, next attempt, status | `should_publish`, `publish`, `mark_result` | the publishing task; its status feeds security |
| `V2XMeshNetwork` | peers, role, leader, counters | broadcast, receive loop, heartbeat loop, election | hands frames to the security context, edge packets to the authenticator, the cache, then consensus |
| `SwarmSecurityContext` | per node: sequence number, last frame, last ledger frame | `seal`, `open` | shared by the sending threads and the receive thread |
| `PeerPacketAuth` | key store, trust epoch | `signPacket`, `verifyPacket` | before anything of a packet is stored |
| `SwarmStateCache` | one entry and replay window per peer | `observe_packet`, `expire`, `clear`, getters | receive thread writes, heartbeat thread expires, others read |
| `ReplayJournal` | records in memory, append-only file | `configure`, `persist`, `load` | owned by the cache, survives the process |
| `EdgeConsensusManager` | proposal, epoch, supporters | `propose`, `observe_packet`, `expire` | reads the cache |
| `KeyframeManager` | keyframes, map points, next numbers | add, share, receive, save, load | receive thread and main thread |
| `VIOPipeline` | event queue, processing thread, last frame, feature tracks | `start`, `stop`, `reset`, `enqueue`, handlers | drives the coordinator |
| `EstimatorCoordinator` | shadow queue, generation, worker | `initialize`, `reset`, `process_measurement`, `stop`, `flush_shadow` | active estimator on the caller's thread, shadow on the worker's |
| EKF, ESKF with MSCKF window | stamps, state, clones, tracks, rest detector | propagate, update, retire | called by the coordinator |
| sensors, HAL, TDOA, planner, grid | buffers, maps | ingest, solve | numeric, device input |

What is hard about it: the receive and heartbeat threads share the cache while
the process may die in the middle of a journal write; radio packets are lost,
duplicated, delayed and reordered; threads number and seal frames without a
lock; three threads of a drone may call for an election at once, and the
messages of other drones change the table of peers between its steps; the
estimator worker computes outside the lock while resets, reconfigurations and
shutdowns go on; five writers decide one command per tick, with a mailbox that
another thread fills; a retirement of clones may fail halfway. `PROJECT.json`
lists each such hazard at its line, with the properties aimed at it or the
reason why there is none.

What makes each part correct:

- *cache and journal*: no packet identity (sender, trust epoch, sequence
  number) is admitted twice; none is refused as a duplicate that was not seen;
  what is shown of a peer never goes back; whatever was written can be read again;
- *mesh*: of the orders to the swarm none is skipped; exactly the packets of
  trusted senders that are alive and unaltered verify; collective action rests
  on support that was given, and a silent drone loses its vote;
- *map*: no number is given out twice, whatever is heard, saved and loaded;
- *election*: a drone holds one election at a time and ends it, each elects the
  best drone within reach, drones that know the same elect the same (which fails
  for near ties: section 6), and a leader that fell silent is given up;
- *coordinator*: nothing computed for an old generation is published; every
  accepted measurement is processed, dropped, discarded as stale, failed or
  cleared after a failure, of which the diagnostics count all but the last; the
  coordinator's own `stop()` leaves nothing behind and returns, as does
  `flush_shadow()`. `VIOPipeline::stop()`, which first joins the processing
  thread, returns while a sensor still delivers; without one it may not
  (`VIOPipeline.cpp:267`). `main.cpp:1931` stops the sensors after the pipeline;
- *estimators*: the clone window, its two indices, its covariance blocks and its
  tracks agree; what a failed retirement did is undone; corrections at rest are
  applied at rest and accounted for;
- *flight loop*: the safer writer wins, a landing stands, an outage suspends
  peers for its whole window, and trust returns when nothing more is refused.

## 2. The modules

| Module | Models |
|---|---|
| `PeerInbox` | abstract specification of packet admission: each identity handed on once, the newest shown |
| `SwarmStateCache` | receive path, cache, replay journal, expiry pass, crashes and restarts |
| `SwarmStateCache_proofs` | type correctness; replay safety with and without a journal, agreement, reloading, what is shown, refinement of `PeerInbox` |
| `EstimatorCoordinator` | control thread, sensor, processing thread and worker around the event queue and the shadow queue |
| `EstimatorCoordinator_proofs` | type correctness, the safety invariants of the coordinator and its order of processing |
| `ElectionRules` | the rule that ranks two drones, with lemmas about it |
| `ElectionCount` | the count of an election in every drone of a swarm, each in an order of its own |
| `LeaderElection` | the election of one drone: main, receive and heartbeat threads, the table of peers |
| `ElectionCount_proofs`, `LeaderElection_proofs` | how far from the best a count may end; exclusion and the best candidate |
| `EdgeProtocol`, `PacketAuth` | what JSON and CBOR keep of a packet; signing and verifying it |
| `SwarmSecurity`, `EdgeConsensus`, `KeyframeManager` | sealed frames and their chains; votes; keyframes and map points |
| `SecureMesh` | composes the five above with a radio, the peer cache and the threads of senders and receiver |
| `SecureMesh_proofs` | no order is skipped; verification; real support; a consistent map |
| `DroneSecurity`, `CommandPolicy`, `SafetyManager`, `DecisionEngine`, `Localization`, `TelemetryClient` | the parts of the main loop, as operators on their state |
| `FlightLoop` | composes them: the loop's tick, the mailbox, the mesh errors, the publishing task |
| `FlightLoop_proofs` | the five invariants of the tick |
| `Ekf`, `Eskf`, `StationaryDetector`, `MsckfWindow`, `FeatureTracks` | the bookkeeping of the estimators and the front end, as operators on their state |
| `VioFrontend` | composes them: handlers of the pipeline from end to end |
| `VioFrontend_proofs` | the window, its tracks and marks, the rest detector, the points |
| `MC*` | constants for TLC |

`SwarmStateCache`, `LeaderElection` and `SecureMesh` are three views of the same
threads: the first ends where a packet is admitted and adds the journal and
crashes to it, the second starts there and takes any admitted packet as
possible, the third follows a packet from its builder to the vote or the
keyframe in it with a cache that knows only presence, staleness and numbers seen.
`VioFrontend` and `EstimatorCoordinator` divide the pipeline in the same way:
what is done with a measurement, and which thread does it when.

### SwarmStateCache

*State.* `rx` is the packet inside `handle_edge_packet`, with the clock it read;
`peers` the cache; `journal` the `ReplayJournal` object; `disk` its file; `trust`
the trust epoch configured at this start. A replay bitmap is the set of
distances whose bits are set. The file is kept as what `load()` makes of it: the
last row of each sender, whether every row follows its predecessor by the rules
of `load()`, and whether the last line is torn. `uses`, `burnt` and
`lost` are history variables that no guard reads.

*Steps.* `ReceivePacket` is the receive thread up to a successful
`verifyPacket`: any packet may arrive at any moment, any number of times, at
which it is authentic. `RefusePacket`, `PersistFails`, `AdmitLate` and
`AdmitNew` are the outcomes of `observe_packet`, one critical section of the
cache's mutex; the journal's write is part of it and may leave nothing, part of
the row or all of it. `CrashInPersist` is a crash inside that write, `Crash` one
anywhere else. `Expire` is the heartbeat thread's pass, `Start*` the ways
`configure_packet_auth` finds the file, `ReconfigureLedger` a second call of it.

*Abstractions.* Signatures, parsing and packet sizes are left out: a packet of
`Packets` is one that verifies. The pass of the heartbeat thread reads the clock
and takes the mutex in one step. Of the payloads only what decides staleness,
isolation and eligibility is kept. A file system that reorders blocks within one
append is not modelled.

### EstimatorCoordinator

*State.* The control thread holds the steps it has left (`control`); `producer`
(the processing thread) and `worker` are at a step, the first with the
generation it sampled, the second with its item and the snapshot it took.
`events` is how many sensor events the pipeline's `event_queue_` holds. `shadow`
keeps the generations of the measurements contained in the shadow's state;
`published` stands for `shadow_snapshot_` and `last_comparison`, which are set
and reset together. `counts.failed` counts the measurements on which the shadow
threw, and `counts.wiped` those its handler cleared, which no diagnostic counts.

*Steps.* Each step is one critical section of `mutex_` or one call of the shadow
estimator, which has its own mutex. The control operations are `start`, `stop`,
`reset` and `reconfigure_coordinator` of the pipeline and `flush_shadow`; the
processing thread goes round `processing_loop` and offers any number of
measurements for an event, through `process_measurement` or
`submit_shadow_measurement`. A sleeper on a condition variable looks again only
when notified: spurious wakeups could only hide a lost one.

`VIOPipeline::stop()` is cut where its wakeup can be lost: `StopPipeline` clears
`running_`, `NotifyProducer` notifies, both without `queue_mutex_`, and
`JoinProducer` waits until the thread has ended. The thread finds its predicate
false in `ProducerDozes` and is on the condition variable only after
`ProducerSleeps`; a notification in between passes it by (`Hailed`). Those who
take `queue_mutex_`, `SensorEvent` (`enqueue`) and `Reset`, wait for a dozing
thread (`EventQueueFree`), and everyone waits for `reset()`, which holds it
throughout.

*Abstractions.* Measurements are valid ones; the active estimator, health,
comparison statistics and restart counters are left out. The control operations
are called by one thread at a time, as `main.cpp` does. A reconfiguration may
change the capacity and the policy of a full queue; the capacity is never
changed to or from zero (`RuntimeMode` refuses zero), and a publication that
reads it while it changes does what it would do with the old or the new one.

### ElectionRules, ElectionCount, LeaderElection

*State.* `LeaderElection` is one drone, `Local`: `role`, `leader` and `ongoing`
are the atomics, `health` is `local_health_`, `peers` the table, with the members
of `PeerInfo` an election or an expiry reads. `at` is where each thread stands,
`tally` and `candidate` are the locals of `trigger_election` and
`handle_election`. `silent` says that the last message of a peer is older than
the age at which it is given up, as some pass has found. `ElectionCount` keeps
the loop of the count alone, for every drone of a swarm on one set of figures.

*Steps.* An election is cut at every store to an atomic and at every lock:
`Enter` is the exchange of `election_ongoing_`, `Announce` writes the health back
and sends, `StartCount` to `EndCount` hold `peers_mutex_`, `StoreRole` and
`StoreLeader` follow without it, `Finish` clears the flag. The receive thread
enters heartbeats, edge packets and announcements under the same mutex, then
judges and steps down outside it. `Expire` is one pass of the heartbeat thread,
`ClearLeader` and `Demote` the stores after it; each of the threads may then call
`trigger_election`, which returns at once when an election is under way. A call
that returns this way in the heartbeat thread, while the election it found is
past its count, leaves the drone a candidate without a leader until the next
announcement or heartbeat of a leader: the model reaches that state, and no
property forbids it, since nothing in the code says it must not last.

*Abstractions.* The other drones are the environment: they say anything at any
time, so lost, delayed, duplicated and reordered messages need no channel. Time
is left out: a pass finds any peers stale, those it found before included unless
they spoke since, and the sleep of 500 ms takes as long as it likes. A health
is a score, a battery and two flags; the weights behind a score are left out,
except that a fault makes it zero. Scores and batteries are integers in units of
which the window 1e-4 is a whole number. The count goes through the peers in any
order, as `std::unordered_map` may. Pose updates, which nothing in the
repository sends, are not entered.

### SecureMesh and its parts

*State.* `sealed` lists all frames in the order they were sealed, `air` those
handed to the radio; a frame's digest is its place in `sealed`, so that two
frames never share one. `tx` is what a peer counts with, `thread` where its
threads stand in a broadcast (packets are built by one of a peer's threads, so
that they are alike whether built before it or as they are sealed), `rx` what `Local` remembers of each sender, `cache`
what the peer cache and the replay window know of it; `recv` is the receive
thread between an admitted vote and its observation, `beat` the heartbeat
thread between the two halves of its pass. `profile` is what the swarm is
configured for and busy with, chosen at the start and never changed: several
configurations share one run.

*Steps.* `Broadcast` is an undisturbed `broadcast()`; where threads race it is
`LoadSeq`, `StoreSeq`, `ReadChain`, `FinishSeal`, which is how
`++seq_counter_` and the unlocked `peer_state_` can interleave. `Receive` is one
turn of `recv_loop()`: open the frame, then parse, validate, verify and admit a
packet, or take in a keyframe. `LookUp` and `Observe` are the two halves of
`EdgeConsensusManager::observe_packet`, on either side of its mutex;
`ExpireCache` and `ExpireVotes` the two of a heartbeat pass. Both sides restart.

*Abstractions.* A signature is the record of algorithm, key and what was signed;
a cipher opens with the right key. Of a payload only what JSON and CBOR treat
differently is kept: whether four decimals say a number, whether a string holds
a quotation mark or is too long. Descriptors are a few views. The parsing of
either format is what it keeps, loses or refuses. Local does not send here; its
own frames, which its context refuses, are left out.

*An assumption.* `OnlyElectionsRace`: of the ledger frames only elections are
sealed by more than one thread of a node. The repository's drone node seals no
other ledger frame; a process that ordered formations through the Python
bindings while its heartbeat thread elects would be outside it, and its chain
could break.

### FlightLoop and its parts

*State.* `pc` is the step of the loop's tick; `reading` and `tick` what it has
read and made of it; `monitor` the failures counted by kind with their ages in
ticks; `meshError`, `pending`, `client` what the other threads share with it.
`stopOwed` and `sinceOutage` are history variables that no guard reads.

*Steps.* `Sense`, `Decide`, `Uplink` and `Report` are one turn of the loop, cut
where another thread's step can be noticed. `Decide` takes the command through
its writers in the order of the code: engine, security failsafe, peer, safety
manager. `Receive` and `RejectFrame` are the receive thread, `FinishPublish` the
end of the publishing task.

*Abstractions.* A reading is a record of figures in thousandths or percent and
of flags; sensors are free to read anything of `Readings` at each tick, so no
continuity of the world is assumed. Steering vectors, texts and logging are left
out. Time is counted in ticks of `TickMs`.

### VioFrontend and its parts

*State.* `active` and `shadow` are the two filters, each reduced to its stamps,
whether it is initialized and how its last step ended; `window` the clones with
their indices, tracks and covariance blocks; `detector` the samples of the rest
detector and its intervals; `features` the tracks of the front end. `seen` is a
history variable.

*Steps.* One handler of the pipeline is one step, except that the features
follow the frame (`SubmitFeatures`) and each turn of the loop that retires
clones is a step (`Retire`). Whether a correction passes its gates, whether a
covariance is healthy and which points can be triangulated is left open.

## 3. What the runs check

| Run | Result | Shows |
|---|---|---|
| `cache_journal` | passes, 79,275 states | with a journal: no replay admitted, no false duplicate, cache and journal agree, the file reloads, and the cache implements `PeerInbox` |
| `cache_memory` | passes, 130,083 states | without a journal: a replay only after the window was really lost; no rollback of what is shown |
| `coordinator` | passes, 411,128 states | generations, accounting, depth, quiet stop, order of processing under both policies; the coordinator's operations return, the queue drains; the pipeline's `stop()` returns while a sensor delivers |
| `coordinator_contamination` | violated | an old measurement enters the shadow already reset (`EstimatorCoordinator.cpp:154`) |
| `election` | passes, 400,952 states | one election at a time; the count finds the best drone within reach; elections end; a silent leader is given up |
| `election_fault` | violated | a drone with an emergency fault is elected on the score heard before it (`V2XMeshNetwork.cpp:562`) |
| `count_tie` | violated | drones with the same figures elect different leaders when the figures lie within the window (`V2XMeshNetwork.cpp:562`) |
| `flight` | passes, 712,156 states | an emergency stop that reaches the tick lands the drone, the safety manager has the last word, landings stand, an outage suspends peers, the geofence turns back, trust returns, the backend is retried |
| `flight_stop` | violated | a later command of a peer overwrites an emergency stop in the mailbox (`main.cpp:1168`) |
| `vio` | passes, 329,568 states | the window and its indices agree, no reference to a retired clone, marks and corrections go together, the window is bounded, corrections at rest are applied at rest and counted once, points stay |
| `vio_age` | violated | the age of vision does not grow while only the IMU speaks (`EKFEstimator.cpp:394`) |
| `mesh` | passes, 494,123 states | no order is skipped; a packet verifies exactly when it is genuine; supporters support; numbers of the map stay unique; a silent drone loses its vote |

*Bounds of the cache runs.* The window is 2 instead of 64: with the sequence
numbers 1 to 3 a packet can be the highest, below it inside the window, or out
of it, and an advance can shift by less than the window or by all of it, which
are all the cases `observe_packet` and `load` distinguish. Two senders and one
entry (`MaxEntries`) make trimming and the journal's peer limit happen. Two
trust epochs and three starts allow a restart into a newer epoch and back. The
packets include one number reused by a restarted sender, a goodbye, a
disconnected peer and a fault. The clock runs far enough for packets to be
early, fresh and expired, and for entries to become stale and to go.

*Bounds of the coordinator runs.* Of two measurements a queue of one drops one,
and a queue of two keeps both in order; a reconfiguration may change the
capacity under them. Three advances of the generation are a start, a
reconfiguration that turns the shadow on, and a reset or another of them while
measurements of the old generation are queued or in flight. `EventLimit` = 1
stands for 2000: the event queue overflows, is empty and holds more than one.
Deadlock is not checked: a process that is not started again, or a pipeline that
stays stopped at the bounds, may do nothing for good, and a pipeline whose
`stop()` lost its wakeup waits for the next event; `CoordinatorReturns` and
`StopReturnsWhileSensed` cover the waiting that matters.

*Bounds of the election runs.* The window is two units, so that figures one unit
apart are a tie and figures two apart are not, though a third may lie between
them: `count_tie` takes all the figures three drones may have at distance one.
In
`LeaderElection` the local drone has an identifier between those of its peers, so
that it wins one tie and loses the other; with two healths, one weaker, it meets
peers above, level and below it. `election_fault` has one peer. Nothing else is
bounded: the runs have no counter.

*Bounds of the flight runs.* The readings are a quiet one and every one that
differs from it in one of eleven ways, chosen so that each rung of the security
ladder, each safety state and each writer is reached; at each tick any of them
may be read. Two profiles, an ordinary and a hardened production node. Both
trust windows last one tick, the shortest in which "too early" and "too late"
differ. `MaxPeerEvents` = 2 lets a stop be followed by a milder command and a
frame be refused after another. Two back-off steps stand for six.

*Bounds of the vio runs.* Stamps up to 5 with a largest IMU step of 2 give
samples that are late, equal, fresh and after a gap. Windows of one and two
clones with two frames more than fit retire clones that are and are not
the last of a track, and fail to. A detector window of 3 with thresholds of 2
enters and leaves rest at every place of its boundary. A configuration either
retires clones or rests, so that the two add up instead of multiplying; the code
shares no state between them but the stamps.

*Bounds of the mesh run.* Each group of profiles asks one question, since the
code paths do not share state: racing threads with three frames, losses and
restarts with three and four frames, one packet of every make under eighteen
pairs of key stores, four pairs of encodings and two clock offsets, two voting
peers, and maps of at most two keyframes of at most three rows. Two votes are
the fewest with which a later epoch replaces an earlier one. Deadlock is not
checked: when its frames are spent a profile without a heartbeat stops.

*Fairness in `coordinator`* (`FairSpec`). The control thread, the processing thread
and the worker are scheduled again and again when they can take a step: critical
sections do not block, and the operating system runs every thread. The processing
thread owes a turn of its loop, the publication of what it sampled and the end of
its event; nobody owes a measurement or a control operation, and no sensor an
event. `StopReturnsWhileSensed` is the exception, and says so: its premise,
`WF_vars(SensorEvent)`, is that sensors go on delivering. TLC refutes it without the
premise, by the lost notification. The shadow's own computation ends, which is
an assumption about the filters. The liveness properties hold whether the shadow
throws or not.

*Fairness in `election`.* Each thread goes on with an election it began,
the receive thread finishes the message it has, and the heartbeat thread makes
its passes: none of them waits for a message, and `peers_mutex_` is held for a
bounded loop only. Nothing need ever be received, no peer need fall silent, and
nobody need call for an election.

*Fairness in `flight`.* The loop turns (`WF_pc(Turn)`): it waits for no other
thread. A publication ends (`WF_vars(Task)`): it has a timeout. Peers, sensors
and the mesh owe nothing.

*Fairness in `mesh`.* The heartbeat thread makes its passes
(`WF_vars(ExpireCache \/ ExpireVotes)`). The radio and the peers owe nothing, and
the receive thread may stay between look-up and observation for ever.

Each property has a variant of the code in the modules, marked `faulty`, that
breaks it: see `mutants` in `PROJECT.json`.

## 4. What is proved

The proofs about the cache hold for any sets of senders and packets, any window
size, limits and bounds; all proofs assume only the named assumptions of their
modules, and what a theorem states.

`SwarmStateCache`:

- `TypeCorrect`: `Spec => []TypeOK`.
- `ReplaysAreRefused`: `Spec => []AdmittedOnce`. `AdmittedOnce` is not
  inductive: a second admission is refused only because some record still covers
  the identity. `JournalInv` says so: every identity ever admitted is covered by
  the row of its sender *on disk* (`UsesCovered`), the one part of the state that
  survives every crash; while the journal is healthy its records in memory equal
  the rows on disk (`MemoryFollowsDisk`); the file satisfies the checks of
  `load()` and its limit (`DiskSound`); and the cache agrees with the journal
  (`CacheFollowsJournal`). A failed write may put a row on disk without the
  admission, which only covers more.
- `CacheAndJournalAgree` and `JournalAlwaysReloads` follow from the same invariant.
- `CacheImplementsInbox`: with a journal, `Spec` implements `PeerInbox`, showing
  of each peer its cache entry; `AdmitNew` is `Present`, `AdmitLate` is
  `HandOnLate`, everything that removes entries is `Forget`, the rest stutters.
- `NewestIsShown`: `Spec => PresentationNeverRollsBack`, with or without a
  journal. It needs `CacheForm`: an entry is empty or its window contains its
  highest number, so that `AdmitNew` is the only step that changes what is shown.
- `NoDuplicateIsImagined`: `Spec => []NoFalseDuplicate`, from `AllGrounded`: every
  bit of a window in the cache, in the journal's memory and on disk stands for a
  number that was seen. The three are needed together because `load()` and
  `persist` copy windows from one to the other.
- `ReplayNeedsLoss`: `NumberedInTime => (Spec => []RepeatOnlyAfterLoss)`. Without a
  journal only the entry and, once it has expired, the age of its packets refuse a
  replay. `MemoryInv` says of each admitted packet, unless its sender's window was
  lost, that one of the two does. The step between them is `Expire`: the entry is
  as old as the packet it shows, so a packet with a lower number must not live
  longer than it. That is the hypothesis. A sender reads its clock before it takes
  the next number (`V2XMeshNetwork.cpp:937`), and two of its threads may do so in
  turns; what they may be apart is the difference between the retention of an
  entry and the longest life of a packet. `StampedInOrder` proves the hypothesis
  for senders whose stamps rise with the numbers.

`EstimatorCoordinator`, for any capacities and either policy of a full queue, any
numbers of measurements and generations, whether the shadow throws or not:

- `CoordinatorTypes`, `StopIsQuiet`, `PublishedStaysCurrent`,
  `MeasurementsAccounted`, `DepthIsShown`: the five invariants of
  `coordinator`; `QueueIsFIFO`: its action property `ProcessedInOrder`.
- They follow from one invariant, `IInv` (`CoordinatorInvariant`). Two of the
  properties are inductive with the types alone: a result is published in the
  same critical section that compares the generations, and every step that moves
  a measurement moves it between two terms of the sum. The others need more.
  `StoppedIsQuiet` needs `WorkerInv`: there is a worker exactly while it is said
  to run, and it exits only with an empty queue after a request to stop, after
  which nothing is accepted. `DepthMatchesQueue` needs that `initialize`, which
  zeroes the depth and leaves the queue alone, finds it empty (`RenewsQuietly`).
  That is so because `initialize` is called first by a pipeline that starts, or
  right after `stop()` (`ProgramInv` says where the steps of each operation
  stand), and because a pipeline that is stopped joins its processing thread
  before it stops the worker, so that nothing is left in the queue
  (`ProducerJoined`, `StopAhead`). `ProcessedInOrder` needs that the enqueue
  indexes grow along the queue (`QueueOrdered`).

The election, for any number of drones and any figures:

- `ElectionsExclude`: `Spec => []OneElectionAtATime`; inductive with the types,
  because the second conjunct says who may clear the flag.
- `CountFindsBest`: `Spec => []WinnerIsBest`, strengthened to `BestOfLooked`: at
  every turn the best so far is among those looked at and outranks the others of
  them. A turn that replaces the best needs the rule to be transitive
  (`OutranksTransitive`), one that does not needs it to be total
  (`OutranksTotal`), and the table must not change under the count, which
  `PeersFree` in every handler says.
  It assumes `Separated`, that no two different figures lie within the window:
  without it the rule is neither transitive nor antisymmetric (section 6), and
  there is no best to find.
- `CountStaysNear`: `Spec => []ElectedIsNearBest` in `ElectionCount`, for any finite
  number of drones, without `Separated`. It is what the rule keeps where near ties
  make its outcome depend on the order: a turn may hand the lead to a drone of
  lower score, but by less than a window, and the next tie is measured from there;
  so a count of n peers never ends on a drone whose score is n windows below
  another's. The invariant (`NearBestSoFar`) says so of the peers looked at so far.

The flight loop, for any configurations that may start, any readings, any
windows, back-off and number of events:

- `StopsAreObeyed`, `SafetyWritesLast`, `LandingsStand`, `GeofencesTurnBack`:
  what a tick's command is between `Decide` and `Uplink`. They rest on lemmas
  about the writers one by one (what the failsafe, the policy and the safety
  manager make of a landing, a hold, a peer's command), put together in the order
  of the code, and on `IInv` saying that a tick is always made by those writers
  of one reading (`TickIsProper`).
- `OutagesSuspendPeers`: peers are listened to only in the two lowest states of
  the security ladder, and a failure counted for the control plane keeps it out
  of them. The invariant (`OutageRemembered`) ties the history variable to the
  monitor: as long as the window since the last failed publication has not
  passed, the monitor still counts a failure. It is needed because the failure is
  noted in one tick (`Report`) and decays in others (`Sense`).

The mesh, for any peers, configurations, traffic and restarts:

- `NoOrderSkipped`: `Spec => []LedgerIsComplete`. The receiver compares a frame
  with its own memory, the sender with its own; the invariant ties the two to
  the frames themselves. `SendersChain`: a sender's chain is its last ledger frame
  since it started. `FramesChain`: so each ledger frame names the one before it.
  `LocalsChain`: the receiver's chain is a frame it has opened. Then opening a
  ledger frame that names the receiver's chain leaves nothing out. The hard part
  is the race: a thread has read the chain and another writes it before the
  first does. `ThreadsExclude` says that `election_ongoing_` leaves each sender
  one election at a time, `ReadingsHold` that what a thread has read for a ledger
  frame still holds, which is where `OnlyElectionsRace` is used. Without a
  security context nothing is opened by it, and the property is void.

- `GenuineIsVerified`: `Spec => []VerifiedIffGenuine`. That a packet on the air is
  what some `Built` and `signPacket` made of a template (`PacketsFormed`), also when
  a thread took long over it (`ThreadsSign`), is the invariant; the rest is lemmas
  about signing, both encodings, parsing and verification, for every pair of key
  stores and modes. `SignatureMatches` says when two packets have one signature:
  exactly when algorithm, key and content are the same, because the canonical bytes
  are a function of the content alone. `JsonKeeps` and `CborKeeps` say what survives an encoding.
- `SupportIsReal`: `Spec => []SupportersSupport`. `VoteAnnounced` says the same of
  the vote that the receive thread carries from the look-up to the observation, and
  `VotesCounted` that a met quorum is one of as many supporters as were asked for;
  both must hold between any two steps of the heartbeat and the receive thread.
- `MapStaysConsistent`: `Spec => []MapIsConsistent`. `MapInv` adds to the property
  what is needed of what comes in: that the file is consistent as well
  (`FileFormed`), that a keyframe in a frame has as many points as views
  (`KeyframesFormed`), and that there are finitely many numbers, so that
  `load_map()` finds one above them all. The rows of a keyframe are followed one by
  one (`RowsAssociated`): each keeps what the rows before it have established.

The estimators, for any configuration, clone limit, detector window and points:

- `Sound`: `Spec => []FrontendInv`; from it `ClonesAgree`, `NoDanglingTrack`,
  `NothingFusedTwice`, `ClonesAreBounded`, `ZuptsAccounted` and `PointsStay`.
  `GoodWindow` strengthens the properties of the clone window until every operation
  keeps it: ids are given in the order of the stamps (`ClonesInOrder`), stamps are
  indexed both ways (`StampsIndexed`), and a correction by a clone that is still
  there is remembered by the track it came from, while the clones of all other
  corrections are older than the window (`MarksCorrect`). A retirement that fails
  restores all of it, one that succeeds takes the oldest id from everything.
- `ZuptOnlyAtRest`: `ExitCount <= EnterCount => (Spec => NoZuptInMotion)`. The
  detector enters rest on quiet samples and stays on calm ones, so the sample that
  enters is itself calm enough only if entering asks for no less. The defaults are
  16 and 10 (`EKFEstimator.hpp:71`); the checks of the configuration
  (`Phase17ESKFEstimator.cpp:793`, `RuntimeMode.cpp:497`) compare either count with
  the window but not the two with each other, so the hypothesis is one about the
  configuration.

Two ways of proof are worth knowing. The library's rule of induction takes a
predicate as a parameter, which the provers cannot instantiate, so induction over
numbers is done by the least counterexample (`LeastExists`, from the
well-foundedness of the naturals): so for the recursive function `AfterRows` and
for the highest of finitely many numbers. And a record that a step changes in
several fields is first shown to belong to a set of records with given fields
(`OnlyWith`, `OnlyVotes`, `OnlyMap`), from which each field is read off.

Only model-checked are the liveness properties, since liveness under fairness is
beyond the prover: `CoordinatorReturns`, `StopReturnsWhileSensed`, `QueueDrains`,
`ElectionEnds`,
`LostLeaderAbandoned`, `DistrustFades`, `BackendIsRetried` and
`SilentPeersLoseTheirVote`. Every other property of a passing run is a theorem.

## 5. What is not modelled

- *Several complete drones* with the messages between them: two leaders at once,
  followers only, and whether a quiet swarm settles on one leader. `LeaderElection`
  takes the other drones as an environment, and its state space leaves no room
  for a second complete drone.
- *What is in the event queue of `VIOPipeline`*: `EstimatorCoordinator` counts its
  events, and `VioFrontend` takes any measurement next.
- *Manual zero-velocity updates*: `MeasurementType::ManualZupt`
  (`Phase17ESKFEstimator.cpp:2778`) calls `update_zupt()` past the rest detector, and
  would break `EveryZuptBilled`; nothing in the program sends one.
- *Unicast, formation slots, avoidance and link metrics* of the mesh; TDOA ingest
  and the UWB driver; relocalization, the occupancy grid and the planner;
  experience memory; promotion readiness: numeric, or sequential judgements that
  unit tests reach.
- *The Go control plane* on the ground, a program of its own.
- Left out for good: the mathematics of filters and solvers (floating point),
  the syntax of JSON and CBOR, cryptography, HTTP, device input and output, the
  dashboard, simulation and research scripts, deployment files and third-party code.

What would come next, in this order: the composed swarm, on a coarser model of
one drone; an abstract specification of the consensus and of the
clone window, with proofs that the models implement them; the safety half of the
liveness properties (what each waiting thread waits for, as an invariant).

## 6. Where code and documents disagree

Shown by the runs that expect a violation: `coordinator_contamination`,
`election_fault`, `count_tie`, `flight_stop`, `vio_age` (quoted under `findings`).
In `count_tie` all three drones have one score; drone 1 counts drone 2 and then
drone 3 and elects 3, drone 3 counts 2 and elects 2, because the one's battery is
fuller by less than a tie and the other's identifier is higher. A strictly higher
score always wins, but within 1e-4 a fuller battery wins too, and within 1e-4 of
both the identifier: each of two drones may outrank the other
(`V2XMeshNetwork.cpp:562`; `README.md:1854` calls the tie break deterministic).

Met while modelling, and modelled as the code has them:

- the expiry pass recomputes staleness from age alone, so a peer that has said
  goodbye counts as present again until it times out (`SwarmStateCache.cpp:173`;
  `docs/EDGE_PEER_PACKET_PROTOCOL.md:99`);
- JSON writes four decimals and its parser ends a string at the first quotation
  mark, while the signature covers the full values in CBOR: a packet with finer
  numbers is refused in the default encoding (`EdgePeerProtocol.cpp:59`);
- one lost or reordered frame breaks the chain of a sender for good, since
  `open()` refuses every frame whose predecessor it has not opened, until one of
  the two restarts the chain (`SwarmSecurity.cpp:522`;
  `docs/EDGE_SWARM_ARCHITECTURE.md:139` speaks of tolerating partial mesh loss);
- `encode_keyframe` appends the bytes of the whole matrix for each row
  (`KeyframeManager.cpp:815`), so only the first row of a shared keyframe arrives,
  and a keyframe too large for a datagram is dropped after it was sealed, which
  breaks the chain;
- a new clone's covariance block is left zero where
  `docs/msckf-feature-constraint-update-shadow-validation/FEATURE_UPDATE_DESIGN.md:15`
  says it is filled with the base's cross terms (`Phase17ESKFEstimator.cpp:962`);
- the time-sync tracker takes a sample at each of the two observations of a tick,
  one of them against the stamp of the tick before (`TimeSyncTracker.cpp:12`), so
  a slow loop reads as an offset between the clocks.
