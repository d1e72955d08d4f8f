------------------------ MODULE EstimatorCoordinator ------------------------
(***************************************************************************)
(* The shadow side of the estimator coordinator of the VIO pipeline. Four  *)
(* threads share it: a control thread that starts, stops, resets,          *)
(* reconfigures and flushes; a sensor, which queues events; the pipeline's *)
(* processing thread, which waits for events and offers measurements; and  *)
(* the worker, which feeds them to the shadow estimator outside the lock   *)
(* and publishes what came of it.                                          *)
(*                                                                         *)
(* Every step of a thread is one critical section of mutex_, or one call   *)
(* of the shadow estimator, which has a mutex of its own. The critical     *)
(* section of the pipeline's queue_mutex_ in which the processing thread   *)
(* goes to sleep takes two: running_ is cleared without that mutex.        *)
(***************************************************************************)
EXTENDS Naturals, Sequences

CONSTANTS
    Capacities,         \* queue capacities that configure_validation may set
    Policies,           \* ShadowQueueFullPolicy: which of these a coordinator may be built with
    EventLimit,         \* a queue of more sensor events than this drops its oldest: 2000
    MayThrow,           \* may the shadow estimator throw?
    MaxMeasurements,    \* bound: how many measurements are offered
    MaxGenerations      \* bound: how often the generation advances

(* The capacity is read several times while configure_validation writes it *)
(* without the lock. As long as it never changes between zero and not      *)
(* zero, what a publication does is what it would do with the old capacity *)
(* throughout, or with the new one; RuntimeMode refuses zero.              *)
ASSUME ConstantsAssumption ==
    /\ Capacities \subseteq Nat
    /\ 0 \in Capacities => Capacities = {0}
    /\ Policies \subseteq {"DropOldest", "DropNewest"}
    /\ EventLimit \in Nat
    /\ MayThrow \in BOOLEAN
    /\ MaxMeasurements \in Nat
    /\ MaxGenerations \in Nat

VARIABLES
    control,    \* what the control thread still has to do, <<>> when idle
    pipeline,   \* VIOPipeline::running_
    producer,   \* the processing thread: step, and the generation it read
    offered,    \* how many measurements it has offered
    events,     \* VIOPipeline::event_queue_: how many sensor events it holds
    enabled,    \* diagnostics_.shadow_enabled
    capacity,   \* shadow_cfg_.queue_capacity
    policy,     \* shadow_cfg_.queue_full_policy
    running,    \* worker_running_
    stopping,   \* worker_stop_requested_
    lifecycle,  \* diagnostics_.lifecycle_state
    generation, \* reset_generation_
    queue,      \* queue_: generation and enqueue index of each measurement
    depth,      \* diagnostics_.queue.current_depth
    worker,     \* the worker thread: step, item, and the snapshot it took
    inflight,   \* worker_inflight_
    shadow,     \* generations of the measurements in the shadow's state
    published,  \* shadow_snapshot_ and last_comparison, set and reset together
    counts      \* next_enqueue_index_ and the counters of CoordinatorDiagnostics

controlVars == <<control, pipeline, enabled, capacity, policy>>
producerVars == <<producer, offered, events>>
lifeVars == <<running, stopping, lifecycle>>
queueVars == <<queue, depth>>
workerVars == <<worker, inflight>>

vars == <<controlVars, producerVars, lifeVars, generation, queueVars, workerVars,
          shadow, published, counts>>

Lifecycles == {"Disabled", "Starting", "Running", "Failed", "Stopping", "Stopped"}
Items == [generation : Nat, index : Nat]
NoItem == [generation |-> 0, index |-> 0]
Nothing == [generation |-> 0, seen |-> {}]

(***************************************************************************)
(* Condition variables. A sleeper on queue_cv_ or idle_cv_ looks at its    *)
(* predicate again only after a notification.                              *)
(***************************************************************************)
RousedNever == worker                                             \* faulty

Roused == IF worker.step = "asleep" THEN [worker EXCEPT !.step = "wait"] ELSE worker

WokenNever == control                                             \* faulty

Woken ==
    IF control # <<>> /\ Head(control) = "asleep"
      THEN <<"flush">> \o Tail(control)
      ELSE control

HailedNever == producer                                           \* faulty

(* The processing thread sleeps on the pipeline's own queue_cv_. While it  *)
(* "dozes" it has found its predicate false and is not yet on the          *)
(* condition variable: a notification passes it by.                        *)
Hailed == IF producer.step = "asleep" THEN [producer EXCEPT !.step = "wait"] ELSE producer

(***************************************************************************)
(* queue_mutex_ of the pipeline is held by a dozing processing thread, and *)
(* by the control thread all through VIOPipeline::reset.                   *)
(***************************************************************************)
At(step) == control # <<>> /\ Head(control) = step

EventQueueFree == producer.step # "doze" /\ ~At("reset shadow") /\ ~At("reset")

(***************************************************************************)
(* The control thread: each operation is a program of steps.               *)
(***************************************************************************)
Init ==
    /\ control = <<>>
    /\ pipeline = FALSE
    /\ producer = [step |-> "none", generation |-> 0]
    /\ offered = 0
    /\ events = 0
    /\ enabled = FALSE
    /\ capacity \in Capacities
    /\ policy \in Policies
    /\ running = FALSE
    /\ stopping = FALSE
    /\ lifecycle = "Disabled"
    /\ generation = 0
    /\ queue = <<>>
    /\ depth = 0
    /\ worker = [step |-> "none", item |-> NoItem, seen |-> {}]
    /\ inflight = 0
    /\ shadow = {}
    /\ published = Nothing
    /\ counts = [index |-> 0, processed |-> 0, stale |-> 0, dropped |-> 0,
                 failed |-> 0, wiped |-> 0]

Begin(program) ==
    /\ control = <<>>
    /\ control' = program

StartPipeline ==
    /\ ~pipeline
    /\ generation < MaxGenerations
    /\ pipeline' = TRUE
    /\ Begin(<<"initialize", "start", "spawn">>)
    /\ UNCHANGED <<producerVars, enabled, capacity, policy, lifeVars, generation, queueVars,
                   workerVars, shadow, published, counts>>

StopPipeline ==
    /\ pipeline
    /\ pipeline' = FALSE
    /\ Begin(<<"notify producer", "join producer", "stop">>)
    /\ UNCHANGED <<producerVars, enabled, capacity, policy, lifeVars, generation, queueVars,
                   workerVars, shadow, published, counts>>

Reset ==
    /\ generation < MaxGenerations
    /\ EventQueueFree
    /\ Begin(<<"reset shadow", "reset">>)
    /\ events' = 0
    /\ UNCHANGED <<pipeline, producer, offered, enabled, capacity, policy, lifeVars, generation, queueVars,
                   workerVars, shadow, published, counts>>

Flush ==
    /\ Begin(<<"flush">>)
    /\ UNCHANGED <<pipeline, producerVars, enabled, capacity, policy, lifeVars, generation, queueVars,
                   workerVars, shadow, published, counts>>

(* configure_validation writes without the lock, then the worker is        *)
(* stopped and everything initialized anew, the producer still running.    *)
Reconfigure(on, size) ==
    /\ generation < MaxGenerations
    /\ Begin(IF pipeline THEN <<"stop", "initialize", "start">> ELSE <<"stop", "initialize">>)
    /\ enabled' = on
    /\ capacity' = size
    /\ lifecycle' = IF on THEN lifecycle ELSE "Disabled"
    /\ UNCHANGED <<pipeline, policy, producerVars, running, stopping, generation, queueVars,
                   workerVars, shadow, published, counts>>

Go(next) == control' = next \o Tail(control)

(* shadow_->reset of initialize and of reset, outside the lock. When it    *)
(* throws, the estimator may or may not have been reset.                   *)
ResetShadow ==
    /\ At("initialize") \/ At("reset shadow")
    /\ \/ /\ shadow' = {}
          /\ Go(IF At("initialize") THEN <<"renew">> ELSE <<>>)
          /\ UNCHANGED lifecycle
       \/ /\ MayThrow
          /\ shadow' \in {shadow, {}}
          /\ lifecycle' = "Failed"
          /\ Go(IF At("initialize") THEN <<"renew failed">> ELSE <<>>)
    /\ UNCHANGED <<pipeline, producerVars, enabled, capacity, policy, running, stopping, generation,
                   queueVars, workerVars, published, counts>>

(* The locked part of initialize, and what it calls last.                  *)
Renew ==
    /\ At("renew") \/ At("renew failed")
    /\ generation' = generation + 1
    /\ published' = Nothing
    /\ depth' = 0
    /\ Go(IF ~enabled THEN <<"stop">> ELSE IF At("renew") THEN <<"start">> ELSE <<>>)
    /\ UNCHANGED <<pipeline, producerVars, enabled, capacity, policy, lifeVars, queue, workerVars,
                   shadow, counts>>

(* The locked part of reset.                                               *)
ResetQueue ==
    /\ At("reset")
    /\ generation' = generation + 1
    /\ counts' = [counts EXCEPT !.stale = @ + Len(queue)]
    /\ queue' = <<>>
    /\ depth' = 0
    /\ published' = Nothing
    /\ Go(<<>>)
    /\ UNCHANGED <<pipeline, producerVars, enabled, capacity, policy, lifeVars, workerVars, shadow>>

Start ==
    /\ At("start")
    /\ Go(<<>>)
    /\ IF enabled /\ ~running
         THEN /\ stopping' = FALSE
              /\ running' = TRUE
              /\ lifecycle' = "Starting"
              /\ worker' = [worker EXCEPT !.step = "starting"]
         ELSE /\ lifecycle' = IF enabled THEN lifecycle ELSE "Disabled"
              /\ UNCHANGED <<running, stopping, worker>>
    /\ UNCHANGED <<pipeline, producerVars, enabled, capacity, policy, generation, queueVars, inflight,
                   shadow, published, counts>>

SpawnProducer ==
    /\ At("spawn")
    /\ Go(<<>>)
    /\ producer' = [producer EXCEPT !.step = "loop"]
    /\ UNCHANGED <<pipeline, offered, events, enabled, capacity, policy, lifeVars, generation, queueVars,
                   workerVars, shadow, published, counts>>

(* running_ has been cleared, and the notification sent, both without      *)
(* queue_mutex_.                                                           *)
NotifyProducer ==
    /\ At("notify producer")
    /\ producer' = Hailed
    /\ Go(<<>>)
    /\ UNCHANGED <<pipeline, offered, events, enabled, capacity, policy, lifeVars, generation,
                   queueVars, workerVars, shadow, published, counts>>

(* join() returns once processing_loop has ended.                          *)
JoinProducer ==
    /\ At("join producer")
    /\ producer.step = "exited"
    /\ Go(<<>>)
    /\ producer' = [producer EXCEPT !.step = "none"]
    /\ UNCHANGED <<pipeline, offered, events, enabled, capacity, policy, lifeVars, generation, queueVars,
                   workerVars, shadow, published, counts>>

RequestStop ==
    /\ At("stop")
    /\ IF ~running /\ worker.step = "none"
         THEN /\ lifecycle' = IF enabled THEN "Stopped" ELSE lifecycle
              /\ Go(<<>>)
              /\ UNCHANGED stopping
         ELSE /\ stopping' = TRUE
              /\ lifecycle' = "Stopping"
              /\ Go(<<"notify", "join">>)
    /\ UNCHANGED <<pipeline, producerVars, enabled, capacity, policy, running, generation, queueVars,
                   workerVars, shadow, published, counts>>

(* The notification comes after the lock is released.                      *)
NotifyStop ==
    /\ At("notify")
    /\ worker' = Roused
    /\ Go(<<>>)
    /\ UNCHANGED <<pipeline, producerVars, enabled, capacity, policy, lifeVars, generation, queueVars,
                   inflight, shadow, published, counts>>

(* join() returns once the worker's loop has ended.                        *)
JoinedAnyway == TRUE                                              \* faulty

Joined == worker.step = "exited"

FinishStop ==
    /\ At("join")
    /\ Joined
    /\ running' = FALSE
    /\ lifecycle' = IF enabled THEN "Stopped" ELSE "Disabled"
    /\ worker' = [worker EXCEPT !.step = "none"]
    /\ Go(<<>>)
    /\ UNCHANGED <<pipeline, producerVars, enabled, capacity, policy, stopping, generation, queueVars,
                   inflight, shadow, published, counts>>

FlushWaits ==
    /\ At("flush")
    /\ Go(IF queue = <<>> /\ inflight = 0 THEN <<>> ELSE <<"asleep">>)
    /\ UNCHANGED <<pipeline, producerVars, enabled, capacity, policy, lifeVars, generation, queueVars,
                   workerVars, shadow, published, counts>>

ControlStep ==
    \/ ResetShadow
    \/ Renew
    \/ ResetQueue
    \/ Start
    \/ SpawnProducer
    \/ NotifyProducer
    \/ JoinProducer
    \/ RequestStop
    \/ NotifyStop
    \/ FinishStop
    \/ FlushWaits

(***************************************************************************)
(* A sensor's thread. The queue drops its oldest event when it holds more  *)
(* than EventLimit; the notification follows the push.                     *)
(***************************************************************************)
SensorEvent ==
    /\ EventQueueFree
    /\ events' = IF events > EventLimit THEN events ELSE events + 1
    /\ producer' = Hailed
    /\ UNCHANGED <<controlVars, offered, lifeVars, generation, queueVars, workerVars, shadow,
                   published, counts>>

(***************************************************************************)
(* The processing thread. While the pipeline runs it takes sensor events,  *)
(* and offers the measurements it makes of them. The generation is read in *)
(* one critical section and the measurement published in a later one.      *)
(***************************************************************************)
ProducerGoes(step) ==
    /\ producer' = [producer EXCEPT !.step = step]
    /\ UNCHANGED <<controlVars, offered, lifeVars, generation, queueVars, workerVars, shadow,
                   published, counts>>

(* The condition of the loop.                                              *)
ProducerLoops ==
    /\ producer.step = "loop"
    /\ ProducerGoes(IF pipeline THEN "wait" ELSE "exited")
    /\ UNCHANGED events

(* The predicate of the wait is true, and there is an event.               *)
TakeEvent ==
    /\ producer.step = "wait" /\ EventQueueFree
    /\ events # 0
    /\ events' = events - 1
    /\ ProducerGoes("handling")

(* The predicate is true because the pipeline stops.                       *)
ProducerExits ==
    /\ producer.step = "wait" /\ EventQueueFree
    /\ events = 0 /\ ~pipeline
    /\ ProducerGoes("exited")
    /\ UNCHANGED events

(* The predicate is false: the thread will sleep, whatever stop() does     *)
(* before it does.                                                         *)
ProducerDozes ==
    /\ producer.step = "wait" /\ EventQueueFree
    /\ events = 0 /\ pipeline
    /\ ProducerGoes("doze")
    /\ UNCHANGED events

ProducerSleeps ==
    /\ producer.step = "doze"
    /\ ProducerGoes("asleep")
    /\ UNCHANGED events

EndEvent ==
    /\ producer.step = "handling"
    /\ ProducerGoes("loop")
    /\ UNCHANGED events

Offer ==
    /\ producer.step = "handling"
    /\ offered < MaxMeasurements
    /\ offered' = offered + 1
    /\ UNCHANGED <<controlVars, events, lifeVars, generation, queueVars, workerVars, shadow,
                   published, counts>>

(* process_measurement: the active estimator has taken the measurement.    *)
ProcessMeasurement ==
    /\ Offer
    /\ producer' = IF enabled THEN [step |-> "sampled", generation |-> generation]
                              ELSE producer

(* submit_shadow_measurement: refused unless the worker runs.              *)
SubmitShadowMeasurement ==
    /\ Offer
    /\ producer' = IF enabled /\ running /\ ~stopping
                     THEN [step |-> "sampled", generation |-> generation]
                     ELSE producer

EnqueuedInFront(items, item) == <<item>> \o items                 \* faulty

Enqueued(items, item) == Append(items, item)

PublishesAlways == TRUE                                           \* faulty

Publishes == running /\ ~stopping

Full == Len(queue) >= capacity

DroppedUncounted == 0                                             \* faulty

Dropped == IF Full THEN 1 ELSE 0

PublishMeasurement ==
    /\ producer.step = "sampled"
    /\ producer' = [producer EXCEPT !.step = "handling"]
    /\ LET item == [generation |-> producer.generation, index |-> counts.index + 1]
           kept == IF Full THEN Tail(queue) ELSE queue
       IN \/ /\ ~Publishes
             /\ UNCHANGED <<queueVars, worker, counts>>
          \/ /\ Publishes
             /\ capacity = 0 \/ (Full /\ policy = "DropNewest")
             /\ counts' = [counts EXCEPT !.index = @ + 1, !.dropped = @ + 1]
             /\ UNCHANGED <<queueVars, worker>>
          \/ /\ Publishes
             /\ capacity # 0 /\ ~(Full /\ policy = "DropNewest")
             /\ counts' = [counts EXCEPT !.index = @ + 1,
                                         !.dropped = @ + Dropped]
             /\ queue' = Enqueued(kept, item)
             /\ depth' = Len(queue')
             /\ worker' = Roused
    /\ UNCHANGED <<controlVars, offered, events, lifeVars, generation, inflight, shadow,
                   published>>

ProducerStep ==
    \/ ProducerLoops
    \/ TakeEvent
    \/ ProducerExits
    \/ ProducerDozes
    \/ ProducerSleeps
    \/ EndEvent
    \/ PublishMeasurement

(***************************************************************************)
(* The worker.                                                             *)
(***************************************************************************)
WorkerBegins ==
    /\ worker.step = "starting"
    /\ worker' = [worker EXCEPT !.step = "wait"]
    /\ lifecycle' = "Running"
    /\ UNCHANGED <<controlVars, producerVars, running, stopping, generation, queueVars,
                   inflight, shadow, published, counts>>

WorkerSleeps ==
    /\ worker.step = "wait"
    /\ queue = <<>> /\ ~stopping
    /\ worker' = [worker EXCEPT !.step = "asleep"]
    /\ UNCHANGED <<controlVars, producerVars, lifeVars, generation, queueVars, inflight,
                   shadow, published, counts>>

ExitsAtOnce == stopping                                           \* faulty

Exits == stopping /\ queue = <<>>

WorkerExits ==
    /\ worker.step = "wait"
    /\ Exits
    /\ worker' = [worker EXCEPT !.step = "exited"]
    /\ UNCHANGED <<controlVars, producerVars, lifeVars, generation, queueVars, inflight,
                   shadow, published, counts>>

WorkerDequeues ==
    /\ worker.step = "wait"
    /\ queue # <<>> /\ ~Exits
    /\ worker' = [worker EXCEPT !.step = "check", !.item = Head(queue)]
    /\ queue' = Tail(queue)
    /\ depth' = Len(queue')
    /\ inflight' = inflight + 1
    /\ UNCHANGED <<controlVars, producerVars, lifeVars, generation, shadow, published, counts>>

IsCurrentAlways == TRUE                                           \* faulty

IsCurrent == worker.item.generation = generation

WorkerChecks ==
    /\ worker.step = "check"
    /\ IsCurrent
    /\ worker' = [worker EXCEPT !.step = "process"]
    /\ UNCHANGED <<controlVars, producerVars, lifeVars, generation, queueVars, inflight,
                   shadow, published, counts>>

(* Before the shadow is fed, and again before the result is published.     *)
WorkerDiscards ==
    /\ worker.step \in {"check", "publish"}
    /\ ~IsCurrent
    /\ worker' = [worker EXCEPT !.step = "wait"]
    /\ counts' = [counts EXCEPT !.stale = @ + 1]
    /\ inflight' = inflight - 1
    /\ control' = Woken
    /\ UNCHANGED <<pipeline, enabled, capacity, policy, producerVars, lifeVars, generation, queueVars,
                   shadow, published>>

(* The shadow takes the measurement, or throws having taken it or not.     *)
WorkerFeedsShadow ==
    /\ worker.step = "process"
    /\ \/ /\ shadow' = shadow \union {worker.item.generation}
          /\ worker' = [worker EXCEPT !.step = "snapshot"]
       \/ /\ MayThrow
          /\ shadow' \in {shadow, shadow \union {worker.item.generation}}
          /\ worker' = [worker EXCEPT !.step = "catch"]
    /\ UNCHANGED <<controlVars, producerVars, lifeVars, generation, queueVars, inflight,
                   published, counts>>

WorkerTakesSnapshot ==
    /\ worker.step = "snapshot"
    /\ worker' = [worker EXCEPT !.step = "publish", !.seen = shadow]
    /\ UNCHANGED <<controlVars, producerVars, lifeVars, generation, queueVars, inflight,
                   shadow, published, counts>>

WorkerPublishes ==
    /\ worker.step = "publish"
    /\ IsCurrent
    /\ worker' = [worker EXCEPT !.step = "wait"]
    /\ published' = [generation |-> worker.item.generation, seen |-> worker.seen]
    /\ counts' = [counts EXCEPT !.processed = @ + 1]
    /\ inflight' = inflight - 1
    /\ control' = Woken
    /\ UNCHANGED <<pipeline, enabled, capacity, policy, producerVars, lifeVars, generation, queueVars,
                   shadow>>

(* The handler clears the queue, whatever generation the failed item and   *)
(* the queued ones are of; no counter tells of the cleared ones (wiped is  *)
(* a history variable).                                                    *)
WorkerCatches ==
    /\ worker.step = "catch"
    /\ worker' = [worker EXCEPT !.step = "wait"]
    /\ lifecycle' = "Failed"
    /\ counts' = [counts EXCEPT !.failed = @ + 1, !.wiped = @ + Len(queue)]
    /\ queue' = <<>>
    /\ depth' = 0
    /\ inflight' = inflight - 1
    /\ control' = Woken
    /\ UNCHANGED <<pipeline, enabled, capacity, policy, producerVars, running, stopping, generation,
                   shadow, published>>

WorkerStep ==
    \/ WorkerBegins
    \/ WorkerSleeps
    \/ WorkerExits
    \/ WorkerDequeues
    \/ WorkerChecks
    \/ WorkerDiscards
    \/ WorkerFeedsShadow
    \/ WorkerTakesSnapshot
    \/ WorkerPublishes
    \/ WorkerCatches

Next ==
    \/ StartPipeline
    \/ StopPipeline
    \/ Reset
    \/ Flush
    \/ \E on \in BOOLEAN, size \in Capacities : Reconfigure(on, size)
    \/ ControlStep
    \/ SensorEvent
    \/ ProducerStep
    \/ ProcessMeasurement
    \/ SubmitShadowMeasurement
    \/ WorkerStep

Spec == Init /\ [][Next]_vars

(* The scheduler runs every thread that can run, and no critical section   *)
(* blocks; nobody is obliged to call an operation or offer a measurement,  *)
(* and no sensor to deliver an event.                                      *)
Fairness ==
    /\ WF_vars(ControlStep)
    /\ WF_vars(ProducerStep)
    /\ WF_vars(WorkerStep)

FairSpec == Spec /\ Fairness

(***************************************************************************)
(* Properties.                                                             *)
(***************************************************************************)
WorkerSteps ==
    {"none", "starting", "wait", "asleep", "check", "process", "snapshot", "publish",
     "catch", "exited"}

ControlSteps ==
    {"initialize", "renew", "renew failed", "reset shadow", "reset", "start", "stop", "notify",
     "join", "spawn", "notify producer", "join producer", "flush", "asleep"}

ProducerSteps ==
    {"none", "loop", "wait", "doze", "asleep", "handling", "sampled", "exited"}

Counters == [index : Nat, processed : Nat, stale : Nat, dropped : Nat, failed : Nat, wiped : Nat]

(* Every variable keeps its type; at most one measurement is in flight.    *)
TypeOK ==
    /\ control \in Seq(ControlSteps)
    /\ pipeline \in BOOLEAN
    /\ producer \in [step : ProducerSteps, generation : Nat]
    /\ offered \in Nat
    /\ events \in 0 .. EventLimit + 1
    /\ enabled \in BOOLEAN
    /\ capacity \in Capacities
    /\ policy \in Policies
    /\ running \in BOOLEAN
    /\ stopping \in BOOLEAN
    /\ lifecycle \in Lifecycles
    /\ generation \in Nat
    /\ queue \in Seq(Items)
    /\ depth \in Nat
    /\ worker \in [step : WorkerSteps, item : Items, seen : SUBSET Nat]
    /\ inflight \in 0 .. 1
    /\ shadow \subseteq Nat
    /\ published \in [generation : Nat, seen : SUBSET Nat]
    /\ counts \in Counters

(* What is published as the shadow's state, and the comparison made with   *)
(* it, was computed for a measurement of the current generation, although  *)
(* the worker computes it outside the lock while resets go on.             *)
PublishedIsCurrent ==
    published # Nothing => published.generation = generation

(* Every measurement accepted into the queue is queued, in flight, or      *)
(* accounted for exactly once: processed, stale, dropped, failed, or among *)
(* those a failure cleared.                                                *)
EveryMeasurementAccounted ==
    counts.index = Len(queue) + inflight + counts.processed + counts.stale
                   + counts.dropped + counts.failed + counts.wiped

(* The depth shown in the diagnostics is that of the queue, across resets, *)
(* failures and initialize, which zeroes it and leaves the queue alone.    *)
DepthMatchesQueue == depth = Len(queue)

(* Once stop() has returned, nothing of the worker is left: no thread, no  *)
(* queued or half-processed measurement, and no lifecycle of a worker.     *)
StoppedIsQuiet ==
    ~running => /\ worker.step = "none"
                /\ queue = <<>>
                /\ inflight = 0
                /\ lifecycle \notin {"Starting", "Running", "Stopping"}

(* Measurements reach the shadow in the order in which they were accepted. *)
InOrder == worker'.item # worker.item => worker'.item.index > worker.item.index

ProcessedInOrder == [][InOrder]_vars

(* No measurement queued before a reset is in the shadow state published   *)
(* after it.                                                               *)
ShadowUncontaminated ==
    published.seen \subseteq {published.generation}

(* VIOPipeline::stop() is at its first part, up to the join of the         *)
(* processing thread.                                                      *)
StopsProducer == At("notify producer") \/ At("join producer")

(* Every operation of the coordinator returns: stop() joins the worker,    *)
(* flush_shadow() sees the queue drained, no wakeup of theirs is lost.     *)
CoordinatorReturns == (control # <<>> /\ ~StopsProducer) ~> (control = <<>>)

(* VIOPipeline::stop() joins the processing thread as long as a sensor     *)
(* still delivers: its notification may fall between the predicate and the *)
(* wait and be lost, but that of the next event wakes the thread. Without  *)
(* an event it may wait for good; main() stops the sensors after it.       *)
StopReturnsWhileSensed == WF_vars(SensorEvent) => (StopsProducer ~> ~StopsProducer)

(* What was queued does not stay queued.                                   *)
QueueDrains == (queue # <<>>) ~> (queue = <<>>)

(***************************************************************************)
(* The inductive invariant behind the safety properties.                   *)
(***************************************************************************)
InFlight == worker.step \in {"check", "process", "snapshot", "publish", "catch"}

InFlightCounted == inflight = IF InFlight THEN 1 ELSE 0

(* The worker thread exists while it is said to run; it has exited only    *)
(* after a request to stop, with nothing left to do.                       *)
WorkerInv ==
    /\ running <=> worker.step # "none"
    /\ InFlightCounted
    /\ worker.step = "exited" => stopping /\ queue = <<>>
    /\ StoppedIsQuiet

(* Where the steps of the control thread's operations stand.               *)
Orderly(program, spawns) ==
    \A i \in 1 .. Len(program) :
        /\ program[i] = "initialize" => i = 1 \/ program[i - 1] \in {"stop", "join"}
        /\ program[i] \in {"renew", "renew failed", "notify producer"} => i = 1
        /\ program[i] = "join producer" => i = 1 \/ program[i - 1] = "notify producer"
        /\ program[i] = "spawn" => spawns

ProgramInv ==
    /\ Orderly(control, pipeline)
    /\ At("notify producer") => Len(control) = 3 /\ control[2] = "join producer" /\ control[3] = "stop"
    /\ At("join producer") => Len(control) = 2 /\ control[2] = "stop"

(* The processing thread outlives the pipeline only to be joined.          *)
ProducerJoined == ~pipeline /\ producer.step # "none" => StopsProducer

(* Without the pipeline, what is still queued has a stop() ahead.          *)
StopAhead ==
    ~pipeline /\ queue # <<>> => control # <<>> /\ control[Len(control)] \in {"stop", "join"}

(* When initialize begins the queue is empty, and it stays so until the    *)
(* depth shown has been set to zero.                                       *)
Renewing == At("initialize") \/ At("renew") \/ At("renew failed")

RenewsQuietly == Renewing => queue = <<>> /\ (~running \/ producer.step = "none")

QuietInv ==
    /\ ProducerJoined
    /\ StopAhead
    /\ RenewsQuietly

(* Enqueue indexes grow from the worker's item along the queue up to the   *)
(* last one given out.                                                     *)
Ordered(low, items, high) ==
    /\ low <= high
    /\ \A i \in 1 .. Len(items) :
          /\ low < items[i].index
          /\ items[i].index <= high
          /\ \A j \in 1 .. Len(items) : i < j => items[i].index < items[j].index

QueueOrdered == Ordered(worker.item.index, queue, counts.index)

IInv ==
    /\ TypeOK
    /\ WorkerInv
    /\ ProgramInv
    /\ QuietInv
    /\ DepthMatchesQueue
    /\ PublishedIsCurrent
    /\ EveryMeasurementAccounted
    /\ QueueOrdered
=============================================================================
