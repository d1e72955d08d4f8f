--------------------- MODULE EstimatorCoordinator_proofs ---------------------
(***************************************************************************)
(* Proofs about EstimatorCoordinator, for every queue capacity and policy, *)
(* every number of measurements and of generations.                        *)
(***************************************************************************)
EXTENDS EstimatorCoordinator, SequenceTheorems, TLAPS

(***************************************************************************)
(* Sequences.                                                              *)
(***************************************************************************)

(* Dropping the first element moves every other one place down.            *)
LEMMA Dropped1 ==
    ASSUME NEW S, NEW s \in Seq(S), s # <<>>
    PROVE  /\ Head(s) = s[1] /\ Head(s) \in S
           /\ Len(s) \in Nat \ {0}
           /\ Tail(s) \in Seq(S)
           /\ Len(Tail(s)) = Len(s) - 1
           /\ \A i \in 1 .. Len(Tail(s)) : Tail(s)[i] = s[i + 1]
  BY HeadTailProperties, EmptySeq

(* One element put in the place of the first.                              *)
LEMMA Replaced1 ==
    ASSUME NEW S, NEW s \in Seq(S), s # <<>>, NEW a \in S
    PROVE  /\ <<a>> \o Tail(s) \in Seq(S)
           /\ Len(<<a>> \o Tail(s)) = Len(s)
           /\ (<<a>> \o Tail(s))[1] = a
           /\ \A i \in 2 .. Len(s) : (<<a>> \o Tail(s))[i] = s[i]
<1>1. <<a>> \in Seq(S) /\ Len(<<a>>) = 1 /\ <<a>>[1] = a
  OBVIOUS
<1>2. Len(s) \in Nat \ {0} /\ Tail(s) \in Seq(S) /\ Len(Tail(s)) = Len(s) - 1
  BY Dropped1
<1>3. \A i \in 1 .. Len(Tail(s)) : Tail(s)[i] = s[i + 1]
  BY Dropped1
<1>4. /\ <<a>> \o Tail(s) \in Seq(S)
      /\ Len(<<a>> \o Tail(s)) = 1 + Len(Tail(s))
      /\ \A i \in 1 .. 1 + Len(Tail(s)) :
            (<<a>> \o Tail(s))[i] = IF i <= 1 THEN <<a>>[i] ELSE Tail(s)[i - 1]
  BY <1>1, <1>2, ConcatProperties
<1> QED
  BY <1>1, <1>2, <1>3, <1>4

(* Two elements put in the place of the first.                             *)
LEMMA Replaced2 ==
    ASSUME NEW S, NEW s \in Seq(S), s # <<>>, NEW a \in S, NEW b \in S
    PROVE  /\ <<a, b>> \o Tail(s) \in Seq(S)
           /\ Len(<<a, b>> \o Tail(s)) = Len(s) + 1
           /\ (<<a, b>> \o Tail(s))[1] = a
           /\ (<<a, b>> \o Tail(s))[2] = b
           /\ \A i \in 3 .. Len(s) + 1 : (<<a, b>> \o Tail(s))[i] = s[i - 1]
<1>1. <<a, b>> \in Seq(S) /\ Len(<<a, b>>) = 2 /\ <<a, b>>[1] = a /\ <<a, b>>[2] = b
  OBVIOUS
<1>2. Len(s) \in Nat \ {0} /\ Tail(s) \in Seq(S) /\ Len(Tail(s)) = Len(s) - 1
  BY Dropped1
<1>3. \A i \in 1 .. Len(Tail(s)) : Tail(s)[i] = s[i + 1]
  BY Dropped1
<1>4. /\ <<a, b>> \o Tail(s) \in Seq(S)
      /\ Len(<<a, b>> \o Tail(s)) = 2 + Len(Tail(s))
      /\ \A i \in 1 .. 2 + Len(Tail(s)) :
            (<<a, b>> \o Tail(s))[i] = IF i <= 2 THEN <<a, b>>[i] ELSE Tail(s)[i - 2]
  BY <1>1, <1>2, ConcatProperties
<1> QED
  BY <1>1, <1>2, <1>3, <1>4

(* Nothing put in the place of the first.                                  *)
LEMMA Replaced0 ==
    ASSUME NEW S, NEW s \in Seq(S), s # <<>>
    PROVE  /\ <<>> \o Tail(s) \in Seq(S)
           /\ Len(<<>> \o Tail(s)) = Len(s) - 1
           /\ \A i \in 1 .. Len(s) - 1 : (<<>> \o Tail(s))[i] = s[i + 1]
  BY Dropped1, ConcatEmptySeq

(***************************************************************************)
(* Type correctness.                                                       *)
(***************************************************************************)

(* What a step of the control thread leaves of its program.                *)
LEMMA GoTypes ==
    ASSUME TypeOK, control # <<>>
    PROVE  /\ Head(control) \in ControlSteps /\ Tail(control) \in Seq(ControlSteps)
           /\ <<>> \o Tail(control) \in Seq(ControlSteps)
           /\ \A a \in ControlSteps : <<a>> \o Tail(control) \in Seq(ControlSteps)
           /\ \A a, b \in ControlSteps : <<a, b>> \o Tail(control) \in Seq(ControlSteps)
<1>1. control \in Seq(ControlSteps)
  BY DEF TypeOK
<1> QED
  BY <1>1, Dropped1, Replaced0, Replaced1, Replaced2

(* A notification leaves the threads' steps of their types.                *)
LEMMA NotifiedTypes ==
    ASSUME TypeOK
    PROVE  /\ Roused \in [step : WorkerSteps, item : Items, seen : SUBSET Nat]
           /\ Woken \in Seq(ControlSteps)
           /\ Hailed \in [step : ProducerSteps, generation : Nat]
<1>1. Roused \in [step : WorkerSteps, item : Items, seen : SUBSET Nat]
  BY DEF TypeOK, Roused, WorkerSteps
<1>0. Hailed \in [step : ProducerSteps, generation : Nat]
  BY DEF TypeOK, Hailed, ProducerSteps
<1>2. CASE control # <<>> /\ Head(control) = "asleep"
  <2>1. "flush" \in ControlSteps
    BY DEF ControlSteps
  <2> QED
    BY <1>0, <1>1, <1>2, <2>1, GoTypes DEF Woken
<1>3. CASE ~(control # <<>> /\ Head(control) = "asleep")
  BY <1>0, <1>1, <1>3 DEF Woken, TypeOK
<1> QED
  BY <1>2, <1>3

(* The programs of the operations are sequences of steps.                  *)
LEMMA ProgramTypes ==
    /\ <<"initialize", "start", "spawn">> \in Seq(ControlSteps)
    /\ <<"notify producer", "join producer", "stop">> \in Seq(ControlSteps)
    /\ <<"reset shadow", "reset">> \in Seq(ControlSteps)
    /\ <<"flush">> \in Seq(ControlSteps)
    /\ <<"stop", "initialize", "start">> \in Seq(ControlSteps)
    /\ <<"stop", "initialize">> \in Seq(ControlSteps)
  BY DEF ControlSteps

(* The values that stand for "none" have the types of their variables.     *)
LEMMA EmptyTypes ==
    /\ NoItem \in Items
    /\ Nothing \in [generation : Nat, seen : SUBSET Nat]
    /\ <<>> \in Seq(ControlSteps)
    /\ <<>> \in Seq(Items)
<1>1. {} \in SUBSET Nat
  OBVIOUS
<1> QED
  BY <1>1, EmptySeq DEF NoItem, Items, Nothing

(* Counters stay counters when they grow.                                  *)
LEMMA CountsTypes ==
    ASSUME NEW c \in Counters, NEW n \in Nat
    PROVE  /\ [c EXCEPT !.stale = @ + n] \in Counters
           /\ [c EXCEPT !.processed = @ + n] \in Counters
           /\ [c EXCEPT !.index = @ + 1, !.dropped = @ + n] \in Counters
           /\ [c EXCEPT !.failed = @ + 1, !.wiped = @ + n] \in Counters
<1>1. /\ c.stale + n \in Nat /\ c.processed + n \in Nat /\ c.index + 1 \in Nat
      /\ c.dropped + n \in Nat /\ c.failed + 1 \in Nat /\ c.wiped + n \in Nat
  BY DEF Counters
<1>2. [c EXCEPT !.stale = @ + n] \in Counters
  BY <1>1, Zenon DEF Counters
<1>3. [c EXCEPT !.processed = @ + n] \in Counters
  BY <1>1, Zenon DEF Counters
<1>4. [c EXCEPT !.index = @ + 1, !.dropped = @ + n] \in Counters
  BY <1>1, Zenon DEF Counters
<1>5. [c EXCEPT !.failed = @ + 1, !.wiped = @ + n] \in Counters
  BY <1>1, Zenon DEF Counters
<1> QED
  BY <1>2, <1>3, <1>4, <1>5

(* The types hold at the start.                                            *)
LEMMA TypeInit == Init => TypeOK
<1> SUFFICES ASSUME Init PROVE TypeOK
  OBVIOUS
<1>1. worker \in [step : WorkerSteps, item : Items, seen : SUBSET Nat]
  <2>1. {} \in SUBSET Nat /\ "none" \in WorkerSteps
    BY DEF WorkerSteps
  <2> QED
    BY <2>1, EmptyTypes DEF Init
<1>2. counts \in Counters
  BY DEF Init, Counters
<1>3. pipeline \in BOOLEAN /\ enabled \in BOOLEAN /\ running \in BOOLEAN /\ stopping \in BOOLEAN
  BY DEF Init
<1>4. control \in Seq(ControlSteps) /\ queue \in Seq(Items) /\ capacity \in Capacities
      /\ policy \in Policies
  BY EmptyTypes DEF Init
<1>5. producer \in [step : ProducerSteps, generation : Nat] /\ events \in 0 .. EventLimit + 1
  BY ConstantsAssumption DEF Init, ProducerSteps
<1>6. /\ offered \in Nat /\ generation \in Nat /\ depth \in Nat
      /\ inflight \in 0 .. 1 /\ shadow \subseteq Nat
  BY DEF Init
<1>7. lifecycle \in Lifecycles /\ published \in [generation : Nat, seen : SUBSET Nat]
  BY EmptyTypes DEF Init, Lifecycles
<1> QED
  BY <1>1, <1>2, <1>3, <1>4, <1>5, <1>6, <1>7 DEF TypeOK

(* Each operation begins with a program of steps.                          *)
LEMMA TypeBegin ==
    ASSUME TypeOK,
           \/ StartPipeline \/ StopPipeline \/ Reset \/ Flush
           \/ \E on \in BOOLEAN, size \in Capacities : Reconfigure(on, size)
    PROVE  TypeOK'
<1>1. CASE StartPipeline
  BY <1>1, ProgramTypes DEF StartPipeline, Begin, TypeOK, producerVars, lifeVars, queueVars,
     workerVars
<1>2. CASE StopPipeline
  BY <1>2, ProgramTypes DEF StopPipeline, Begin, TypeOK, producerVars, lifeVars, queueVars,
     workerVars
<1>3. CASE Reset
  <2>1. control' \in Seq(ControlSteps)
    BY <1>3, ProgramTypes DEF Reset, Begin
  <2>2. events' \in 0 .. EventLimit + 1
    <3>1. events' = 0
      BY <1>3, Zenon DEF Reset
    <3> QED
      BY <3>1, ConstantsAssumption
  <2> QED
    BY <1>3, <2>1, <2>2 DEF Reset, TypeOK, lifeVars, queueVars, workerVars
<1>4. CASE Flush
  BY <1>4, ProgramTypes DEF Flush, Begin, TypeOK, producerVars, lifeVars, queueVars, workerVars
<1>5. ASSUME NEW on \in BOOLEAN, NEW size \in Capacities, Reconfigure(on, size)
      PROVE  TypeOK'
  <2>1. control' \in Seq(ControlSteps)
    BY <1>5, ProgramTypes DEF Reconfigure, Begin
  <2> QED
    BY <1>5, <2>1 DEF Reconfigure, TypeOK, Lifecycles, producerVars, queueVars, workerVars
<1> QED
  BY <1>1, <1>2, <1>3, <1>4, <1>5

(* The control thread keeps the types.                                     *)
LEMMA TypeControl == TypeOK /\ ControlStep => TypeOK'
<1> SUFFICES ASSUME TypeOK, ControlStep PROVE TypeOK'
  OBVIOUS
<1>1. control # <<>>
  BY DEF ControlStep, ResetShadow, Renew, ResetQueue, Start, SpawnProducer, NotifyProducer,
     JoinProducer, RequestStop, NotifyStop, FinishStop, FlushWaits, At
<1>2. control' \in Seq(ControlSteps)
  <2>1. {"renew", "renew failed", "stop", "start", "notify", "join", "asleep"} \subseteq ControlSteps
    BY DEF ControlSteps
  <2>2. \/ control' = <<>> \o Tail(control)
        \/ control' = <<"renew">> \o Tail(control)
        \/ control' = <<"renew failed">> \o Tail(control)
        \/ control' = <<"stop">> \o Tail(control)
        \/ control' = <<"start">> \o Tail(control)
        \/ control' = <<"notify", "join">> \o Tail(control)
        \/ control' = <<"asleep">> \o Tail(control)
    BY DEF ControlStep, ResetShadow, Renew, ResetQueue, Start, SpawnProducer, NotifyProducer,
       JoinProducer, RequestStop, NotifyStop, FinishStop, FlushWaits, Go
  <2> QED
    BY <1>1, <2>1, <2>2, GoTypes
<1>3. CASE ResetShadow
  BY <1>2, <1>3 DEF ResetShadow, TypeOK, Lifecycles, producerVars, queueVars, workerVars
<1>4. CASE Renew
  <2>1. generation' \in Nat /\ depth' \in Nat
    <3>1. generation' = generation + 1 /\ depth' = 0
      BY <1>4, Zenon DEF Renew
    <3> QED
      BY <3>1 DEF TypeOK
  <2>2. published' \in [generation : Nat, seen : SUBSET Nat]
    BY <1>4, EmptyTypes DEF Renew
  <2>3. UNCHANGED <<pipeline, producerVars, enabled, capacity, policy, lifeVars, queue, workerVars,
                    shadow, counts>>
    BY <1>4 DEF Renew
  <2> QED
    BY <1>2, <2>1, <2>2, <2>3 DEF TypeOK, producerVars, lifeVars, workerVars
<1>5. CASE ResetQueue
  <2>1. Len(queue) \in Nat
    BY LenProperties DEF TypeOK
  <2>2. counts' \in Counters
    BY <1>5, <2>1, CountsTypes DEF ResetQueue, TypeOK
  <2> QED
    BY <1>2, <1>5, <2>2, EmptyTypes DEF ResetQueue, TypeOK, producerVars, lifeVars, workerVars
<1>6. CASE Start
  BY <1>2, <1>6 DEF Start, TypeOK, Lifecycles, WorkerSteps, producerVars, queueVars
<1>7. CASE SpawnProducer
  BY <1>2, <1>7 DEF SpawnProducer, TypeOK, ProducerSteps, lifeVars, queueVars, workerVars
<1>8. CASE JoinProducer
  BY <1>2, <1>8 DEF JoinProducer, TypeOK, ProducerSteps, lifeVars, queueVars, workerVars
<1>9. CASE RequestStop
  BY <1>2, <1>9 DEF RequestStop, TypeOK, Lifecycles, producerVars, queueVars, workerVars
<1>10. CASE NotifyStop
  BY <1>2, <1>10, NotifiedTypes DEF NotifyStop, TypeOK, producerVars, lifeVars, queueVars
<1>11. CASE FinishStop
  BY <1>2, <1>11 DEF FinishStop, TypeOK, Lifecycles, WorkerSteps, producerVars, queueVars
<1>12. CASE FlushWaits
  BY <1>2, <1>12 DEF FlushWaits, TypeOK, producerVars, lifeVars, queueVars, workerVars
<1>13. CASE NotifyProducer
  BY <1>2, <1>13, NotifiedTypes DEF NotifyProducer, TypeOK, lifeVars, queueVars, workerVars
<1> QED
  BY <1>3, <1>4, <1>5, <1>6, <1>7, <1>8, <1>9, <1>10, <1>11, <1>12, <1>13 DEF ControlStep

(* Sensors and the processing thread leave everyone else's state alone,    *)
(* but for publishing, and no event makes a thread of none.                *)
LEMMA ProducerLeaves ==
    ASSUME SensorEvent \/ ProducerStep \/ ProcessMeasurement \/ SubmitShadowMeasurement,
           ~PublishMeasurement
    PROVE  /\ UNCHANGED <<controlVars, lifeVars, generation, queueVars, workerVars, shadow,
                          published, counts>>
           /\ producer.step = "none" => producer'.step = "none"
<1>1. CASE SensorEvent
  BY <1>1 DEF SensorEvent, Hailed
<1>2. CASE ProducerStep
  BY <1>2 DEF ProducerStep, ProducerLoops, TakeEvent, ProducerExits, ProducerDozes, ProducerSleeps,
     EndEvent, ProducerGoes
<1>3. CASE ProcessMeasurement \/ SubmitShadowMeasurement
  BY <1>3 DEF ProcessMeasurement, SubmitShadowMeasurement, Offer
<1> QED
  BY <1>1, <1>2, <1>3

(* The events queued stay within the limit, but for one.                   *)
LEMMA TypeSensor == TypeOK /\ SensorEvent => TypeOK'
<1> SUFFICES ASSUME TypeOK, SensorEvent PROVE TypeOK'
  OBVIOUS
<1>1. events' \in 0 .. EventLimit + 1
  BY ConstantsAssumption DEF SensorEvent, TypeOK
<1>2. producer' \in [step : ProducerSteps, generation : Nat]
  BY NotifiedTypes DEF SensorEvent
<1>3. UNCHANGED <<controlVars, offered, lifeVars, generation, queueVars, workerVars, shadow,
                  published, counts>>
  BY DEF SensorEvent
<1> QED
  BY <1>1, <1>2, <1>3 DEF TypeOK, controlVars, lifeVars, queueVars, workerVars

(* The processing thread goes about its loop.                              *)
LEMMA TypeLoop ==
    ASSUME TypeOK,
           \/ ProducerLoops \/ TakeEvent \/ ProducerExits \/ ProducerDozes \/ ProducerSleeps
           \/ EndEvent
    PROVE  TypeOK'
<1>1. events' \in 0 .. EventLimit + 1
  BY ConstantsAssumption DEF TypeOK, ProducerLoops, TakeEvent, ProducerExits, ProducerDozes,
     ProducerSleeps, EndEvent
<1>2. PICK step \in ProducerSteps : ProducerGoes(step)
  BY DEF ProducerSteps, ProducerLoops, TakeEvent, ProducerExits, ProducerDozes, ProducerSleeps,
     EndEvent
<1>3. producer' \in [step : ProducerSteps, generation : Nat]
  BY <1>2 DEF ProducerGoes, TypeOK
<1>4. UNCHANGED <<controlVars, offered, lifeVars, generation, queueVars, workerVars, shadow,
                  published, counts>>
  BY <1>2 DEF ProducerGoes
<1> QED
  BY <1>1, <1>3, <1>4 DEF TypeOK, controlVars, lifeVars, queueVars, workerVars

(* The processing thread publishes what it offered.                        *)
LEMMA TypeProducer ==
    ASSUME TypeOK,
           SensorEvent \/ ProducerStep \/ ProcessMeasurement \/ SubmitShadowMeasurement
    PROVE  TypeOK'
<1>1. CASE SensorEvent
  BY <1>1, TypeSensor
<1>2. CASE ProducerStep /\ ~PublishMeasurement
  BY <1>2, TypeLoop DEF ProducerStep
<1>3. CASE ProcessMeasurement
  BY <1>3 DEF ProcessMeasurement, Offer, TypeOK, ProducerSteps, controlVars, lifeVars, queueVars,
     workerVars
<1>4. CASE SubmitShadowMeasurement
  BY <1>4 DEF SubmitShadowMeasurement, Offer, TypeOK, ProducerSteps, controlVars, lifeVars,
     queueVars, workerVars
<1>5. CASE PublishMeasurement
  <2> DEFINE item == [generation |-> producer.generation, index |-> counts.index + 1]
             kept == IF Full THEN Tail(queue) ELSE queue
  <2>0. Dropped \in Nat
    BY DEF Dropped
  <2>1. item \in Items
    BY DEF TypeOK, Items, Counters
  <2>2. producer' \in [step : ProducerSteps, generation : Nat]
    BY <1>5 DEF PublishMeasurement, TypeOK, ProducerSteps
  <2>3. CASE UNCHANGED <<queueVars, worker>>
    <3>1. \/ counts' = counts
          \/ counts' = [counts EXCEPT !.index = @ + 1, !.dropped = @ + 1]
          \/ counts' = [counts EXCEPT !.index = @ + 1, !.dropped = @ + Dropped]
      BY <1>5 DEF PublishMeasurement
    <3>2. counts' \in Counters
      <4>1. counts \in Counters /\ 1 \in Nat
        BY DEF TypeOK
      <4>2. \A n \in Nat : [counts EXCEPT !.index = @ + 1, !.dropped = @ + n] \in Counters
        BY <4>1, CountsTypes
      <4> QED
        BY <2>0, <3>1, <4>1, <4>2
    <3> QED
      BY <1>5, <2>2, <2>3, <3>2 DEF PublishMeasurement, TypeOK, controlVars, lifeVars, queueVars
  <2>4. CASE /\ capacity # 0
             /\ queue' = Enqueued(kept, item)
             /\ depth' = Len(queue')
             /\ worker' = Roused
             /\ counts' = [counts EXCEPT !.index = @ + 1, !.dropped = @ + Dropped]
    <3>1. kept \in Seq(Items)
      <4>1. Full => queue # <<>>
        BY <2>4, ConstantsAssumption DEF Full, TypeOK
      <4> QED
        BY <4>1, Dropped1 DEF TypeOK
    <3>2. queue' \in Seq(Items) /\ Len(queue') \in Nat
      BY <2>1, <2>4, <3>1, AppendProperties, LenProperties DEF Enqueued
    <3>3. counts' \in Counters
      BY <2>0, <2>4, CountsTypes DEF TypeOK
    <3> QED
      BY <1>5, <2>2, <2>4, <3>2, <3>3, NotifiedTypes
      DEF PublishMeasurement, TypeOK, controlVars, lifeVars
  <2> QED
    BY <1>5, <2>3, <2>4 DEF PublishMeasurement, queueVars
<1> QED
  BY <1>1, <1>2, <1>3, <1>4, <1>5

(* The worker keeps the types; it counts in what it counted out.           *)
LEMMA TypeWorker == TypeOK /\ InFlightCounted /\ WorkerStep => TypeOK'
<1> SUFFICES ASSUME TypeOK, InFlightCounted, WorkerStep PROVE TypeOK'
  OBVIOUS
<1>1. CASE WorkerBegins
  BY <1>1 DEF WorkerBegins, TypeOK, Lifecycles, WorkerSteps, controlVars, producerVars,
     queueVars
<1>2. CASE WorkerSleeps
  BY <1>2 DEF WorkerSleeps, TypeOK, WorkerSteps, controlVars, producerVars, lifeVars, queueVars
<1>3. CASE WorkerExits
  BY <1>3 DEF WorkerExits, TypeOK, WorkerSteps, controlVars, producerVars, lifeVars, queueVars
<1>4. CASE WorkerDequeues
  <2>1. /\ Head(queue) \in Items /\ Tail(queue) \in Seq(Items)
        /\ Len(Tail(queue)) \in Nat
    BY <1>4, Dropped1, LenProperties DEF WorkerDequeues, TypeOK
  <2>2. inflight' \in 0 .. 1
    BY <1>4 DEF WorkerDequeues, InFlightCounted, InFlight, TypeOK
  <2> QED
    BY <1>4, <2>1, <2>2 DEF WorkerDequeues, TypeOK, WorkerSteps, controlVars, producerVars, lifeVars
<1>5. CASE WorkerChecks
  BY <1>5 DEF WorkerChecks, TypeOK, WorkerSteps, controlVars, producerVars, lifeVars, queueVars
<1>6. CASE WorkerDiscards
  <2>1. inflight' \in 0 .. 1
    BY <1>6 DEF WorkerDiscards, InFlightCounted, InFlight, TypeOK
  <2>2. counts' \in Counters
    BY <1>6, CountsTypes DEF WorkerDiscards, TypeOK
  <2> QED
    BY <1>6, <2>1, <2>2, NotifiedTypes DEF WorkerDiscards, TypeOK, WorkerSteps, producerVars,
       lifeVars, queueVars
<1>7. CASE WorkerFeedsShadow
  <2>1. worker.item.generation \in Nat
    BY DEF TypeOK, Items
  <2>2. shadow' \subseteq Nat
    BY <1>7, <2>1 DEF WorkerFeedsShadow, TypeOK
  <2> QED
    BY <1>7, <2>2 DEF WorkerFeedsShadow, TypeOK, WorkerSteps, controlVars, producerVars, lifeVars,
       queueVars
<1>8. CASE WorkerTakesSnapshot
  BY <1>8 DEF WorkerTakesSnapshot, TypeOK, WorkerSteps, controlVars, producerVars, lifeVars,
     queueVars
<1>9. CASE WorkerPublishes
  <2>1. inflight' \in 0 .. 1
    BY <1>9 DEF WorkerPublishes, InFlightCounted, InFlight, TypeOK
  <2>2. published' \in [generation : Nat, seen : SUBSET Nat]
    BY <1>9 DEF WorkerPublishes, TypeOK, Items
  <2>3. counts' \in Counters
    BY <1>9, CountsTypes DEF WorkerPublishes, TypeOK
  <2> QED
    BY <1>9, <2>1, <2>2, <2>3, NotifiedTypes DEF WorkerPublishes, TypeOK, WorkerSteps,
       producerVars, lifeVars, queueVars
<1>10. CASE WorkerCatches
  <2>1. inflight' \in 0 .. 1
    BY <1>10 DEF WorkerCatches, InFlightCounted, InFlight, TypeOK
  <2>2. Len(queue) \in Nat
    BY LenProperties DEF TypeOK
  <2>3. counts' \in Counters
    BY <1>10, <2>2, CountsTypes DEF WorkerCatches, TypeOK
  <2> QED
    BY <1>10, <2>1, <2>3, NotifiedTypes, EmptyTypes DEF WorkerCatches, TypeOK, WorkerSteps,
       Lifecycles, producerVars
<1> QED
  BY <1>1, <1>2, <1>3, <1>4, <1>5, <1>6, <1>7, <1>8, <1>9, <1>10 DEF WorkerStep

(* A step that changes nothing keeps the types.                            *)
LEMMA TypeStutter == TypeOK /\ UNCHANGED vars => TypeOK'
  BY DEF TypeOK, vars, controlVars, producerVars, lifeVars, queueVars, workerVars

(* Every step keeps the types.                                             *)
LEMMA TypeNext == TypeOK /\ InFlightCounted /\ [Next]_vars => TypeOK'
  BY TypeBegin, TypeControl, TypeProducer, TypeWorker, TypeStutter DEF Next

(***************************************************************************)
(* The worker's life.                                                      *)
(***************************************************************************)

(* A notification moves a sleeping worker and nothing else.                *)
LEMMA RousedWorker ==
    ASSUME TypeOK, worker' = Roused
    PROVE  /\ worker'.item = worker.item
           /\ worker'.step = IF worker.step = "asleep" THEN "wait" ELSE worker.step
  BY DEF TypeOK, Roused

(* There is no worker at the start.                                        *)
LEMMA WorkerInvInit == Init => WorkerInv
  BY DEF Init, WorkerInv, InFlightCounted, InFlight, StoppedIsQuiet

(* The control thread starts a worker only where there is none, and joins  *)
(* one only after it has exited.                                           *)
LEMMA WorkerInvControl == TypeOK /\ WorkerInv /\ ControlStep => WorkerInv'
<1> SUFFICES ASSUME TypeOK, WorkerInv, ControlStep PROVE WorkerInv'
  OBVIOUS
<1> USE DEF WorkerInv, InFlightCounted, InFlight, StoppedIsQuiet
<1>1. CASE ResetShadow
  BY <1>1 DEF ResetShadow, queueVars, workerVars
<1>2. CASE Renew
  <2>1. UNCHANGED <<lifeVars, queue, workerVars>>
    BY <1>2, Zenon DEF Renew
  <2> QED
    BY <2>1 DEF lifeVars, workerVars
<1>3. CASE ResetQueue
  BY <1>3 DEF ResetQueue, lifeVars, workerVars
<1>4. CASE Start
  <2>1. CASE enabled /\ ~running
    BY <1>4, <2>1 DEF Start, queueVars, TypeOK
  <2>2. CASE ~(enabled /\ ~running)
    BY <1>4, <2>2 DEF Start, queueVars
  <2> QED
    BY <2>1, <2>2
<1>5. CASE SpawnProducer
  BY <1>5 DEF SpawnProducer, lifeVars, queueVars, workerVars
<1>6. CASE JoinProducer
  BY <1>6 DEF JoinProducer, lifeVars, queueVars, workerVars
<1>11. CASE NotifyProducer
  BY <1>11 DEF NotifyProducer, lifeVars, queueVars, workerVars
<1>7. CASE RequestStop
  BY <1>7 DEF RequestStop, queueVars, workerVars
<1>8. CASE NotifyStop
  BY <1>8, RousedWorker DEF NotifyStop, lifeVars, queueVars
<1>9. CASE FinishStop
  BY <1>9 DEF FinishStop, Joined, queueVars, TypeOK
<1>10. CASE FlushWaits
  BY <1>10 DEF FlushWaits, lifeVars, queueVars, workerVars
<1> QED
  BY <1>1, <1>2, <1>3, <1>4, <1>5, <1>6, <1>7, <1>8, <1>9, <1>10, <1>11 DEF ControlStep

(* Nothing is published to a worker that is asked to stop.                 *)
LEMMA WorkerInvProducer ==
    ASSUME TypeOK, WorkerInv,
           SensorEvent \/ ProducerStep \/ ProcessMeasurement \/ SubmitShadowMeasurement
    PROVE  WorkerInv'
<1> USE DEF WorkerInv, InFlightCounted, InFlight, StoppedIsQuiet
<1>1. CASE ~PublishMeasurement
  BY <1>1, ProducerLeaves DEF lifeVars, queueVars, workerVars
<1>2. CASE PublishMeasurement
  <2>1. CASE UNCHANGED <<queueVars, worker>>
    BY <1>2, <2>1 DEF PublishMeasurement, lifeVars, queueVars
  <2>2. CASE Publishes /\ worker' = Roused
    BY <1>2, <2>2, RousedWorker DEF PublishMeasurement, Publishes, lifeVars
  <2> QED
    BY <1>2, <2>1, <2>2 DEF PublishMeasurement
<1> QED
  BY <1>1, <1>2

(* The worker exits only with nothing left to do.                          *)
LEMMA WorkerInvWorker == TypeOK /\ WorkerInv /\ WorkerStep => WorkerInv'
<1> SUFFICES ASSUME TypeOK, WorkerInv, WorkerStep PROVE WorkerInv'
  OBVIOUS
<1> USE DEF WorkerInv, InFlightCounted, InFlight, StoppedIsQuiet, TypeOK
<1>1. CASE WorkerBegins
  BY <1>1 DEF WorkerBegins, queueVars
<1>2. CASE WorkerSleeps
  BY <1>2 DEF WorkerSleeps, lifeVars, queueVars
<1>3. CASE WorkerExits
  BY <1>3 DEF WorkerExits, Exits, lifeVars, queueVars
<1>4. CASE WorkerDequeues
  BY <1>4 DEF WorkerDequeues, lifeVars
<1>5. CASE WorkerChecks
  BY <1>5 DEF WorkerChecks, lifeVars, queueVars
<1>6. CASE WorkerDiscards
  BY <1>6 DEF WorkerDiscards, lifeVars, queueVars
<1>7. CASE WorkerFeedsShadow
  BY <1>7 DEF WorkerFeedsShadow, lifeVars, queueVars
<1>8. CASE WorkerTakesSnapshot
  BY <1>8 DEF WorkerTakesSnapshot, lifeVars, queueVars
<1>9. CASE WorkerPublishes
  BY <1>9 DEF WorkerPublishes, lifeVars, queueVars
<1>10. CASE WorkerCatches
  BY <1>10 DEF WorkerCatches
<1> QED
  BY <1>1, <1>2, <1>3, <1>4, <1>5, <1>6, <1>7, <1>8, <1>9, <1>10 DEF WorkerStep

(* The operations begin with the worker as it is.                          *)
LEMMA WorkerInvBegin ==
    ASSUME WorkerInv,
           \/ StartPipeline \/ StopPipeline \/ Reset \/ Flush
           \/ \E on \in BOOLEAN, size \in Capacities : Reconfigure(on, size)
    PROVE  WorkerInv'
<1> USE DEF WorkerInv, InFlightCounted, InFlight, StoppedIsQuiet
<1>1. CASE StartPipeline \/ StopPipeline \/ Reset \/ Flush
  <2>1. UNCHANGED <<lifeVars, queueVars, workerVars>>
    BY <1>1 DEF StartPipeline, StopPipeline, Reset, Flush
  <2> QED
    BY <2>1 DEF lifeVars, queueVars, workerVars
<1>2. ASSUME NEW on \in BOOLEAN, NEW size \in Capacities, Reconfigure(on, size)
      PROVE  WorkerInv'
  <2>1. /\ UNCHANGED <<running, stopping, queueVars, workerVars>>
        /\ lifecycle' = IF on THEN lifecycle ELSE "Disabled"
    BY <1>2, Zenon DEF Reconfigure
  <2> QED
    BY <2>1 DEF queueVars, workerVars
<1> QED
  BY <1>1, <1>2

(* Every step keeps what is known of the worker.                           *)
LEMMA WorkerInvNext == TypeOK /\ WorkerInv /\ [Next]_vars => WorkerInv'
<1> SUFFICES ASSUME TypeOK, WorkerInv, [Next]_vars PROVE WorkerInv'
  OBVIOUS
<1>1. CASE UNCHANGED vars
  BY <1>1 DEF WorkerInv, InFlightCounted, InFlight, StoppedIsQuiet, vars, lifeVars, queueVars,
     workerVars
<1>2. CASE Next
  BY <1>2, WorkerInvBegin, WorkerInvControl, WorkerInvProducer, WorkerInvWorker DEF Next
<1> QED
  BY <1>1, <1>2

(***************************************************************************)
(* The control thread's program.                                           *)
(***************************************************************************)

(* What a step of the control thread does to its program.                  *)
LEMMA ControlForms ==
    ASSUME ControlStep
    PROVE  /\ control # <<>>
           /\ pipeline' = pipeline
           /\ \/ control' = <<>> \o Tail(control)
              \/ /\ Head(control) \in {"initialize", "renew", "renew failed", "flush"}
                 /\ \E a \in {"renew", "renew failed", "stop", "start", "asleep"} :
                       control' = <<a>> \o Tail(control)
              \/ /\ Head(control) = "stop"
                 /\ control' = <<"notify", "join">> \o Tail(control)
<1>1. CASE ResetShadow
  BY <1>1 DEF ResetShadow, At, Go
<1>2. CASE Renew
  <2>1. /\ control # <<>> /\ Head(control) \in {"renew", "renew failed"} /\ pipeline' = pipeline
    BY <1>2 DEF Renew, At
  <2>2. \/ control' = <<"stop">> \o Tail(control)
        \/ control' = <<"start">> \o Tail(control)
        \/ control' = <<>> \o Tail(control)
    BY <1>2 DEF Renew, Go
  <2> QED
    BY <2>1, <2>2
<1>3. CASE \/ ResetQueue \/ Start \/ SpawnProducer \/ NotifyProducer \/ JoinProducer \/ NotifyStop
           \/ FinishStop
  BY <1>3 DEF ResetQueue, Start, SpawnProducer, NotifyProducer, JoinProducer, NotifyStop,
     FinishStop, At, Go
<1>4. CASE RequestStop
  BY <1>4 DEF RequestStop, At, Go
<1>5. CASE FlushWaits
  BY <1>5 DEF FlushWaits, At, Go
<1> QED
  BY <1>1, <1>2, <1>3, <1>4, <1>5 DEF ControlStep

(* A program without its first step.                                       *)
LEMMA OrderlyPopped ==
    ASSUME NEW s \in Seq(ControlSteps), s # <<>>, NEW spawns, Orderly(s, spawns)
    PROVE  /\ Orderly(<<>> \o Tail(s), spawns)
           /\ <<>> \o Tail(s) # <<>> => Head(<<>> \o Tail(s)) # "notify producer"
           /\ <<>> \o Tail(s) # <<>> /\ Head(<<>> \o Tail(s)) = "join producer" =>
                 s[1] = "notify producer"
<1> DEFINE t == <<>> \o Tail(s)
<1>1. /\ Len(s) \in Nat \ {0}
      /\ t \in Seq(ControlSteps)
      /\ Len(t) = Len(s) - 1
      /\ \A i \in 1 .. Len(s) - 1 : t[i] = s[i + 1]
  BY Dropped1, Replaced0
<1> HIDE DEF t
<1>2. ASSUME NEW i \in 1 .. Len(t)
      PROVE  /\ t[i] = "initialize" => i = 1 \/ t[i - 1] \in {"stop", "join"}
             /\ t[i] \notin {"renew", "renew failed", "notify producer"}
             /\ t[i] = "join producer" => i = 1 /\ s[1] = "notify producer"
             /\ t[i] = "spawn" => spawns
  <2>1. i + 1 \in 1 .. Len(s) /\ i + 1 # 1 /\ (i + 1) - 1 = i /\ t[i] = s[i + 1]
    BY <1>1
  <2>2. /\ s[i + 1] = "initialize" => i + 1 = 1 \/ s[(i + 1) - 1] \in {"stop", "join"}
        /\ s[i + 1] \in {"renew", "renew failed", "notify producer"} => i + 1 = 1
        /\ s[i + 1] = "join producer" => i + 1 = 1 \/ s[(i + 1) - 1] = "notify producer"
        /\ s[i + 1] = "spawn" => spawns
    BY <2>1 DEF Orderly
  <2>4. s[i] = "notify producer" => i = 1
    <3>1. i \in 1 .. Len(s)
      BY <1>1
    <3> QED
      BY <3>1 DEF Orderly
  <2>3. i # 1 => t[i - 1] = s[i]
    <3>1. i # 1 => i - 1 \in 1 .. Len(s) - 1 /\ (i - 1) + 1 = i
      BY <1>1
    <3> QED
      BY <1>1, <3>1
  <2> QED
    BY <2>1, <2>2, <2>3, <2>4
<1>3. t # <<>> => 1 \in 1 .. Len(t) /\ Head(t) = t[1]
  BY <1>1, EmptySeq
<1> QED
  BY <1>2, <1>3 DEF Orderly, t

(* A program with another step in the place of its first.                  *)
LEMMA OrderlyReplaced ==
    ASSUME NEW s \in Seq(ControlSteps), s # <<>>, NEW spawns, NEW a \in ControlSteps
    PROVE  /\ Orderly(s, spawns)
           /\ s[1] \notin {"stop", "join", "notify producer"}
           /\ a \notin {"initialize", "spawn", "notify producer", "join producer"}
           => /\ Orderly(<<a>> \o Tail(s), spawns)
              /\ Head(<<a>> \o Tail(s)) \notin {"notify producer", "join producer"}
<1> DEFINE t == <<a>> \o Tail(s)
<1>1. Len(s) \in Nat \ {0}
  BY Dropped1
<1>2. /\ t \in Seq(ControlSteps)
      /\ Len(t) = Len(s)
      /\ t[1] = a
      /\ \A i \in 2 .. Len(s) : t[i] = s[i]
  BY Replaced1
<1> HIDE DEF t
<1>3. ASSUME NEW i \in 1 .. Len(t),
             Orderly(s, spawns),
             s[1] \notin {"stop", "join", "notify producer"},
             a \notin {"initialize", "spawn", "notify producer", "join producer"}
      PROVE  /\ t[i] = "initialize" => i = 1 \/ t[i - 1] \in {"stop", "join"}
             /\ t[i] \in {"renew", "renew failed", "notify producer"} => i = 1
             /\ t[i] = "join producer" => i = 1 \/ t[i - 1] = "notify producer"
             /\ t[i] = "spawn" => spawns
  <2>1. CASE i = 1
    BY <1>2, <1>3, <2>1
  <2>2. CASE i # 1
    <3>1. i \in 1 .. Len(s) /\ i \in 2 .. Len(s)
      BY <1>1, <1>2, <2>2
    <3>2. t[i] = s[i]
      BY <1>2, <3>1
    <3>3. /\ s[i] = "initialize" => i = 1 \/ s[i - 1] \in {"stop", "join"}
          /\ s[i] \in {"renew", "renew failed", "notify producer"} => i = 1
          /\ s[i] = "join producer" => i = 1 \/ s[i - 1] = "notify producer"
          /\ s[i] = "spawn" => spawns
      BY <1>3, <3>1 DEF Orderly
    <3>4. i - 1 = 1 \/ i - 1 \in 2 .. Len(s)
      BY <1>1, <3>1
    <3>5. \A b \in {"stop", "join", "notify producer"} : s[i - 1] = b => t[i - 1] = b
      <4>1. CASE i - 1 = 1
        BY <1>3, <4>1
      <4>2. CASE i - 1 \in 2 .. Len(s)
        <5>1. t[i - 1] = s[i - 1]
          BY <1>2, <4>2
        <5> QED
          BY <5>1
      <4> QED
        BY <3>4, <4>1, <4>2
    <3> QED
      BY <2>2, <3>2, <3>3, <3>5
  <2> QED
    BY <2>1, <2>2
<1>4. t # <<>> /\ Head(t) = t[1]
  BY <1>1, <1>2, EmptySeq
<1>5. a \notin {"initialize", "spawn", "notify producer", "join producer"} =>
         Head(t) \notin {"notify producer", "join producer"}
  BY <1>2, <1>4
<1>6. ASSUME Orderly(s, spawns),
             s[1] \notin {"stop", "join", "notify producer"},
             a \notin {"initialize", "spawn", "notify producer", "join producer"}
      PROVE  Orderly(t, spawns)
  BY <1>3, <1>6 DEF Orderly
<1> QED
  BY <1>5, <1>6 DEF t

(* A program with the end of stop() in the place of its first step.        *)
LEMMA OrderlyNotifies ==
    ASSUME NEW s \in Seq(ControlSteps), s # <<>>, s[1] = "stop", NEW spawns, Orderly(s, spawns)
    PROVE  /\ Orderly(<<"notify", "join">> \o Tail(s), spawns)
           /\ Head(<<"notify", "join">> \o Tail(s)) \notin {"notify producer", "join producer"}
<1> DEFINE t == <<"notify", "join">> \o Tail(s)
<1>0. "notify" \in ControlSteps /\ "join" \in ControlSteps
  BY DEF ControlSteps
<1>1. /\ Len(s) \in Nat \ {0}
      /\ t \in Seq(ControlSteps)
      /\ Len(t) = Len(s) + 1
      /\ t[1] = "notify" /\ t[2] = "join"
      /\ \A i \in 3 .. Len(s) + 1 : t[i] = s[i - 1]
  BY <1>0, Dropped1, Replaced2
<1> HIDE DEF t
<1>2. ASSUME NEW i \in 1 .. Len(t)
      PROVE  /\ t[i] = "initialize" => i = 1 \/ t[i - 1] \in {"stop", "join"}
             /\ t[i] \in {"renew", "renew failed", "notify producer"} => i = 1
             /\ t[i] = "join producer" => i = 1 \/ t[i - 1] = "notify producer"
             /\ t[i] = "spawn" => spawns
  <2>1. CASE i \in {1, 2}
    BY <1>1, <2>1
  <2>2. CASE i \notin {1, 2}
    <3>1. i - 1 \in 1 .. Len(s) /\ i - 1 # 1 /\ t[i] = s[i - 1]
      BY <1>1, <2>2
    <3>2. /\ s[i - 1] = "initialize" => i - 1 = 1 \/ s[(i - 1) - 1] \in {"stop", "join"}
          /\ s[i - 1] \in {"renew", "renew failed", "notify producer"} => i - 1 = 1
          /\ s[i - 1] = "join producer" => i - 1 = 1 \/ s[(i - 1) - 1] = "notify producer"
          /\ s[i - 1] = "spawn" => spawns
      BY <3>1 DEF Orderly
    <3>3. i - 1 = 2 \/ t[i - 1] = s[(i - 1) - 1]
      <4>1. i - 1 = 2 \/ i - 1 \in 3 .. Len(s) + 1
        BY <1>1, <2>2
      <4> QED
        BY <1>1, <4>1
    <3>4. i - 1 = 2 => s[(i - 1) - 1] = "stop"
      BY <1>1
    <3> QED
      BY <1>1, <3>1, <3>2, <3>3, <3>4
  <2> QED
    BY <2>1, <2>2
<1>3. t # <<>> /\ Head(t) = t[1]
  BY <1>1, EmptySeq
<1> QED
  BY <1>1, <1>2, <1>3 DEF Orderly, t

(* Nothing of a program is out of place at the start.                      *)
LEMMA ProgramInvInit == Init => ProgramInv /\ QuietInv
  BY DEF Init, ProgramInv, QuietInv, ProducerJoined, StopAhead, RenewsQuietly, Orderly, At, Renewing

(* A step of the control thread leaves an orderly program.                 *)
LEMMA ProgramInvControl == TypeOK /\ ProgramInv /\ ControlStep => ProgramInv'
<1> SUFFICES ASSUME TypeOK, ProgramInv, ControlStep PROVE ProgramInv'
  OBVIOUS
<1>1. /\ control \in Seq(ControlSteps) /\ control # <<>>
      /\ Orderly(control, pipeline)
      /\ pipeline' = pipeline
  BY ControlForms DEF TypeOK, ProgramInv
<1>2. Head(control) = control[1]
  BY <1>1, Dropped1
<1>3. CASE control' = <<>> \o Tail(control)
  <2>1. /\ Orderly(control', pipeline)
        /\ control' # <<>> => Head(control') # "notify producer"
        /\ control' # <<>> /\ Head(control') = "join producer" => control[1] = "notify producer"
    BY <1>1, <1>3, OrderlyPopped
  <2>2. /\ Len(control') = Len(control) - 1
        /\ \A i \in 1 .. Len(control) - 1 : control'[i] = control[i + 1]
    BY <1>1, <1>3, Replaced0
  <2>4. 2 \in 1 .. 3 - 1 /\ 2 + 1 = 3 /\ 3 - 1 = 2
    OBVIOUS
  <2>3. control[1] = "notify producer" => Len(control') = 2 /\ control'[2] = "stop"
    <3>1. control[1] = "notify producer" => Len(control) = 3 /\ control[3] = "stop"
      BY <1>1, <1>2 DEF ProgramInv, At
    <3> QED
      BY <2>2, <2>4, <3>1, Zenon
  <2> QED
    BY <1>1, <2>1, <2>3 DEF ProgramInv, At
<1>4. ASSUME Orderly(control', pipeline), Head(control') \notin {"notify producer", "join producer"}
      PROVE  ProgramInv'
  BY <1>1, <1>4 DEF ProgramInv, At
<1>5. ASSUME Head(control) \in {"initialize", "renew", "renew failed", "flush"},
             NEW a \in {"renew", "renew failed", "stop", "start", "asleep"},
             control' = <<a>> \o Tail(control)
      PROVE  ProgramInv'
  <2>1. /\ a \in ControlSteps
        /\ a \notin {"initialize", "spawn", "notify producer", "join producer"}
    BY DEF ControlSteps
  <2>2. control[1] \notin {"stop", "join", "notify producer"}
    BY <1>2, <1>5
  <2> QED
    BY <1>1, <1>4, <1>5, <2>1, <2>2, OrderlyReplaced
<1>6. CASE Head(control) = "stop" /\ control' = <<"notify", "join">> \o Tail(control)
  BY <1>1, <1>2, <1>4, <1>6, OrderlyNotifies
<1> QED
  BY <1>3, <1>5, <1>6, ControlForms

(* A wakeup leaves an orderly program.                                     *)
LEMMA OrderlyWoken ==
    ASSUME TypeOK, ProgramInv, pipeline' = pipeline, control' \in {control, Woken}
    PROVE  ProgramInv'
<1>1. CASE control' = control
  BY <1>1 DEF ProgramInv, At
<1>2. CASE control # <<>> /\ Head(control) = "asleep" /\ control' = Woken
  <2>1. control \in Seq(ControlSteps) /\ Orderly(control, pipeline)
    BY DEF TypeOK, ProgramInv
  <2>2. control' = <<"flush">> \o Tail(control)
    BY <1>2 DEF Woken
  <2>3. control[1] \notin {"stop", "join", "notify producer"}
    BY <1>2, <2>1, Dropped1
  <2>4. /\ "flush" \in ControlSteps
        /\ "flush" \notin {"initialize", "spawn", "notify producer", "join producer"}
    BY DEF ControlSteps
  <2>5. Orderly(control', pipeline) /\ Head(control') \notin {"notify producer", "join producer"}
    BY <1>2, <2>1, <2>2, <2>3, <2>4, OrderlyReplaced
  <2> QED
    BY <2>5 DEF ProgramInv, At
<1> QED
  BY <1>1, <1>2 DEF Woken

(* The places in a short program.                                          *)
LEMMA Places ==
    /\ \A i \in 1 .. 1 : i = 1
    /\ \A i \in 1 .. 2 : i = 1 \/ (i = 2 /\ i - 1 = 1)
    /\ \A i \in 1 .. 3 : i = 1 \/ (i = 2 /\ i - 1 = 1) \/ i = 3
  OBVIOUS

(* A program of one step is orderly if each step is.                      *)
LEMMA OrderlyOne ==
    ASSUME NEW s, NEW spawns,
           /\ Len(s) = 1
           /\ s[1] # "spawn"
    PROVE  Orderly(s, spawns)
<1>1. ASSUME NEW i \in 1 .. Len(s)
      PROVE  /\ s[i] = "initialize" => i = 1 \/ s[i - 1] \in {"stop", "join"}
             /\ s[i] \in {"renew", "renew failed", "notify producer"} => i = 1
             /\ s[i] = "join producer" => i = 1 \/ s[i - 1] = "notify producer"
             /\ s[i] = "spawn" => spawns
  <2>1. i = 1
    BY Places, Zenon
  <2> QED
    BY <2>1, Zenon
<1> QED
  BY <1>1, Zenon DEF Orderly

(* A program of two steps is orderly if each step is.                     *)
LEMMA OrderlyTwo ==
    ASSUME NEW s, NEW spawns,
           /\ Len(s) = 2
           /\ s[1] # "spawn"
           /\ s[2] \notin {"renew", "renew failed", "notify producer", "spawn"}
           /\ s[2] = "join producer" => s[1] = "notify producer"
           /\ s[2] = "initialize" => s[1] = "stop"
    PROVE  Orderly(s, spawns)
<1>1. ASSUME NEW i \in 1 .. Len(s)
      PROVE  /\ s[i] = "initialize" => i = 1 \/ s[i - 1] \in {"stop", "join"}
             /\ s[i] \in {"renew", "renew failed", "notify producer"} => i = 1
             /\ s[i] = "join producer" => i = 1 \/ s[i - 1] = "notify producer"
             /\ s[i] = "spawn" => spawns
  <2>1. i = 1 \/ (i = 2 /\ i - 1 = 1)
    BY Places, Zenon
  <2> QED
    BY <2>1, Zenon
<1> QED
  BY <1>1, Zenon DEF Orderly

(* A program of three steps is orderly if each step is.                   *)
LEMMA OrderlyThree ==
    ASSUME NEW s, NEW spawns,
           /\ Len(s) = 3
           /\ s[1] # "spawn"
           /\ s[2] \notin {"renew", "renew failed", "notify producer", "spawn"}
           /\ s[2] = "join producer" => s[1] = "notify producer"
           /\ s[2] = "initialize" => s[1] = "stop"
           /\ s[3] \notin {"initialize", "renew", "renew failed", "notify producer", "join producer"}
           /\ s[3] = "spawn" => spawns
    PROVE  Orderly(s, spawns)
<1>1. ASSUME NEW i \in 1 .. Len(s)
      PROVE  /\ s[i] = "initialize" => i = 1 \/ s[i - 1] \in {"stop", "join"}
             /\ s[i] \in {"renew", "renew failed", "notify producer"} => i = 1
             /\ s[i] = "join producer" => i = 1 \/ s[i - 1] = "notify producer"
             /\ s[i] = "spawn" => spawns
  <2>1. i = 1 \/ (i = 2 /\ i - 1 = 1) \/ i = 3
    BY Places, Zenon
  <2> QED
    BY <2>1, Zenon
<1> QED
  BY <1>1, Zenon DEF Orderly

(* The programs of the operations are orderly.                             *)
LEMMA OrderlyPrograms ==
    /\ Orderly(<<"initialize", "start", "spawn">>, TRUE)
    /\ \A spawns :
          /\ Orderly(<<"notify producer", "join producer", "stop">>, spawns)
          /\ Orderly(<<"reset shadow", "reset">>, spawns)
          /\ Orderly(<<"flush">>, spawns)
          /\ Orderly(<<"stop", "initialize", "start">>, spawns)
          /\ Orderly(<<"stop", "initialize">>, spawns)
<1>1. Orderly(<<"initialize", "start", "spawn">>, TRUE)
  <2> DEFINE s == <<"initialize", "start", "spawn">>
  <2>1. Len(s) = 3 /\ s[1] = "initialize" /\ s[2] = "start" /\ s[3] = "spawn"
    OBVIOUS
  <2> HIDE DEF s
  <2>2. Orderly(s, TRUE)
    BY <2>1, OrderlyThree, Zenon
  <2> QED
    BY <2>2 DEF s
<1>2. ASSUME NEW spawns PROVE Orderly(<<"notify producer", "join producer", "stop">>, spawns)
  <2> DEFINE s == <<"notify producer", "join producer", "stop">>
  <2>1. Len(s) = 3 /\ s[1] = "notify producer" /\ s[2] = "join producer" /\ s[3] = "stop"
    OBVIOUS
  <2> HIDE DEF s
  <2>2. Orderly(s, spawns)
    BY <2>1, OrderlyThree, Zenon
  <2> QED
    BY <2>2 DEF s
<1>3. ASSUME NEW spawns PROVE Orderly(<<"reset shadow", "reset">>, spawns)
  <2> DEFINE s == <<"reset shadow", "reset">>
  <2>1. Len(s) = 2 /\ s[1] = "reset shadow" /\ s[2] = "reset"
    OBVIOUS
  <2> HIDE DEF s
  <2>2. Orderly(s, spawns)
    BY <2>1, OrderlyTwo, Zenon
  <2> QED
    BY <2>2 DEF s
<1>4. ASSUME NEW spawns PROVE Orderly(<<"flush">>, spawns)
  <2> DEFINE s == <<"flush">>
  <2>1. Len(s) = 1 /\ s[1] = "flush"
    OBVIOUS
  <2> HIDE DEF s
  <2>2. Orderly(s, spawns)
    BY <2>1, OrderlyOne, Zenon
  <2> QED
    BY <2>2 DEF s
<1>5. ASSUME NEW spawns PROVE Orderly(<<"stop", "initialize", "start">>, spawns)
  <2> DEFINE s == <<"stop", "initialize", "start">>
  <2>1. Len(s) = 3 /\ s[1] = "stop" /\ s[2] = "initialize" /\ s[3] = "start"
    OBVIOUS
  <2> HIDE DEF s
  <2>2. Orderly(s, spawns)
    BY <2>1, OrderlyThree, Zenon
  <2> QED
    BY <2>2 DEF s
<1>6. ASSUME NEW spawns PROVE Orderly(<<"stop", "initialize">>, spawns)
  <2> DEFINE s == <<"stop", "initialize">>
  <2>1. Len(s) = 2 /\ s[1] = "stop" /\ s[2] = "initialize"
    OBVIOUS
  <2> HIDE DEF s
  <2>2. Orderly(s, spawns)
    BY <2>1, OrderlyTwo, Zenon
  <2> QED
    BY <2>2 DEF s
<1> QED
  BY <1>1, <1>2, <1>3, <1>4, <1>5, <1>6

(* Which programs the operations begin with.                               *)
LEMMA BeginForms ==
    ASSUME \/ StartPipeline \/ StopPipeline \/ Reset \/ Flush
           \/ \E on \in BOOLEAN, size \in Capacities : Reconfigure(on, size)
    PROVE  /\ control = <<>>
           /\ \/ /\ control' = <<"initialize", "start", "spawn">>
                 /\ ~pipeline /\ pipeline' = TRUE
              \/ control' = <<"notify producer", "join producer", "stop">>
              \/ /\ \/ control' = <<"reset shadow", "reset">>
                    \/ control' = <<"flush">>
                    \/ control' = <<"stop", "initialize", "start">>
                    \/ control' = <<"stop", "initialize">>
                 /\ pipeline' = pipeline
<1>1. CASE StartPipeline
  BY <1>1 DEF StartPipeline, Begin
<1>2. CASE StopPipeline
  BY <1>2 DEF StopPipeline, Begin
<1>3. CASE Reset
  BY <1>3 DEF Reset, Begin
<1>4. CASE Flush
  BY <1>4 DEF Flush, Begin
<1>5. ASSUME NEW on \in BOOLEAN, NEW size \in Capacities, Reconfigure(on, size)
      PROVE  /\ control = <<>> /\ pipeline' = pipeline
             /\ \/ control' = <<"stop", "initialize", "start">>
                \/ control' = <<"stop", "initialize">>
  BY <1>5, Zenon DEF Reconfigure, Begin
<1> QED
  BY <1>1, <1>2, <1>3, <1>4, <1>5

(* The operations begin with orderly programs.                             *)
LEMMA ProgramInvBegin ==
    ASSUME \/ StartPipeline \/ StopPipeline \/ Reset \/ Flush
           \/ \E on \in BOOLEAN, size \in Capacities : Reconfigure(on, size)
    PROVE  ProgramInv'
<1>1. Orderly(control', pipeline')
  BY BeginForms, OrderlyPrograms
<1>2. CASE control' = <<"notify producer", "join producer", "stop">>
  <2> DEFINE s == <<"notify producer", "join producer", "stop">>
  <2>1. /\ Len(s) = 3 /\ s[2] = "join producer" /\ s[3] = "stop"
        /\ Head(s) = "notify producer"
    OBVIOUS
  <2> HIDE DEF s
  <2>2. control' = s
    BY <1>2 DEF s
  <2> QED
    BY <1>1, <2>1, <2>2 DEF ProgramInv, At
<1>3. ASSUME Head(control') \in {"initialize", "reset shadow", "flush", "stop"}
      PROVE  ProgramInv'
  BY <1>1, <1>3 DEF ProgramInv, At
<1>4. /\ Head(<<"initialize", "start", "spawn">>) = "initialize"
      /\ Head(<<"reset shadow", "reset">>) = "reset shadow" /\ Head(<<"flush">>) = "flush"
      /\ Head(<<"stop", "initialize", "start">>) = "stop"
      /\ Head(<<"stop", "initialize">>) = "stop"
  OBVIOUS
<1> QED
  BY <1>2, <1>3, <1>4, BeginForms

(* No other thread disturbs the program.                                   *)
LEMMA ProgramInvNext == TypeOK /\ ProgramInv /\ [Next]_vars => ProgramInv'
<1> SUFFICES ASSUME TypeOK, ProgramInv, [Next]_vars PROVE ProgramInv'
  OBVIOUS
<1>1. CASE UNCHANGED vars
  BY <1>1, OrderlyWoken DEF vars, controlVars
<1>2. CASE SensorEvent \/ ProducerStep \/ ProcessMeasurement \/ SubmitShadowMeasurement
  <2>1. UNCHANGED controlVars
    BY <1>2, ProducerLeaves DEF PublishMeasurement
  <2> QED
    BY <2>1, OrderlyWoken DEF controlVars
<1>3. CASE WorkerStep
  <2>1. pipeline' = pipeline /\ control' \in {control, Woken}
    BY <1>3 DEF WorkerStep, WorkerBegins, WorkerSleeps, WorkerExits, WorkerDequeues, WorkerChecks,
       WorkerDiscards, WorkerFeedsShadow, WorkerTakesSnapshot, WorkerPublishes, WorkerCatches,
       controlVars
  <2> QED
    BY <2>1, OrderlyWoken
<1> QED
  BY <1>1, <1>2, <1>3, ProgramInvBegin, ProgramInvControl DEF Next

(***************************************************************************)
(* The queue while nobody may publish.                                     *)
(***************************************************************************)

(* A program keeps its end when its first step goes or is replaced by one  *)
(* or by two, unless that step is its end.                                 *)
LEMMA LastKept ==
    ASSUME NEW s \in Seq(ControlSteps), s # <<>>, Len(s) # 1, NEW t
    PROVE  \/ t = <<>> \o Tail(s)
           \/ \E a \in ControlSteps : t = <<a>> \o Tail(s)
           \/ \E a, b \in ControlSteps : t = <<a, b>> \o Tail(s)
           => t # <<>> /\ t[Len(t)] = s[Len(s)]
<1>1. Len(s) \in Nat /\ Len(s) > 1
  BY Dropped1
<1>2. CASE t = <<>> \o Tail(s)
  <2>1. /\ t \in Seq(ControlSteps)
        /\ Len(t) = Len(s) - 1
        /\ \A i \in 1 .. Len(s) - 1 : t[i] = s[i + 1]
    BY <1>2, Replaced0
  <2>2. Len(s) - 1 \in 1 .. Len(s) - 1 /\ (Len(s) - 1) + 1 = Len(s)
    BY <1>1
  <2>3. t[Len(t)] = s[Len(s)]
    BY <2>1, <2>2
  <2> QED
    BY <1>1, <2>1, <2>3, EmptySeq
<1>3. ASSUME NEW a \in ControlSteps, t = <<a>> \o Tail(s)
      PROVE  t # <<>> /\ t[Len(t)] = s[Len(s)]
  <2>1. /\ t \in Seq(ControlSteps)
        /\ Len(t) = Len(s)
        /\ \A i \in 2 .. Len(s) : t[i] = s[i]
    BY <1>3, Replaced1
  <2>2. Len(s) \in 2 .. Len(s)
    BY <1>1
  <2> QED
    BY <1>1, <2>1, <2>2, EmptySeq
<1>4. ASSUME NEW a \in ControlSteps, NEW b \in ControlSteps, t = <<a, b>> \o Tail(s)
      PROVE  t # <<>> /\ t[Len(t)] = s[Len(s)]
  <2>1. /\ t \in Seq(ControlSteps)
        /\ Len(t) = Len(s) + 1
        /\ \A i \in 3 .. Len(s) + 1 : t[i] = s[i - 1]
    BY <1>4, Replaced2
  <2>2. Len(s) + 1 \in 3 .. Len(s) + 1 /\ (Len(s) + 1) - 1 = Len(s)
    BY <1>1
  <2>3. t[Len(t)] = s[Len(s)]
    BY <2>1, <2>2
  <2> QED
    BY <1>1, <2>1, <2>3, EmptySeq
<1> QED
  BY <1>2, <1>3, <1>4

(* The end of stop() in the place of the last step.                        *)
LEMMA LastNotifies ==
    ASSUME NEW s \in Seq(ControlSteps), s # <<>>
    PROVE  LET t == <<"notify", "join">> \o Tail(s)
           IN Len(s) = 1 => t # <<>> /\ t[Len(t)] = "join"
<1> DEFINE t == <<"notify", "join">> \o Tail(s)
<1>1. "notify" \in ControlSteps /\ "join" \in ControlSteps
  BY DEF ControlSteps
<1>2. t \in Seq(ControlSteps) /\ Len(t) = Len(s) + 1 /\ t[2] = "join"
  BY <1>1, Replaced2
<1> HIDE DEF t
<1>3. Len(s) = 1 => Len(t) = 2
  BY <1>2
<1>4. Len(s) = 1 => t # <<>> /\ t[Len(t)] = "join"
  BY <1>2, <1>3, EmptySeq
<1> QED
  BY <1>4 DEF t

(* A step of the control thread keeps the end of its program.              *)
LEMMA LastControl ==
    ASSUME TypeOK, ControlStep, Len(control) # 1
    PROVE  control # <<>> /\ control' # <<>> /\ control'[Len(control')] = control[Len(control)]
<1>1. control \in Seq(ControlSteps) /\ control # <<>>
  BY ControlForms DEF TypeOK
<1>2. \/ control' = <<>> \o Tail(control)
      \/ \E a \in ControlSteps : control' = <<a>> \o Tail(control)
      \/ \E a, b \in ControlSteps : control' = <<a, b>> \o Tail(control)
  <2>1. {"renew", "renew failed", "stop", "start", "asleep", "notify", "join"} \subseteq ControlSteps
    BY DEF ControlSteps
  <2> QED
    BY <2>1, ControlForms
<1> QED
  BY <1>1, <1>2, LastKept, Zenon

(* What the steps of the control thread do with the queue and the pipeline. *)
LEMMA QueueControl ==
    ASSUME ControlStep
    PROVE  pipeline' = pipeline /\ queue' \in {queue, <<>>}
<1>1. CASE Renew
  <2>1. pipeline' = pipeline /\ queue' = queue
    BY <1>1, Zenon DEF Renew
  <2> QED
    BY <2>1
<1>2. CASE \/ ResetShadow \/ ResetQueue \/ Start \/ SpawnProducer \/ NotifyProducer
           \/ JoinProducer \/ RequestStop \/ NotifyStop \/ FinishStop \/ FlushWaits
  BY <1>2 DEF ResetShadow, ResetQueue, Start, SpawnProducer, NotifyProducer, JoinProducer,
     RequestStop, NotifyStop, FinishStop, FlushWaits, queueVars
<1> QED
  BY <1>1, <1>2 DEF ControlStep

(* The processing thread is spawned while the pipeline runs, and a stopped *)
(* pipeline joins it before anything else.                                 *)
LEMMA ProducerJoinedControl ==
    TypeOK /\ ProgramInv /\ ProducerJoined /\ ControlStep => ProducerJoined'
<1> SUFFICES ASSUME TypeOK, ProgramInv, ProducerJoined, ControlStep PROVE ProducerJoined'
  OBVIOUS
<1>1. pipeline' = pipeline
  BY QueueControl
<1>2. CASE JoinProducer
  <2>1. producer'.step = "none"
    BY <1>2 DEF JoinProducer, TypeOK
  <2> QED
    BY <2>1 DEF ProducerJoined
<1>3. CASE SpawnProducer
  <2>1. control # <<>> /\ control[1] = "spawn" /\ Len(control) \in Nat \ {0}
    BY <1>3, Dropped1 DEF SpawnProducer, At, TypeOK
  <2>2. 1 \in 1 .. Len(control)
    BY <2>1
  <2>3. pipeline
    BY <2>1, <2>2, Zenon DEF ProgramInv, Orderly
  <2> QED
    BY <1>1, <2>3 DEF ProducerJoined
<1>6. CASE NotifyProducer
  <2>1. /\ control \in Seq(ControlSteps) /\ control # <<>>
        /\ Len(control) = 3 /\ control[2] = "join producer"
        /\ control' = <<>> \o Tail(control)
    BY <1>6 DEF NotifyProducer, Go, At, ProgramInv, TypeOK
  <2>2. /\ control' \in Seq(ControlSteps)
        /\ Len(control') = 3 - 1
        /\ \A i \in 1 .. 3 - 1 : control'[i] = control[i + 1]
    BY <2>1, Replaced0, Zenon
  <2>3. control' # <<>> /\ control'[1] = "join producer"
    <3>1. 3 - 1 = 2 /\ 1 \in 1 .. 3 - 1 /\ 1 + 1 = 2 /\ 3 - 1 # 0
      OBVIOUS
    <3>2. control'[1] = control[1 + 1]
      BY <2>2, <3>1, Zenon
    <3> QED
      BY <2>1, <2>2, <3>1, <3>2, EmptySeq, Zenon
  <2>4. Head(control') = "join producer"
    BY <2>2, <2>3, Dropped1
  <2> QED
    BY <2>3, <2>4 DEF ProducerJoined, StopsProducer, At
<1>4. CASE Renew
  <2>1. producer' = producer /\ ~StopsProducer
    <3>1. UNCHANGED producerVars /\ (At("renew") \/ At("renew failed"))
      BY <1>4, Zenon DEF Renew
    <3> QED
      BY <3>1 DEF producerVars, StopsProducer, At
  <2> QED
    BY <1>1, <2>1 DEF ProducerJoined
<1>5. CASE \/ ResetShadow \/ ResetQueue \/ Start \/ RequestStop \/ NotifyStop \/ FinishStop
           \/ FlushWaits
  <2>1. producer' = producer /\ ~StopsProducer
    BY <1>5 DEF ResetShadow, ResetQueue, Start, RequestStop, NotifyStop, FinishStop, FlushWaits,
       producerVars, StopsProducer, At
  <2> QED
    BY <1>1, <2>1 DEF ProducerJoined
<1> QED
  BY <1>2, <1>3, <1>4, <1>5, <1>6 DEF ControlStep

(* The last stop() of a program ends with an empty queue.                  *)
LEMMA StopAheadControl == TypeOK /\ WorkerInv /\ StopAhead /\ ControlStep => StopAhead'
<1> SUFFICES ASSUME TypeOK, WorkerInv, StopAhead, ControlStep, ~pipeline, queue' # <<>>
             PROVE  control' # <<>> /\ control'[Len(control')] \in {"stop", "join"}
  BY QueueControl DEF StopAhead
<1>1. queue # <<>> /\ control # <<>> /\ control[Len(control)] \in {"stop", "join"}
  BY QueueControl DEF StopAhead
<1>2. CASE Len(control) # 1
  BY <1>1, <1>2, LastControl
<1>3. CASE Len(control) = 1
  <2>1. At("stop") \/ At("join")
    BY <1>1, <1>3, Dropped1 DEF At, TypeOK
  <2>2. ~FinishStop
    BY <1>1 DEF FinishStop, Joined, WorkerInv
  <2>3. RequestStop
    <3>1. ~Renew
      BY <2>1 DEF Renew, At
    <3> QED
      BY <2>1, <2>2, <3>1 DEF ControlStep, ResetShadow, ResetQueue, Start, SpawnProducer,
         NotifyProducer, JoinProducer, NotifyStop, FlushWaits, At
  <2>4. control' = <<"notify", "join">> \o Tail(control)
    BY <1>1, <2>3 DEF RequestStop, Go, WorkerInv, StoppedIsQuiet
  <2>5. control \in Seq(ControlSteps)
    BY DEF TypeOK
  <2> QED
    BY <1>1, <1>3, <2>4, <2>5, LastNotifies
<1> QED
  BY <1>2, <1>3

(* Initialize is reached only from the end of a stop().                    *)
LEMMA PoppedRenews ==
    ASSUME TypeOK, ProgramInv, control # <<>>
    PROVE  control' = <<>> \o Tail(control) /\ Renewing' => Head(control) \in {"stop", "join"}
<1> SUFFICES ASSUME control' = <<>> \o Tail(control), Renewing'
             PROVE  Head(control) \in {"stop", "join"}
  OBVIOUS
<1>1. control \in Seq(ControlSteps) /\ Len(control) \in Nat \ {0} /\ Head(control) = control[1]
  BY Dropped1 DEF TypeOK
<1>2. /\ control' \in Seq(ControlSteps)
      /\ Len(control') = Len(control) - 1
      /\ \A i \in 1 .. Len(control) - 1 : control'[i] = control[i + 1]
  BY <1>1, Replaced0
<1>3. control' # <<>> /\ Head(control') \in {"initialize", "renew", "renew failed"}
  BY DEF Renewing, At
<1>4. Head(control') = control'[1] /\ Len(control') \in Nat \ {0}
  BY <1>2, <1>3, Dropped1
<1>5. 1 \in 1 .. Len(control) - 1 /\ 2 \in 1 .. Len(control) /\ 2 - 1 = 1 /\ 1 + 1 = 2 /\ 2 # 1
  BY <1>1, <1>2, <1>4
<1>6. control[2] \in {"initialize", "renew", "renew failed"}
  BY <1>2, <1>3, <1>4, <1>5
<1>7. /\ control[2] = "initialize" => control[2 - 1] \in {"stop", "join"}
      /\ control[2] \notin {"renew", "renew failed"}
  BY <1>5, Zenon DEF ProgramInv, Orderly
<1> QED
  BY <1>1, <1>5, <1>6, <1>7

(* Or from the step put in the place of the first.                         *)
LEMMA ReplacedRenews ==
    ASSUME TypeOK, control # <<>>, NEW a \in ControlSteps
    PROVE  control' = <<a>> \o Tail(control) /\ Renewing' =>
              a \in {"initialize", "renew", "renew failed"}
<1>1. control \in Seq(ControlSteps)
  BY DEF TypeOK
<1>2. <<a>> \o Tail(control) # <<>> /\ Head(<<a>> \o Tail(control)) = a
  <2> DEFINE t == <<a>> \o Tail(control)
  <2>1. t \in Seq(ControlSteps) /\ Len(t) = Len(control) /\ t[1] = a
    BY <1>1, Replaced1
  <2>2. Len(control) \in Nat \ {0}
    BY <1>1, Dropped1
  <2> HIDE DEF t
  <2>3. t # <<>> /\ Head(t) = t[1]
    BY <2>1, <2>2, EmptySeq, Dropped1
  <2> QED
    BY <2>1, <2>3 DEF t
<1> QED
  BY <1>2 DEF Renewing, At

(* Initialize begins with an empty queue to which nobody publishes.        *)
LEMMA RenewsQuietlyControl ==
    TypeOK /\ WorkerInv /\ ProgramInv /\ RenewsQuietly /\ ControlStep => RenewsQuietly'
<1> SUFFICES ASSUME TypeOK, WorkerInv, ProgramInv, RenewsQuietly, ControlStep, Renewing'
             PROVE  queue' = <<>> /\ (~running' \/ producer'.step = "none")
  BY DEF RenewsQuietly
<1>1. control # <<>>
  BY ControlForms
<1>2. {"stop", "start", "asleep", "notify", "join"} \subseteq ControlSteps
  BY DEF ControlSteps
<1>3. CASE ResetShadow /\ At("initialize")
  <2>1. UNCHANGED <<queue, running, producer>>
    BY <1>3 DEF ResetShadow, queueVars, producerVars
  <2> QED
    BY <1>3, <2>1 DEF RenewsQuietly, Renewing
<1>4. CASE RequestStop
  <2>1. CASE ~running /\ worker.step = "none"
    BY <1>4, <2>1 DEF RequestStop, WorkerInv, StoppedIsQuiet, queueVars
  <2>2. CASE ~(~running /\ worker.step = "none")
    <3>1. control' = <<"notify", "join">> \o Tail(control)
      BY <1>4, <2>2 DEF RequestStop, Go
    <3>2. Head(control') = "notify"
      BY <1>1, <3>1 DEF TypeOK
    <3> QED
      BY <3>2 DEF Renewing, At
  <2> QED
    BY <2>1, <2>2
<1>5. CASE FinishStop
  BY <1>5 DEF FinishStop, Joined, WorkerInv, queueVars
<1>6. CASE Renew
  <2>1. Head(control) \in {"renew", "renew failed"}
    BY <1>6, Zenon DEF Renew, At
  <2>2. \/ control' = <<"stop">> \o Tail(control)
        \/ control' = <<"start">> \o Tail(control)
        \/ control' = <<>> \o Tail(control)
    BY <1>6 DEF Renew, Go
  <2> QED
    BY <1>1, <1>2, <2>1, <2>2, PoppedRenews, ReplacedRenews
<1>7. CASE FlushWaits
  <2>1. /\ Head(control) = "flush"
        /\ control' = <<"asleep">> \o Tail(control) \/ control' = <<>> \o Tail(control)
    BY <1>7 DEF FlushWaits, Go, At
  <2> QED
    BY <1>1, <1>2, <2>1, PoppedRenews, ReplacedRenews
<1>8. CASE \/ ResetShadow /\ ~At("initialize")
           \/ ResetQueue \/ Start \/ SpawnProducer \/ NotifyProducer \/ JoinProducer \/ NotifyStop
  <2>1. /\ Head(control) \notin {"stop", "join"}
        /\ control' = <<>> \o Tail(control)
    BY <1>8 DEF ResetShadow, ResetQueue, Start, SpawnProducer, NotifyProducer, JoinProducer,
       NotifyStop, Go, At
  <2> QED
    BY <1>1, <2>1, PoppedRenews
<1> QED
  BY <1>3, <1>4, <1>5, <1>6, <1>7, <1>8 DEF ControlStep

(* A wakeup moves no step of the program that matters to the queue.        *)
LEMMA WokenKeeps ==
    ASSUME TypeOK, control' \in {control, Woken}
    PROVE  /\ StopsProducer => StopsProducer'
           /\ Renewing' => Renewing
           /\ control # <<>> /\ control[Len(control)] \in {"stop", "join"} =>
                 control' # <<>> /\ control'[Len(control')] \in {"stop", "join"}
<1>1. CASE control' = control
  BY <1>1 DEF At, Renewing, StopsProducer
<1>2. CASE control # <<>> /\ Head(control) = "asleep" /\ control' = <<"flush">> \o Tail(control)
  <2>1. control \in Seq(ControlSteps) /\ Len(control) \in Nat \ {0} /\ Head(control) = control[1]
    BY <1>2, Dropped1 DEF TypeOK
  <2>2. "flush" \in ControlSteps /\ "flush" \notin {"initialize", "renew", "renew failed"}
    BY DEF ControlSteps
  <2>3. ~Renewing'
    BY <1>2, <2>2, ReplacedRenews
  <2>4. ~StopsProducer
    BY <1>2 DEF StopsProducer, At
  <2>5. CASE Len(control) = 1
    <3>1. control[Len(control)] = "asleep"
      BY <1>2, <2>1, <2>5
    <3> QED
      BY <2>3, <2>4, <3>1
  <2>6. CASE Len(control) # 1
    <3>1. control' # <<>> /\ control'[Len(control')] = control[Len(control)]
      BY <1>2, <2>1, <2>2, <2>6, LastKept
    <3> QED
      BY <2>3, <2>4, <3>1
  <2> QED
    BY <2>5, <2>6
<1> QED
  BY <1>1, <1>2 DEF Woken

(* The worker only takes from the queue.                                   *)
LEMMA QuietInvWorker == TypeOK /\ QuietInv /\ WorkerStep => QuietInv'
<1> SUFFICES ASSUME TypeOK, QuietInv, WorkerStep PROVE QuietInv'
  OBVIOUS
<1>1. /\ UNCHANGED <<pipeline, producer, running>>
      /\ control' \in {control, Woken}
      /\ queue = <<>> => queue' = <<>>
  BY DEF WorkerStep, WorkerBegins, WorkerSleeps, WorkerExits, WorkerDequeues, WorkerChecks,
     WorkerDiscards, WorkerFeedsShadow, WorkerTakesSnapshot, WorkerPublishes, WorkerCatches,
     controlVars, producerVars, lifeVars, queueVars
<1> QED
  BY <1>1, WokenKeeps DEF QuietInv, ProducerJoined, StopAhead, RenewsQuietly

(* The processing thread publishes nothing unless a stop() is ahead or the *)
(* pipeline runs, and nothing while initialize is at work.                 *)
LEMMA QuietInvProducer ==
    ASSUME TypeOK, ProgramInv, QuietInv,
           SensorEvent \/ ProducerStep \/ ProcessMeasurement \/ SubmitShadowMeasurement
    PROVE  QuietInv'
<1>1. /\ UNCHANGED <<control, pipeline, running>>
      /\ producer.step = "none" => producer'.step = "none"
      /\ queue' = queue \/ (running /\ producer.step # "none")
  <2>1. CASE ~PublishMeasurement
    BY <2>1, ProducerLeaves DEF controlVars, lifeVars, queueVars
  <2>2. CASE PublishMeasurement
    BY <2>2 DEF PublishMeasurement, Publishes, controlVars, lifeVars, queueVars
  <2> QED
    BY <2>1, <2>2
<1>2. StopsProducer => control # <<>> /\ control[Len(control)] = "stop"
  BY DEF ProgramInv, StopsProducer, At
<1>3. ProducerJoined'
  BY <1>1 DEF QuietInv, ProducerJoined, StopsProducer, At
<1>4. StopAhead'
  BY <1>1, <1>2 DEF QuietInv, ProducerJoined, StopAhead
<1>5. RenewsQuietly'
  BY <1>1 DEF QuietInv, RenewsQuietly, Renewing, At
<1> QED
  BY <1>3, <1>4, <1>5 DEF QuietInv

(* The operations begin when no stop() is left, hence with an empty queue  *)
(* unless the pipeline runs.                                               *)
LEMMA QuietInvBegin ==
    ASSUME TypeOK, QuietInv,
           \/ StartPipeline \/ StopPipeline \/ Reset \/ Flush
           \/ \E on \in BOOLEAN, size \in Capacities : Reconfigure(on, size)
    PROVE  QuietInv'
<1>1. UNCHANGED <<producer, queue, running>>
  <2>1. CASE StartPipeline \/ StopPipeline \/ Reset \/ Flush
    BY <2>1 DEF StartPipeline, StopPipeline, Reset, Flush, producerVars, queueVars, lifeVars
  <2>2. ASSUME NEW on \in BOOLEAN, NEW size \in Capacities, Reconfigure(on, size)
        PROVE  UNCHANGED <<producer, queue, running>>
    <3>1. UNCHANGED <<producerVars, queueVars, running>>
      BY <2>2, Zenon DEF Reconfigure
    <3> QED
      BY <3>1 DEF producerVars, queueVars
  <2> QED
    BY <2>1, <2>2
<1>2. control = <<>>
  BY BeginForms
<1>3. ~pipeline => producer.step = "none" /\ queue = <<>>
  BY <1>2 DEF QuietInv, ProducerJoined, StopsProducer, StopAhead, At
<1>4. CASE control' = <<"initialize", "start", "spawn">> /\ ~pipeline /\ pipeline'
  BY <1>1, <1>3, <1>4 DEF QuietInv, ProducerJoined, StopAhead, RenewsQuietly
<1>5. CASE control' = <<"notify producer", "join producer", "stop">>
  <2>1. Head(control') = "notify producer" /\ control' # <<>> /\ control'[Len(control')] = "stop"
    <3>1. /\ Head(<<"notify producer", "join producer", "stop">>) = "notify producer"
          /\ <<"notify producer", "join producer", "stop">> # <<>>
          /\ Len(<<"notify producer", "join producer", "stop">>) = 3
          /\ <<"notify producer", "join producer", "stop">>[3] = "stop"
      OBVIOUS
    <3> QED
      BY <1>5, <3>1, Zenon
  <2> QED
    BY <2>1 DEF QuietInv, ProducerJoined, StopsProducer, StopAhead, RenewsQuietly, Renewing, At
<1>6. ASSUME control' # <<>>, Head(control') \in {"reset shadow", "flush", "stop"},
             pipeline' = pipeline
      PROVE  QuietInv'
  BY <1>1, <1>3, <1>6 DEF QuietInv, ProducerJoined, StopsProducer, StopAhead, RenewsQuietly,
     Renewing, At
<1>7. /\ Head(<<"reset shadow", "reset">>) = "reset shadow" /\ Head(<<"flush">>) = "flush"
      /\ Head(<<"stop", "initialize", "start">>) = "stop"
      /\ Head(<<"stop", "initialize">>) = "stop"
      /\ <<"reset shadow", "reset">> # <<>> /\ <<"flush">> # <<>>
      /\ <<"stop", "initialize", "start">> # <<>> /\ <<"stop", "initialize">> # <<>>
  OBVIOUS
<1> QED
  BY <1>4, <1>5, <1>6, <1>7, BeginForms

(* Nothing is published while nobody may.                                  *)
LEMMA QuietInvNext ==
    TypeOK /\ WorkerInv /\ ProgramInv /\ QuietInv /\ [Next]_vars => QuietInv'
<1> SUFFICES ASSUME TypeOK, WorkerInv, ProgramInv, QuietInv, [Next]_vars PROVE QuietInv'
  OBVIOUS
<1>1. CASE UNCHANGED vars
  BY <1>1 DEF QuietInv, ProducerJoined, StopsProducer, StopAhead, RenewsQuietly, Renewing, At, vars,
     controlVars, producerVars, lifeVars, queueVars
<1>2. CASE ControlStep
  BY <1>2, ProducerJoinedControl, StopAheadControl, RenewsQuietlyControl DEF QuietInv
<1> QED
  BY <1>1, <1>2, QuietInvBegin, QuietInvProducer, QuietInvWorker DEF Next

(***************************************************************************)
(* What the diagnostics show, and what is published.                       *)
(***************************************************************************)

(* What the operations and the processing thread leave alone, but for      *)
(* publishing.                                                             *)
LEMMA QuietSteps ==
    ASSUME \/ StartPipeline \/ StopPipeline \/ Reset \/ Flush
           \/ \E on \in BOOLEAN, size \in Capacities : Reconfigure(on, size)
           \/ /\ SensorEvent \/ ProducerStep \/ ProcessMeasurement \/ SubmitShadowMeasurement
              /\ ~PublishMeasurement
           \/ UNCHANGED vars
    PROVE  UNCHANGED <<queue, depth, generation, published, counts, worker, inflight>>
<1>1. CASE StartPipeline \/ StopPipeline \/ Reset \/ Flush
  BY <1>1 DEF StartPipeline, StopPipeline, Reset, Flush, queueVars, workerVars
<1>2. ASSUME NEW on \in BOOLEAN, NEW size \in Capacities, Reconfigure(on, size)
      PROVE  UNCHANGED <<queue, depth, generation, published, counts, worker, inflight>>
  <2>1. UNCHANGED <<queueVars, generation, published, counts, workerVars>>
    BY <1>2, Zenon DEF Reconfigure
  <2> QED
    BY <2>1 DEF queueVars, workerVars
<1>3. CASE /\ SensorEvent \/ ProducerStep \/ ProcessMeasurement \/ SubmitShadowMeasurement
           /\ ~PublishMeasurement
  BY <1>3, ProducerLeaves DEF queueVars, workerVars
<1>4. CASE UNCHANGED vars
  BY <1>4 DEF vars, queueVars, workerVars
<1> QED
  BY <1>1, <1>2, <1>3, <1>4

(* What the control thread leaves alone, but for initialize and reset.     *)
LEMMA QuietControl ==
    ASSUME ControlStep, ~Renew, ~ResetQueue
    PROVE  UNCHANGED <<queue, depth, generation, published, counts, inflight>>
  BY DEF ControlStep, ResetShadow, Start, SpawnProducer, NotifyProducer, JoinProducer,
     RequestStop, NotifyStop, FinishStop, FlushWaits, queueVars, workerVars

(* The locked part of initialize.                                          *)
LEMMA RenewEffect ==
    ASSUME Renew
    PROVE  /\ UNCHANGED <<queue, counts, worker, inflight>>
           /\ published' = Nothing
           /\ depth' = 0
           /\ Renewing
<1>1. /\ UNCHANGED <<queue, counts, workerVars>>
      /\ published' = Nothing
      /\ depth' = 0
      /\ At("renew") \/ At("renew failed")
  BY Zenon DEF Renew
<1> QED
  BY <1>1 DEF workerVars, Renewing

(* The depth follows the queue.                                            *)
LEMMA DepthNext ==
    TypeOK /\ RenewsQuietly /\ DepthMatchesQueue /\ [Next]_vars => DepthMatchesQueue'
<1> SUFFICES ASSUME TypeOK, RenewsQuietly, DepthMatchesQueue, [Next]_vars
             PROVE  DepthMatchesQueue'
  OBVIOUS
<1> USE DEF DepthMatchesQueue
<1>0. Len(<<>>) = 0
  OBVIOUS
<1>1. CASE Renew
  BY <1>0, <1>1, RenewEffect DEF RenewsQuietly
<1>2. CASE ResetQueue
  BY <1>0, <1>2 DEF ResetQueue
<1>3. CASE ControlStep /\ ~Renew /\ ~ResetQueue
  BY <1>3, QuietControl
<1>4. CASE PublishMeasurement
  BY <1>4 DEF PublishMeasurement, queueVars
<1>5. CASE WorkerStep
  BY <1>0, <1>5 DEF WorkerStep, WorkerBegins, WorkerSleeps, WorkerExits, WorkerDequeues, WorkerChecks,
     WorkerDiscards, WorkerFeedsShadow, WorkerTakesSnapshot, WorkerPublishes, WorkerCatches,
     queueVars
<1>6. CASE UNCHANGED <<queue, depth>>
  BY <1>6
<1> QED
  BY <1>1, <1>2, <1>3, <1>4, <1>5, <1>6, QuietSteps DEF Next

(* A result is published only while its generation is the current one, and *)
(* the steps that advance the generation withdraw it.                      *)
LEMMA PublishedNext ==
    TypeOK /\ PublishedIsCurrent /\ [Next]_vars => PublishedIsCurrent'
<1> SUFFICES ASSUME TypeOK, PublishedIsCurrent, [Next]_vars PROVE PublishedIsCurrent'
  OBVIOUS
<1> USE DEF PublishedIsCurrent
<1>1. CASE Renew
  BY <1>1, RenewEffect
<1>2. CASE ResetQueue
  BY <1>2 DEF ResetQueue
<1>3. CASE ControlStep /\ ~Renew /\ ~ResetQueue
  BY <1>3, QuietControl
<1>4. CASE PublishMeasurement
  BY <1>4 DEF PublishMeasurement
<1>5. CASE WorkerPublishes
  BY <1>5 DEF WorkerPublishes, IsCurrent
<1>6. CASE WorkerStep /\ ~WorkerPublishes
  BY <1>6 DEF WorkerStep, WorkerBegins, WorkerSleeps, WorkerExits, WorkerDequeues, WorkerChecks,
     WorkerDiscards, WorkerFeedsShadow, WorkerTakesSnapshot, WorkerCatches
<1>7. CASE UNCHANGED <<generation, published>>
  BY <1>7
<1> QED
  BY <1>1, <1>2, <1>3, <1>4, <1>5, <1>6, <1>7, QuietSteps DEF Next

(***************************************************************************)
(* The accounts.                                                           *)
(***************************************************************************)

(* What a publication does to the queue and the counters, the queue being  *)
(* within its capacity or not.                                             *)
LEMMA PublishEffect ==
    ASSUME TypeOK, PublishMeasurement
    PROVE  /\ inflight' = inflight
           /\ worker'.item = worker.item
           /\ \/ queue' = queue /\ counts' = counts
              \/ queue' = queue /\ counts' = [counts EXCEPT !.index = @ + 1, !.dropped = @ + 1]
              \/ \E item \in Items :
                    /\ item.index = counts.index + 1
                    /\ queue # <<>>
                    /\ queue' = Append(Tail(queue), item)
                    /\ counts' = [counts EXCEPT !.index = @ + 1, !.dropped = @ + 1]
              \/ \E item \in Items :
                    /\ item.index = counts.index + 1
                    /\ queue' = Append(queue, item)
                    /\ counts' = [counts EXCEPT !.index = @ + 1, !.dropped = @ + 0]
<1> DEFINE item == [generation |-> producer.generation, index |-> counts.index + 1]
           kept == IF Full THEN Tail(queue) ELSE queue
<1>1. item \in Items /\ item.index = counts.index + 1
  BY DEF TypeOK, Items, Counters
<1>2. inflight' = inflight
  BY DEF PublishMeasurement
<1>3. worker'.item = worker.item
  BY RousedWorker DEF PublishMeasurement, queueVars
<1>4. CASE queue' = queue /\ worker' = worker
           /\ \/ counts' = counts
              \/ counts' = [counts EXCEPT !.index = @ + 1, !.dropped = @ + 1]
  BY <1>2, <1>3, <1>4
<1>5. CASE /\ capacity # 0
           /\ queue' = Append(kept, item)
           /\ counts' = [counts EXCEPT !.index = @ + 1, !.dropped = @ + Dropped]
  <2>1. CASE Full
    <3>1. queue # <<>>
      BY <1>5, <2>1, ConstantsAssumption DEF Full, TypeOK
    <3>2. Dropped = 1 /\ kept = Tail(queue)
      BY <2>1 DEF Dropped
    <3>3. /\ queue' = Append(Tail(queue), item)
          /\ counts' = [counts EXCEPT !.index = @ + 1, !.dropped = @ + 1]
      BY <1>5, <3>2, Zenon
    <3> HIDE DEF item
    <3> QED
      BY <1>1, <1>2, <1>3, <3>1, <3>3, Zenon
  <2>2. CASE ~Full
    <3>1. Dropped = 0 /\ kept = queue
      BY <2>2 DEF Dropped
    <3>2. /\ queue' = Append(queue, item)
          /\ counts' = [counts EXCEPT !.index = @ + 1, !.dropped = @ + 0]
      BY <1>5, <3>1, Zenon
    <3> HIDE DEF item
    <3> QED
      BY <1>1, <1>2, <1>3, <3>2, Zenon
  <2> QED
    BY <2>1, <2>2
<1> QED
  BY <1>4, <1>5, Zenon DEF PublishMeasurement, Enqueued, queueVars

(* The sums.                                                               *)
LEMMA Sums ==
    ASSUME TypeOK, EveryMeasurementAccounted
    PROVE  /\ counts.index + 1 = Len(queue) + inflight + counts.processed + counts.stale
                                 + (counts.dropped + 1) + counts.failed + counts.wiped
           /\ counts.index + 1 = (Len(queue) + 1) + inflight + counts.processed + counts.stale
                                 + (counts.dropped + 0) + counts.failed + counts.wiped
           /\ counts.index = 0 + (inflight - 1) + counts.processed + counts.stale
                             + counts.dropped + (counts.failed + 1) + (counts.wiped + Len(queue))
           /\ counts.index = Len(queue) + (inflight - 1) + counts.processed + (counts.stale + 1)
                             + counts.dropped + counts.failed + counts.wiped
           /\ counts.index = Len(queue) + (inflight - 1) + (counts.processed + 1) + counts.stale
                             + counts.dropped + counts.failed + counts.wiped
<1> DEFINE i == counts.index  q == Len(queue)  l == inflight  p == counts.processed
           s == counts.stale  d == counts.dropped  f == counts.failed  w == counts.wiped
<1>1. /\ i \in Nat /\ q \in Nat /\ l \in Nat /\ p \in Nat
      /\ s \in Nat /\ d \in Nat /\ f \in Nat /\ w \in Nat
  BY LenProperties DEF TypeOK, Counters
<1>2. i = q + l + p + s + d + f + w
  BY Zenon DEF EveryMeasurementAccounted
<1> HIDE DEF i, q, l, p, s, d, f, w
<1>3. /\ i + 1 = q + l + p + s + (d + 1) + f + w
      /\ i + 1 = (q + 1) + l + p + s + (d + 0) + f + w
      /\ i = 0 + (l - 1) + p + s + d + (f + 1) + (w + q)
      /\ i = q + (l - 1) + p + (s + 1) + d + f + w
      /\ i = q + (l - 1) + (p + 1) + s + d + f + w
  BY <1>1, <1>2
<1> QED
  BY <1>3, Zenon DEF i, q, l, p, s, d, f, w

(* Accepting a measurement, with or without dropping another, keeps the    *)
(* accounts.                                                               *)
LEMMA AccountedPublish ==
    TypeOK /\ EveryMeasurementAccounted /\ PublishMeasurement => EveryMeasurementAccounted'
<1> SUFFICES ASSUME TypeOK, EveryMeasurementAccounted, PublishMeasurement
             PROVE  EveryMeasurementAccounted'
  OBVIOUS
<1> USE DEF EveryMeasurementAccounted
<1>1. /\ counts.index \in Nat /\ counts.processed \in Nat /\ counts.stale \in Nat
      /\ counts.dropped \in Nat /\ counts.failed \in Nat /\ counts.wiped \in Nat
      /\ inflight \in Nat /\ Len(queue) \in Nat
  BY LenProperties DEF TypeOK, Counters
<1>0. queue \in Seq(Items)
  BY DEF TypeOK
<1>2. inflight' = inflight
  BY PublishEffect
<1>3. CASE queue' = queue /\ counts' = counts
  BY <1>2, <1>3
<1>4. ASSUME NEW n \in Nat, counts' = [counts EXCEPT !.index = @ + 1, !.dropped = @ + n]
      PROVE  /\ counts'.index = counts.index + 1 /\ counts'.dropped = counts.dropped + n
             /\ counts'.processed = counts.processed /\ counts'.stale = counts.stale
             /\ counts'.failed = counts.failed /\ counts'.wiped = counts.wiped
  <2>1. counts \in Counters
    BY DEF TypeOK
  <2> QED
    BY <1>4, <2>1, Zenon DEF Counters
<1>5. CASE queue' = queue /\ counts' = [counts EXCEPT !.index = @ + 1, !.dropped = @ + 1]
  <2>1. /\ counts'.index = counts.index + 1 /\ counts'.dropped = counts.dropped + 1
        /\ counts'.processed = counts.processed /\ counts'.stale = counts.stale
        /\ counts'.failed = counts.failed /\ counts'.wiped = counts.wiped
    BY <1>4, <1>5
  <2>2. Len(queue') = Len(queue)
    BY <1>5
  <2> QED
    BY <1>2, <2>1, <2>2, Sums, Zenon
<1>6. ASSUME NEW item \in Items, queue # <<>>, queue' = Append(Tail(queue), item),
             counts' = [counts EXCEPT !.index = @ + 1, !.dropped = @ + 1]
      PROVE  EveryMeasurementAccounted'
  <2>1. Len(queue') = Len(queue)
    BY <1>0, <1>1, <1>6, Dropped1, AppendProperties
  <2>2. /\ counts'.index = counts.index + 1 /\ counts'.dropped = counts.dropped + 1
        /\ counts'.processed = counts.processed /\ counts'.stale = counts.stale
        /\ counts'.failed = counts.failed /\ counts'.wiped = counts.wiped
    BY <1>4, <1>6
  <2> QED
    BY <1>2, <2>1, <2>2, Sums, Zenon
<1>7. ASSUME NEW item \in Items, queue' = Append(queue, item),
             counts' = [counts EXCEPT !.index = @ + 1, !.dropped = @ + 0]
      PROVE  EveryMeasurementAccounted'
  <2>1. Len(queue') = Len(queue) + 1
    BY <1>0, <1>7, AppendProperties
  <2>2. /\ counts'.index = counts.index + 1 /\ counts'.dropped = counts.dropped + 0
        /\ counts'.processed = counts.processed /\ counts'.stale = counts.stale
        /\ counts'.failed = counts.failed /\ counts'.wiped = counts.wiped
    BY <1>4, <1>7
  <2> QED
    BY <1>2, <2>1, <2>2, Sums, Zenon
<1> QED
  BY <1>3, <1>5, <1>6, <1>7, PublishEffect

(* Every step keeps the accounts.                                          *)
LEMMA AccountedNext ==
    TypeOK /\ EveryMeasurementAccounted /\ [Next]_vars => EveryMeasurementAccounted'
<1> SUFFICES ASSUME TypeOK, EveryMeasurementAccounted, [Next]_vars
             PROVE  EveryMeasurementAccounted'
  OBVIOUS
<1> USE DEF EveryMeasurementAccounted
<1>1. /\ counts.index \in Nat /\ counts.processed \in Nat /\ counts.stale \in Nat
      /\ counts.dropped \in Nat /\ counts.failed \in Nat /\ counts.wiped \in Nat
      /\ inflight \in Nat /\ Len(queue) \in Nat
  BY LenProperties DEF TypeOK, Counters
<1>0. queue \in Seq(Items)
  BY DEF TypeOK
<1>2. Len(<<>>) = 0
  OBVIOUS
<1>3. CASE Renew
  BY <1>3, RenewEffect
<1>4. CASE ResetQueue
  BY <1>1, <1>2, <1>4 DEF ResetQueue, workerVars, TypeOK, Counters
<1>5. CASE ControlStep /\ ~Renew /\ ~ResetQueue
  BY <1>5, QuietControl
<1>6. CASE WorkerDequeues
  <2>1. Len(queue') = Len(queue) - 1
    BY <1>0, <1>6, Dropped1 DEF WorkerDequeues
  <2> QED
    BY <1>1, <1>6, <2>1 DEF WorkerDequeues
<1>7. CASE WorkerDiscards
  <2>1. /\ counts'.stale = counts.stale + 1 /\ counts'.index = counts.index
        /\ counts'.processed = counts.processed /\ counts'.dropped = counts.dropped
        /\ counts'.failed = counts.failed /\ counts'.wiped = counts.wiped
    <3>1. counts \in Counters
      BY DEF TypeOK
    <3> QED
      BY <1>7, <3>1, Zenon DEF WorkerDiscards, Counters
  <2>2. Len(queue') = Len(queue) /\ inflight' = inflight - 1
    BY <1>7 DEF WorkerDiscards, queueVars
  <2> QED
    BY <2>1, <2>2, Sums, Zenon
<1>8. CASE WorkerPublishes
  <2>1. /\ counts'.processed = counts.processed + 1 /\ counts'.index = counts.index
        /\ counts'.stale = counts.stale /\ counts'.dropped = counts.dropped
        /\ counts'.failed = counts.failed /\ counts'.wiped = counts.wiped
    <3>1. counts \in Counters
      BY DEF TypeOK
    <3> QED
      BY <1>8, <3>1, Zenon DEF WorkerPublishes, Counters
  <2>2. Len(queue') = Len(queue) /\ inflight' = inflight - 1
    BY <1>8 DEF WorkerPublishes, queueVars
  <2> QED
    BY <2>1, <2>2, Sums, Zenon
<1>9. CASE WorkerCatches
  <2>1. /\ counts'.failed = counts.failed + 1 /\ counts'.wiped = counts.wiped + Len(queue)
        /\ counts'.index = counts.index /\ counts'.processed = counts.processed
        /\ counts'.stale = counts.stale /\ counts'.dropped = counts.dropped
    <3>1. counts \in Counters
      BY DEF TypeOK
    <3> QED
      BY <1>9, <3>1, Zenon DEF WorkerCatches, Counters
  <2>2. Len(queue') = 0 /\ inflight' = inflight - 1
    BY <1>2, <1>9 DEF WorkerCatches
  <2> QED
    BY <2>1, <2>2, Sums, Zenon
<1>10. CASE \/ WorkerBegins \/ WorkerSleeps \/ WorkerExits \/ WorkerChecks \/ WorkerFeedsShadow
            \/ WorkerTakesSnapshot
  BY <1>10 DEF WorkerBegins, WorkerSleeps, WorkerExits, WorkerChecks, WorkerFeedsShadow,
     WorkerTakesSnapshot, queueVars
<1>11. CASE UNCHANGED <<queue, counts, inflight>>
  BY <1>11
<1> QED
  BY <1>3, <1>4, <1>5, <1>6, <1>7, <1>8, <1>9, <1>10, <1>11, QuietSteps, AccountedPublish
  DEF Next, WorkerStep

(***************************************************************************)
(* The order of the queue.                                                 *)
(***************************************************************************)

(* Nothing is out of order in an empty queue.                              *)
LEMMA OrderedEmpty ==
    ASSUME NEW low, NEW high, low <= high
    PROVE  Ordered(low, <<>>, high)
<1>1. Len(<<>>) = 0
  OBVIOUS
<1> QED
  BY <1>1 DEF Ordered

(* The first of an ordered queue comes before the rest of it.              *)
LEMMA OrderedTail ==
    ASSUME NEW low \in Nat, NEW high \in Nat, NEW items \in Seq(Items), items # <<>>,
           Ordered(low, items, high)
    PROVE  /\ low < Head(items).index
           /\ Ordered(low, Tail(items), high)
           /\ Ordered(Head(items).index, Tail(items), high)
<1> DEFINE rest == Tail(items)
<1>1. /\ Head(items) = items[1] /\ Head(items) \in Items
      /\ Len(items) \in Nat \ {0}
      /\ Len(rest) = Len(items) - 1
      /\ \A i \in 1 .. Len(rest) : rest[i] = items[i + 1]
  BY Dropped1
<1> HIDE DEF rest
<1>2. 1 \in 1 .. Len(items)
  BY <1>1
<1>3. Head(items).index \in Nat
  BY <1>1 DEF Items
<1>4. low < Head(items).index /\ Head(items).index <= high
  BY <1>1, <1>2 DEF Ordered
<1>5. ASSUME NEW i \in 1 .. Len(rest)
      PROVE  /\ i + 1 \in 1 .. Len(items) /\ 1 < i + 1
             /\ rest[i] = items[i + 1]
  BY <1>1
<1>6. ASSUME NEW i \in 1 .. Len(rest)
      PROVE  /\ low < rest[i].index /\ rest[i].index <= high
             /\ Head(items).index < rest[i].index
  BY <1>1, <1>2, <1>5 DEF Ordered
<1>7. ASSUME NEW i \in 1 .. Len(rest), NEW j \in 1 .. Len(rest), i < j
      PROVE  rest[i].index < rest[j].index
  <2>1. i + 1 < j + 1
    BY <1>1, <1>7
  <2> QED
    BY <1>5, <2>1 DEF Ordered
<1>8. low <= high
  BY DEF Ordered
<1> QED
  BY <1>4, <1>6, <1>7, <1>8 DEF Ordered, rest

(* The measurement accepted last comes last.                               *)
LEMMA OrderedAppend ==
    ASSUME NEW low \in Nat, NEW high \in Nat, NEW items \in Seq(Items),
           Ordered(low, items, high), NEW item \in Items, item.index = high + 1
    PROVE  Ordered(low, Append(items, item), high + 1)
<1> DEFINE more == Append(items, item)
<1>1. /\ Len(items) \in Nat
      /\ Len(more) = Len(items) + 1
      /\ \A i \in 1 .. Len(items) : more[i] = items[i]
      /\ more[Len(items) + 1] = item
  BY AppendProperties, LenProperties
<1> HIDE DEF more
<1>2. low <= high
  BY DEF Ordered
<1>3. ASSUME NEW i \in 1 .. Len(items)
      PROVE  /\ more[i].index \in Nat
             /\ low < more[i].index /\ more[i].index <= high
  <2>1. items[i] \in Items
    BY ElementOfSeq
  <2> QED
    BY <1>1, <2>1 DEF Ordered, Items
<1>4. ASSUME NEW i \in 1 .. Len(more)
      PROVE  i \in 1 .. Len(items) \/ (i = Len(items) + 1 /\ more[i] = item)
  BY <1>1
<1>5. ASSUME NEW i \in 1 .. Len(more)
      PROVE  low < more[i].index /\ more[i].index <= high + 1
  <2>1. CASE i \in 1 .. Len(items)
    BY <1>3, <2>1
  <2>2. CASE more[i] = item
    BY <1>2, <2>2
  <2> QED
    BY <1>4, <2>1, <2>2
<1>6. ASSUME NEW i \in 1 .. Len(more), NEW j \in 1 .. Len(more), i < j
      PROVE  more[i].index < more[j].index
  <2>1. i \in 1 .. Len(items)
    BY <1>1, <1>6
  <2>2. CASE j \in 1 .. Len(items)
    BY <1>1, <1>6, <2>1, <2>2 DEF Ordered
  <2>3. CASE more[j] = item
    BY <1>3, <2>1, <2>3
  <2> QED
    BY <1>4, <2>2, <2>3
<1>7. low <= high + 1
  BY <1>2
<1> QED
  BY <1>5, <1>6, <1>7 DEF Ordered, more

(* Publishing appends, the worker takes the first, and nothing else but    *)
(* emptying happens to the queue.                                          *)
LEMMA OrderNext == TypeOK /\ QueueOrdered /\ [Next]_vars => QueueOrdered' /\ InOrder
<1> SUFFICES ASSUME TypeOK, QueueOrdered, [Next]_vars PROVE QueueOrdered' /\ InOrder
  OBVIOUS
<1> DEFINE low == worker.item.index
           high == counts.index
<1>1. /\ low \in Nat /\ high \in Nat /\ low <= high
      /\ queue \in Seq(Items)
      /\ Ordered(low, queue, high)
  BY DEF TypeOK, Items, Counters, QueueOrdered, Ordered
<1>2. ASSUME worker'.item = worker.item, counts'.index = counts.index, queue' \in {queue, <<>>}
      PROVE  QueueOrdered' /\ InOrder
  <2>1. Ordered(low, queue', high)
    BY <1>1, <1>2, OrderedEmpty
  <2> QED
    BY <1>2, <2>1 DEF QueueOrdered, InOrder
<1>3. CASE ControlStep
  <2>1. worker'.item = worker.item
    <3>1. CASE Renew
      BY <3>1, RenewEffect
    <3>2. CASE NotifyStop
      BY <3>2, RousedWorker DEF NotifyStop
    <3>3. CASE \/ ResetShadow \/ ResetQueue \/ Start \/ SpawnProducer \/ NotifyProducer \/ JoinProducer
               \/ RequestStop \/ FinishStop \/ FlushWaits
      BY <3>3 DEF ResetShadow, ResetQueue, Start, SpawnProducer, NotifyProducer, JoinProducer, RequestStop,
         FinishStop, FlushWaits, workerVars, TypeOK
    <3> QED
      BY <1>3, <3>1, <3>2, <3>3 DEF ControlStep
  <2>2. counts'.index = counts.index
    <3>1. CASE ResetQueue
      BY <3>1 DEF ResetQueue, TypeOK, Counters
    <3>2. CASE Renew
      BY <3>2, RenewEffect
    <3> QED
      BY <1>3, <3>1, <3>2, QuietControl
  <2> QED
    BY <1>2, <1>3, <2>1, <2>2, QueueControl
<1>4. CASE PublishMeasurement
  <2>1. worker'.item = worker.item
    BY <1>4, PublishEffect
  <2>2. ASSUME NEW n \in Nat, counts' = [counts EXCEPT !.index = @ + 1, !.dropped = @ + n]
        PROVE  counts'.index = high + 1
    <3>1. counts \in Counters
      BY DEF TypeOK
    <3> QED
      BY <2>2, <3>1, Zenon DEF Counters
  <2>3. CASE queue' = queue /\ counts' = counts
    BY <1>2, <2>1, <2>3
  <2>4. CASE queue' = queue /\ counts' = [counts EXCEPT !.index = @ + 1, !.dropped = @ + 1]
    <3>1. counts'.index = high + 1 /\ queue' = queue
      BY <2>2, <2>4
    <3>2. Ordered(low, queue, high + 1)
      <4>1. ASSUME NEW i \in 1 .. Len(queue)
            PROVE  queue[i].index \in Nat
        <5>1. queue[i] \in Items
          BY <1>1, ElementOfSeq
        <5> QED
          BY <5>1 DEF Items
      <4>2. low <= high + 1
        BY <1>1
      <4>3. ASSUME NEW i \in 1 .. Len(queue)
            PROVE  low < queue[i].index /\ queue[i].index <= high + 1
        BY <1>1, <4>1 DEF Ordered
      <4> HIDE DEF low, high
      <4> QED
        BY <1>1, <4>2, <4>3 DEF Ordered
    <3> QED
      BY <2>1, <3>1, <3>2 DEF QueueOrdered, InOrder
  <2>5. ASSUME NEW item \in Items, item.index = high + 1, queue # <<>>,
               queue' = Append(Tail(queue), item), counts'.index = high + 1
        PROVE  QueueOrdered' /\ InOrder
    <3>1. Tail(queue) \in Seq(Items) /\ Ordered(low, Tail(queue), high)
      BY <1>1, <2>5, OrderedTail, Dropped1
    <3>2. Ordered(low, Append(Tail(queue), item), high + 1)
      BY <1>1, <2>5, <3>1, OrderedAppend
    <3> QED
      BY <2>1, <2>5, <3>2 DEF QueueOrdered, InOrder
  <2>6. ASSUME NEW item \in Items, item.index = high + 1,
               queue' = Append(queue, item), counts'.index = high + 1
        PROVE  QueueOrdered' /\ InOrder
    <3>1. Ordered(low, Append(queue, item), high + 1)
      BY <1>1, <2>6, OrderedAppend
    <3> QED
      BY <2>1, <2>6, <3>1 DEF QueueOrdered, InOrder
  <2> QED
    BY <1>4, <2>2, <2>3, <2>4, <2>5, <2>6, PublishEffect
<1>5. CASE WorkerDequeues
  <2>1. /\ queue # <<>> /\ queue' = Tail(queue) /\ counts' = counts
        /\ worker'.item = Head(queue)
    BY <1>5 DEF WorkerDequeues, TypeOK
  <2>2. low < Head(queue).index /\ Ordered(Head(queue).index, Tail(queue), high)
    BY <1>1, <2>1, OrderedTail
  <2> QED
    BY <2>1, <2>2 DEF QueueOrdered, InOrder
<1>6. CASE WorkerCatches
  <2>1. worker'.item = worker.item /\ queue' = <<>>
    BY <1>6 DEF WorkerCatches, TypeOK
  <2>2. counts'.index = counts.index
    <3>1. counts \in Counters
      BY DEF TypeOK
    <3> QED
      BY <1>6, <3>1, Zenon DEF WorkerCatches, Counters
  <2> QED
    BY <1>2, <2>1, <2>2
<1>7. CASE \/ WorkerBegins \/ WorkerSleeps \/ WorkerExits \/ WorkerChecks \/ WorkerDiscards
           \/ WorkerFeedsShadow \/ WorkerTakesSnapshot \/ WorkerPublishes
  <2>1. worker'.item = worker.item /\ counts'.index = counts.index /\ queue' = queue
    BY <1>7 DEF WorkerBegins, WorkerSleeps, WorkerExits, WorkerChecks, WorkerDiscards,
       WorkerFeedsShadow, WorkerTakesSnapshot, WorkerPublishes, queueVars, TypeOK, Counters
  <2> QED
    BY <1>2, <2>1
<1>8. CASE UNCHANGED <<queue, counts, worker>>
  BY <1>2, <1>8
<1> QED
  BY <1>3, <1>4, <1>5, <1>6, <1>7, <1>8, QuietSteps DEF Next, WorkerStep

(***************************************************************************)
(* The theorems.                                                           *)
(***************************************************************************)

(* The inductive invariant holds at the start.                             *)
LEMMA IInvInit == Init => IInv
<1> SUFFICES ASSUME Init PROVE IInv
  OBVIOUS
<1>1. Len(<<>>) = 0
  OBVIOUS
<1>2. DepthMatchesQueue /\ PublishedIsCurrent
  BY <1>1 DEF Init, DepthMatchesQueue, PublishedIsCurrent
<1>3. EveryMeasurementAccounted
  BY <1>1 DEF Init, EveryMeasurementAccounted
<1>4. QueueOrdered
  <2>1. worker.item.index = 0 /\ counts.index = 0 /\ queue = <<>>
    BY DEF Init, NoItem
  <2> QED
    BY <2>1, OrderedEmpty DEF QueueOrdered
<1> QED
  BY <1>2, <1>3, <1>4, TypeInit, WorkerInvInit, ProgramInvInit DEF IInv

(* Every step preserves it.                                                *)
LEMMA IInvNext == IInv /\ [Next]_vars => IInv'
<1> SUFFICES ASSUME IInv, [Next]_vars PROVE IInv'
  OBVIOUS
<1>1. /\ TypeOK /\ WorkerInv /\ ProgramInv /\ QuietInv /\ DepthMatchesQueue
      /\ PublishedIsCurrent /\ EveryMeasurementAccounted /\ QueueOrdered
  BY DEF IInv
<1>2. InFlightCounted /\ RenewsQuietly
  BY <1>1 DEF WorkerInv, QuietInv
<1>3. TypeOK' /\ WorkerInv' /\ ProgramInv' /\ QuietInv'
  BY <1>1, <1>2, TypeNext, WorkerInvNext, ProgramInvNext, QuietInvNext
<1>4. DepthMatchesQueue' /\ PublishedIsCurrent' /\ EveryMeasurementAccounted' /\ QueueOrdered'
  BY <1>1, <1>2, DepthNext, PublishedNext, AccountedNext, OrderNext
<1> QED
  BY <1>3, <1>4 DEF IInv

(* The invariant of the specification, on which the theorems below rest.   *)
THEOREM CoordinatorInvariant == Spec => []IInv
<1>1. Init => IInv
  BY IInvInit
<1>2. IInv /\ [Next]_vars => IInv'
  BY IInvNext
<1> QED
  BY <1>1, <1>2, PTL DEF Spec

(* Every variable keeps its type, and at most one measurement is in flight *)
(* between the queue and the diagnostics.                                  *)
THEOREM CoordinatorTypes == Spec => []TypeOK
<1>1. IInv => TypeOK
  BY DEF IInv
<1> QED
  BY <1>1, CoordinatorInvariant, PTL

(* Whenever the worker is not running, before the first start or after a   *)
(* stop(), nothing of it is left: no thread, nothing queued, nothing in    *)
(* flight.                                                                 *)
THEOREM StopIsQuiet == Spec => []StoppedIsQuiet
<1>1. IInv => StoppedIsQuiet
  BY DEF IInv, WorkerInv
<1> QED
  BY <1>1, CoordinatorInvariant, PTL

(* The published shadow state and comparison are of the current generation *)
(* whatever resets and reinitializations overlap the worker's computation. *)
THEOREM PublishedStaysCurrent == Spec => []PublishedIsCurrent
<1>1. IInv => PublishedIsCurrent
  BY DEF IInv
<1> QED
  BY <1>1, CoordinatorInvariant, PTL

(* No accepted measurement is lost from the accounts or counted twice.     *)
THEOREM MeasurementsAccounted == Spec => []EveryMeasurementAccounted
<1>1. IInv => EveryMeasurementAccounted
  BY DEF IInv
<1> QED
  BY <1>1, CoordinatorInvariant, PTL

(* The depth in the diagnostics is the depth of the queue, although        *)
(* initialize zeroes the one without clearing the other.                   *)
THEOREM DepthIsShown == Spec => []DepthMatchesQueue
<1>1. IInv => DepthMatchesQueue
  BY DEF IInv
<1> QED
  BY <1>1, CoordinatorInvariant, PTL

(* The worker takes measurements in the order of their enqueue indexes.    *)
THEOREM QueueIsFIFO == Spec => ProcessedInOrder
<1>1. IInv /\ [Next]_vars => [InOrder]_vars
  BY OrderNext DEF IInv
<1> QED
  BY <1>1, CoordinatorInvariant, PTL DEF Spec, ProcessedInOrder
=============================================================================
