----------------------------- MODULE Localization -----------------------------
(***************************************************************************)
(* Time synchronization and localization fusion.  Offsets are in           *)
(* milliseconds; confidences, weights and ratios in thousandths, products  *)
(* truncated to a thousandth.  Only the IMU-camera window is kept as a     *)
(* window: the main loop feeds no peer offset, and the anchor offset of a  *)
(* batch enters as its mean.                                               *)
(***************************************************************************)
EXTENDS Integers, Sequences, SequencesExt

CONSTANTS MaxSamples,   \* TimeSyncTracker::Config::max_samples (128)
          TickMs        \* the period of the main loop (500)

ASSUME SamplesAssumption == MaxSamples \in Nat \ {0} /\ TickMs \in Nat \ {0}

Clamp(x, low, high) == IF x < low THEN low ELSE IF x > high THEN high ELSE x
Higher(a, b) == IF a >= b THEN a ELSE b
Distance(a)  == IF a >= 0 THEN a ELSE - a
Times(a, b)  == (a * b) \div 1000

-------------------------------------------------------------------------------
\* TimeSyncTracker

\* Stamps are in milliseconds relative to the current tick; NoStamp is -1.0 in the code.
NoStamp == 1
InitSync == [imu |-> NoStamp, camera |-> NoStamp, offsets |-> <<>>]

push_sample(queue, value) ==
    LET longer == Append(queue, value)
    IN  IF Len(longer) > MaxSamples THEN Tail(longer) ELSE longer

\* Every observation pairs the new stamp with the last one of the other sensor.
observe_imu(t, stamp) ==
    [t EXCEPT !.imu = stamp,
              !.offsets = IF t.camera = NoStamp THEN @ ELSE push_sample(@, t.camera - stamp)]
observe_camera(t, stamp) ==
    [t EXCEPT !.camera = stamp,
              !.offsets = IF t.imu = NoStamp THEN @ ELSE push_sample(@, stamp - t.imu)]

\* A tick later the stamps that were taken are one period older; two periods are as
\* far out of every threshold as any more.
Later(t) ==
    LET Older(stamp) == IF stamp = NoStamp THEN NoStamp ELSE Higher(stamp - TickMs, - 2 * TickMs)
    IN  [t EXCEPT !.imu = Older(@), !.camera = Older(@)]

average(samples) ==
    IF samples = <<>> THEN 0 ELSE FoldSeq(LAMBDA x, y : x + y, 0, samples) \div Len(samples)
mean_abs_deviation(samples) ==
    IF samples = <<>> THEN 0
    ELSE FoldSeq(LAMBDA x, y : Distance(x - average(samples)) + y, 0, samples) \div Len(samples)

\* status(): the confidence falls from 1 to 0 as the worst mean offset reaches 20 ms.
status(t, anchorOffset) ==
    LET worst == Higher(Distance(average(t.offsets)), Distance(anchorOffset))
    IN  [confidence   |-> Clamp(1000 - worst * 50, 0, 1000),
         synchronized |-> worst <= 8 /\ mean_abs_deviation(t.offsets) <= 8]

-------------------------------------------------------------------------------
\* LocalizationFusion

\* tdoa.confidence is meant only with tdoa.kind = "valid"; the others are no solution and a
\* solution that is not finite.
TdoaWeight(in) ==
    IF in.tdoa.kind # "valid" THEN 0
    ELSE Clamp(Times(in.tdoa.confidence, 550) + Times(Clamp(in.drift \div 2, 0, 1000), 450), 0, 850)

\* The confidence of pose and TDOA together, before the missing aids are charged to it.
Fused(in) ==
    LET w == TdoaWeight(in)
    IN  IF in.tdoa.kind # "valid" THEN in.vio
        ELSE Higher(in.vio, Times(in.vio, 1000 - w) + Times(in.tdoa.confidence, w))

FusedConfidence(in, sync) ==
    LET camera  == IF in.frame THEN 1000 ELSE 720
        depth   == IF in.lidar \/ in.rangefinder THEN 1000 ELSE 920
        clock   == IF sync.synchronized THEN 1000 ELSE Clamp(sync.confidence, 350, 1000)
        anchors == Clamp(650 + Times(in.visibility, 350), 650, 1000)
        charged == Times(Times(Times(Times(Fused(in), camera), depth), clock), anchors)
        floor   == Times(in.tdoa.confidence, 550) + Times(in.visibility, 250)
                   + Times(sync.confidence, 200)
    IN  IF in.tdoa.kind = "valid" /\ sync.confidence >= 800 /\ in.visibility >= 500
        THEN Clamp(Higher(charged, floor), 0, 1000)
        ELSE Clamp(charged, 0, 1000)

FusedSource(in, lost) ==
    IF in.tdoa.kind = "valid" /\ lost THEN "tdoa-recovery"
    ELSE IF in.tdoa.kind = "valid" /\ TdoaWeight(in) > 350 THEN "vio-tdoa-fused"
    ELSE IF ~ in.frame THEN "imu-dead-reckoning"
    ELSE IF in.lidar \/ in.rangefinder THEN "vision-depth-fused"
    ELSE "vision-inertial"

\* update(): a pose that is not finite is lost whatever else is known.
fuse(in, sync) ==
    IF ~ in.finite
    THEN [confidence |-> 0, lost |-> TRUE, degraded |-> TRUE, source |-> "invalid-vio-input"]
    ELSE LET c == FusedConfidence(in, sync)
         IN  [confidence |-> c, lost |-> c < 220, degraded |-> c < 580,
              source |-> FusedSource(in, c < 220)]
===============================================================================
