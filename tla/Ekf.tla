--------------------------------- MODULE Ekf ---------------------------------
(***************************************************************************)
(* What both estimators do with time: the gate of IMU samples, the stamps  *)
(* of the last accepted visual and depth updates, and the localization     *)
(* verdict drawn from their ages.  The filter itself is numbers; whether   *)
(* its innovation, gain and covariance pass the checks is an input, fit.   *)
(*                                                                         *)
(* imu is the timestamp of the last accepted sample; clock is timestamp_,  *)
(* which only propagate_imu() without a stamp advances, and nothing in the *)
(* program calls that.                                                     *)
(***************************************************************************)
EXTENDS Integers

CONSTANTS MaxImuDt,     \* max_imu_dt_s, in ticks; min_imu_dt_s is below a tick
          WeakAge,      \* 0.8 s in ticks: the confidence is scaled down
          DegradedAge,  \* 1.2 s
          LostAge       \* 3.5 s

ASSUME EkfAssumption ==
    /\ MaxImuDt \in Nat \ {0}
    /\ WeakAge \in Nat /\ DegradedAge \in Nat /\ LostAge \in Nat
    /\ WeakAge <= DegradedAge /\ DegradedAge <= LostAge

None == -1

Blank == [initialized |-> FALSE, imu |-> None, clock |-> 0, vision |-> None, depth |-> None]

\* A quaternion that cannot be normalized leaves the estimator without a state, and everything
\* but the pose as it was.
reset(e, upright) ==
    IF upright THEN [Blank EXCEPT !.initialized = TRUE] ELSE [e EXCEPT !.initialized = FALSE]

\* The first sample only sets the time.  A duplicate, a step back and a step wider than the limit
\* are refused, and none of them moves the time the next step is measured from.
imu_step_valid(e, t) == e.imu = None \/ (t > e.imu /\ t - e.imu <= MaxImuDt)

\* propagate_imu_locked() with a stamp from outside: the candidate state is taken over as a whole
\* when it is finite and its covariance sound, or not at all; the filter's own time stays.
propagate_imu(e, t, fit) == IF fit THEN [e EXCEPT !.imu = t] ELSE e

process_imu_measurement(e, t, fit) ==
    IF e.initialized /\ imu_step_valid(e, t)
    THEN propagate_imu(e, t, fit \/ e.imu = None) ELSE e

\* apply_error_state_update_locked(): dimensions, innovation, its covariance, gain, the corrected
\* state and covariance are checked one after the other; the state is taken over when all are
\* sound, or left as it was.
apply_error_state_update(e, corrected, fit) == IF e.initialized /\ fit THEN corrected ELSE e

update_visual_pose(e, fit) ==
    apply_error_state_update(e, [e EXCEPT !.vision = e.clock], fit)

\* Correction by LiDAR depth is refused unless the configuration asks for it.
update_depth(e, enabled, fit) ==
    apply_error_state_update(e, [e EXCEPT !.depth = e.clock], enabled /\ fit)

\* The ages behind state(): no update yet counts as an endless age.
Age(e, stamp) == IF stamp = None THEN LostAge + 1
                 ELSE IF e.clock < stamp THEN 0 ELSE e.clock - stamp

\* The verdict on the localization, of the position's uncertainty only whether it is small.
state(e, certain) ==
    LET age == Age(e, e.vision)
    IN  [weak     |-> ~ certain \/ age > WeakAge,
         degraded |-> ~ certain \/ age > DegradedAge,
         lost     |-> age > LostAge,
         source   |-> IF age <= WeakAge
                     THEN IF e.depth # None THEN "vision-depth-fused" ELSE "vision-inertial"
                     ELSE IF e.depth # None THEN "lidar-aided-inertial" ELSE "imu-dead-reckoning"]
==============================================================================
