----------------------------- MODULE VioFrontend -----------------------------
(***************************************************************************)
(* VIOPipeline, its active estimator (EKFEstimator) and its shadow         *)
(* (Phase17ESKFEstimator) on the processing thread: a sample or a frame is *)
(* handled from end to end.  The shadow sees the same measurements in the  *)
(* same order, and the feature batches besides; that it sees them later,   *)
(* through a queue that may drop some, is EstimatorCoordinator's matter.   *)
(* Nothing flows back from the shadow, so it follows at once here.         *)
(*                                                                         *)
(* What holds the shadow's mutex from end to end is one step, except that  *)
(* each turn of the loop retiring clones is a step of its own.             *)
(***************************************************************************)
EXTENDS Eskf, FeatureTracks

CONSTANTS Configurations, \* what set_estimator_validation_config and set_shadow_msckf_config set
          Placeholders,   \* runtime_mode_ is SIMULATION
          MaxTime,        \* bound: time stamps, in a configuration up to its horizon
          MaxFrames,      \* bound: frames handled, in a configuration up to its frames
          MaxResets       \* bound: resets and reconfigurations

ASSUME FrontendAssumption ==
    /\ \A c \in Configurations : /\ c.clones \in Nat \ {0}
                                 /\ c.horizon \in 0 .. MaxTime /\ c.frames \in 0 .. MaxFrames
                                 /\ {c.msckf, c.update, c.zupt, c.depth} \subseteq BOOLEAN
    /\ Placeholders \in BOOLEAN
    /\ MaxTime \in Nat /\ MaxFrames \in Nat /\ MaxResets \in Nat

VARIABLES
    config,   \* validation_cfg_ and msckf_cfg_
    active,   \* EKFEstimator
    shadow,   \* Phase17ESKFEstimator
    detector, \* its detector of rest
    window,   \* its window of clones
    features, \* visual_feature_tracks_
    batch,    \* features that wait to be submitted to the shadow
    retiring, \* the shadow is in the loop that retires clones
    stuck,    \* the last retirement failed
    camera,   \* previous_gray_frame_, previous_camera_pose_valid_ and last_camera_ts_
    metrics,  \* last_visual_metrics_
    seen,     \* the active estimator's sample before its last visual update (not in the code)
    frames, resets

vars == <<config, active, shadow, detector, window, features, batch, retiring, stuck, camera,
          metrics, seen, frames, resets>>

Time == 0 .. MaxTime
NoFrame == [gray |-> FALSE, pose |-> FALSE, timed |-> FALSE]

Init ==
    /\ config \in Configurations
    /\ active = reset(Blank, TRUE) /\ shadow = reset(Blank, TRUE)
    /\ detector = reset_stationary_detector
    /\ window = reset_msckf
    /\ features = reset_tracks
    /\ batch = {} /\ retiring = FALSE /\ stuck = FALSE
    /\ camera = NoFrame /\ metrics = "none" /\ seen = None
    /\ frames = 0 /\ resets = 0

Ready == ~ retiring /\ batch = {}
Overfull(w) == Len(w.order) > config.clones

---------------------------------------------------------------------------
(***************************************************************************)
(* Samples of the IMU                                                      *)
(***************************************************************************)
\* Both estimators get the sample; each has a gate of its own.
HandleImu(t, motion) ==
    /\ Ready /\ t <= config.horizon /\ (config.zupt \/ motion = "moving")
    /\ \E fitActive, fitShadow, fitZupt \in BOOLEAN :
        \E a \in {process_imu_measurement(active, t, fitActive)},
           s \in {eskf_process_imu(shadow, t, fitShadow)} :
            /\ active' = a /\ shadow' = s
            /\ detector' = detector_after(detector, shadow, s, t, motion, config.zupt, fitZupt)
    /\ UNCHANGED <<config, window, features, batch, retiring, stuck, camera, metrics, seen,
                   frames, resets>>

---------------------------------------------------------------------------
(***************************************************************************)
(* Frames of the camera                                                    *)
(***************************************************************************)
\* The pose the front end observed goes to both estimators; the shadow takes a clone with it.
ProcessVisualPose(fitActive, fitShadow) ==
    /\ active' = update_visual_pose(active, fitActive)
    /\ shadow' = eskf_update_visual_pose(shadow, fitShadow)
    /\ IF fitShadow
       THEN /\ \E w \in {capture_or_get(window, config.msckf, CloneKey(shadow))} :
                  window' = w /\ retiring' = Overfull(w)
            /\ stuck' = FALSE
       ELSE UNCHANGED <<window, retiring, stuck>>
    /\ seen' = IF fitActive THEN active.imu ELSE seen

\* Of the stamps of frames, only whether there was one above zero and whether one is newer count.
Remember(gray, timed) == camera' = [gray |-> gray, pose |-> TRUE, timed |-> timed]

\* The front end compares two images taken one after the other.
Comparable(newer, gray) == camera.gray /\ gray /\ camera.pose /\ camera.timed /\ newer

\* run_visual_frontend(): corners are tracked from one image to the next, and an essential matrix
\* is found.  Too few corners, inliers or recovered points, too large an error or too small a
\* predicted motion, and nothing is observed; which it is depends on the images.
run_visual_frontend(newer, gray) == IF Comparable(newer, gray) THEN {"observed", "not"} ELSE {"not"}

\* An observation the front end accepts: both poses, then the features for the shadow.
AcceptFrame(newer) ==
    /\ Ready /\ frames < config.frames
    /\ "observed" \in run_visual_frontend(newer, TRUE)
    /\ \E fitActive, fitShadow \in BOOLEAN : ProcessVisualPose(fitActive, fitShadow)
    /\ \E carried \in Carriable(features), n \in 0 .. MaxTracks :
        /\ n + Cardinality(carried) \in 1 .. MaxTracks
        /\ \E solved \in [carried \union Fresh(features, n) -> Points \union {Unknown}] :
            /\ features' = update(features, carried, Fresh(features, n), solved)
            /\ batch' = Batch(features')
    /\ metrics' = "good"
    /\ Remember(TRUE, TRUE)
    /\ frames' = frames + 1
    /\ UNCHANGED <<config, detector, resets>>

\* A frame the front end cannot use; in simulation its detections stand in for an observation.
RefuseFrame(gray, detections, timed) ==
    /\ Ready /\ frames < config.frames /\ (gray \/ detections)
    /\ IF Placeholders /\ detections
       THEN /\ \E fitActive, fitShadow \in BOOLEAN : ProcessVisualPose(fitActive, fitShadow)
            /\ metrics' = "placeholder"
       ELSE /\ metrics' = "poor"
            /\ UNCHANGED <<active, shadow, window, retiring, stuck, seen>>
    /\ Remember(gray, timed)
    /\ frames' = frames + 1
    /\ UNCHANGED <<config, detector, features, batch, resets>>

\* update_vision() of the shadow: some features pass the gate, each correcting the state; with one
\* accepted, the clone of this stamp records the whole frame and the landmarks correct the state.
SubmitFeatures ==
    /\ ~ retiring /\ batch # {}
    /\ batch' = {}
    /\ \E fit \in BOOLEAN :
        /\ shadow' = eskf_update_visual_pose(shadow, fit)
        /\ IF ~ (fit /\ config.msckf) THEN UNCHANGED <<window, retiring, stuck>>
           ELSE \E c \in {capture_or_get(window, TRUE, CloneKey(shadow))} :
                    /\ window' \in WindowsAfterFrame(c, CloneKey(shadow), batch, config.update)
                    /\ retiring' = Overfull(c)
                    /\ stuck' = FALSE
    /\ UNCHANGED <<config, active, detector, features, camera, metrics, seen, frames, resets>>

\* One turn of the loop that retires the oldest clone.
Retire ==
    /\ retiring
    /\ \E w \in WindowsAfterEviction(window, config.update) :
        /\ window' = w
        /\ stuck' = (Len(w.order) = Len(window.order))
        /\ retiring' = maybe_retire_more(window, w, config.clones)
    /\ UNCHANGED <<config, active, shadow, detector, features, batch, camera, metrics, seen,
                   frames, resets>>

---------------------------------------------------------------------------
(***************************************************************************)
(* Depth, reset and reconfiguration                                        *)
(***************************************************************************)
\* The depth offered is the filter's own height, whatever the cloud says; a cloud is used only to
\* see that the height above ground is plausible.
HandleLidar ==
    /\ Ready
    /\ \E fitActive, fitShadow \in BOOLEAN :
        /\ active' = update_depth(active, config.depth, fitActive)
        /\ shadow' = eskf_update_depth(shadow, config.depth, fitShadow)
    /\ UNCHANGED <<config, detector, window, features, batch, retiring, stuck, camera, metrics,
                   seen, frames, resets>>

\* Phase17ESKFEstimator::reset() with the pipeline's start pose, which can be normalized.
ResetEstimators ==
    /\ active' = reset(active, TRUE) /\ shadow' = reset(shadow, TRUE)
    /\ detector' = reset_stationary_detector
    /\ window' = reset_msckf
    /\ features' = reset_tracks
    /\ stuck' = FALSE /\ seen' = None
    /\ resets' = resets + 1

Reset ==
    /\ Ready /\ resets < MaxResets
    /\ ResetEstimators
    /\ camera' = NoFrame /\ metrics' = "none"
    /\ UNCHANGED <<config, batch, retiring, frames>>

\* reconfigure_coordinator(): new limits, then everything but the camera's memory is begun anew.
\* The main program configures before it starts the camera.
Reconfigure ==
    /\ Ready /\ resets < MaxResets /\ camera = NoFrame
    /\ config' \in Configurations
    /\ ResetEstimators
    /\ UNCHANGED <<batch, retiring, camera, metrics, frames>>

\* apply_visual_quality_to_pose(): the last frame's quality, however long ago that was, takes the
\* verdict down; before the first frame and after a reset there is none.
current_pose(certain) ==
    IF metrics \in {"none", "good"} THEN state(active, certain)
    ELSE [state(active, certain) EXCEPT !.weak = TRUE, !.degraded = TRUE,
             !.source = IF metrics = "placeholder" THEN "simulation-placeholder-vision"
                        ELSE "low-visual-quality"]

Next ==
    \/ \E t \in Time, motion \in Motion : HandleImu(t, motion)
    \/ \E newer \in BOOLEAN : AcceptFrame(newer)
    \/ \E gray, detections, timed \in BOOLEAN : RefuseFrame(gray, detections, timed)
    \/ SubmitFeatures \/ Retire \/ HandleLidar \/ Reset \/ Reconfigure

Spec == Init /\ [][Next]_vars

---------------------------------------------------------------------------
(***************************************************************************)
(* Properties                                                              *)
(***************************************************************************)
\* The clones, the two indices into them and the blocks of the covariance agree whatever frames,
\* failed retirements, resets and reconfigurations came in between; the clones are in the order
\* of their stamps, no two of which are the same.
WindowAgrees ==
    /\ ToSet(window.order) = DOMAIN window.cameras
    /\ window.blocks = window.order
    /\ \A i \in DOMAIN window.cameras : window.idOf[window.cameras[i]] = i
    /\ Cardinality(DOMAIN window.idOf) = Len(window.order)
    /\ \A i, j \in DOMAIN window.order :
          i < j => window.cameras[window.order[i]] < window.cameras[window.order[j]]

\* No track refers to a clone that is gone, and none is kept without an observation: a correction
\* never looks for a clone in vain, and the tracks are as bounded as the clones.
NoStaleReference ==
    \A f \in DOMAIN window.tracks :
        window.tracks[f].obs # {} /\ window.tracks[f].obs \subseteq DOMAIN window.cameras

\* A track is marked with the newest clone whose observation of it has corrected the state, as
\* long as the track lives: a retirement that fails after its corrections leaves neither a mark
\* without a correction nor a correction without a mark.
MarkedIffFused ==
    \A f \in DOMAIN window.tracks :
        LET mine == {p[2] : p \in {q \in window.fused : q[1] = f}}
        IN  /\ window.tracks[f].last # NoId => window.tracks[f].last \in mine
            /\ \A id \in mine : id > window.tracks[f].last =>
                    \A o \in window.tracks[f].obs : o > id

\* Between measurements the window holds no more clones than configured, unless the last attempt
\* to retire one failed.
BoundedWindow == ~ retiring /\ ~ stuck => Len(window.order) <= config.clones

\* Every accepted zero-velocity update is charged to one interval of rest: the open interval's
\* count is what the intervals that ended do not account for.
EveryZuptBilled == OpenInterval(detector) = detector.open

\* No zero-velocity update is applied to a drone that moves: when one is, most of the window is
\* calm, however the thresholds of entering and leaving rest interleave.
NoZuptInMotion ==
    [][detector'.applied > detector.applied =>
         CountOf(detector'.samples, {"quiet", "calm"}) >= ExitCount]_vars

\* A track keeps the world point it was given for as long as it is followed.
PointsArePermanent ==
    [][\A i \in DOMAIN features.point \intersect DOMAIN features'.point :
         features.point[i] # Unknown /\ features'.next >= features.next =>
            features'.point[i] = features.point[i]]_vars

\* The documents say that confidence is scaled down when the last visual update is old.  The age
\* is taken by a clock that samples of the IMU do not advance.
VisionLossIsNoticed ==
    active.initialized /\ seen # None /\ active.imu - seen > WeakAge => current_pose(TRUE).weak

---------------------------------------------------------------------------
(***************************************************************************)
(* The inductive invariant behind them                                     *)
(***************************************************************************)
ShadowType ==
    /\ shadow \in [initialized : BOOLEAN, imu : Nat \union {None}, clock : {0},
                   vision : {None, 0}, depth : {None, 0}]
    /\ config \in Configurations

DetectorType ==
    detector \in [samples : Seq([at : Time, motion : Motion]), candidate : {detector.candidate},
                  start : {detector.start}, detected : BOOLEAN, lastZupt : Int,
                  open : Int, billed : Int, applied : Nat]

\* Track ids are given once.
TracksNumbered ==
    /\ features \in [point : {features.point}, next : Nat]
    /\ \A i \in DOMAIN features.point : i \in Nat /\ i < features.next

\* No clone is of a later stamp than the filter; the loop runs only while there are too many.
WindowInv ==
    /\ GoodWindow(window)
    /\ \A i \in ToSet(window.order) : window.cameras[i] <= CloneKey(shadow)
    /\ retiring => Overfull(window)
    /\ BoundedWindow

FrontendInv ==
    ShadowType /\ DetectorType /\ EveryZuptBilled /\ TracksNumbered /\ WindowInv
===============================================================================
