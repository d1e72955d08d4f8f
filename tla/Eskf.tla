-------------------------------- MODULE Eskf --------------------------------
(***************************************************************************)
(* The shadow estimator, Phase17ESKFEstimator: what it does with time is   *)
(* what Ekf says of the active one, and to that it adds a detector of rest *)
(* and a window of clones.  An operator takes the part of the estimator it *)
(* changes and the outcomes of the numerical checks, and returns the part  *)
(* as it is afterwards.                                                    *)
(***************************************************************************)
EXTENDS Ekf, StationaryDetector, MsckfWindow

\* The propagated state and covariance are sound: the sample is taken over, or nothing is.
propagation_sound(e, fit) == e.imu = None \/ fit

eskf_process_imu(e, t, fit) ==
    IF e.initialized /\ imu_step_valid(e, t) /\ propagation_sound(e, fit)
    THEN [e EXCEPT !.imu = t] ELSE e

\* The detector sees the samples that were accepted; an update of rest that is due follows.
detector_after(d, before, after, t, motion, enabled, fit) ==
    IF ~ enabled \/ after.imu = before.imu THEN d
    ELSE maybe_apply_automatic_zupt(update_stationary_detector(d, t, motion), t, fit)

\* apply_error_state_update_locked(): dimensions, innovation, its covariance, gain, the corrected
\* state and covariance are checked one after the other, and the state is taken over when all are
\* sound; clones are corrected with it, or neither is.
correction_sound(e, fit) == e.initialized /\ fit

eskf_update_visual_pose(e, fit) ==
    IF correction_sound(e, fit) THEN [e EXCEPT !.vision = e.clock] ELSE e

eskf_update_depth(e, enabled, fit) ==
    IF enabled /\ correction_sound(e, fit) THEN [e EXCEPT !.depth = e.clock] ELSE e

\* The stamp of a clone: the last accepted sample, or the time of the filter.
CloneKey(e) == IF e.imu = None THEN e.clock ELSE e.imu

\* faulty: one clone is retired and the rest left for the next frame
RetireOnce(before, after, limit) == FALSE

\* The loop that retires clones goes on while there are too many and the last turn retired one.
maybe_retire_more(before, after, limit) ==
    Len(after.order) > limit /\ Len(after.order) < Len(before.order)

\* triangulate_track_locked(): which of the tracks seen often enough give a landmark of sufficient
\* baseline, in front of every clone and with small residuals.
Triangulations(w) == SUBSET Triangulable(w)

\* build_feature_update_linearization_locked() and the gates after it: which of the tracks that may
\* correct the state have a sound linear system and a residual within the chi-square threshold.
GatedUpdates(w, id) == SUBSET Updatable(w, id)

\* What update_vision() does to the window once a feature has corrected the state: the frame is
\* recorded for the clone of its stamp, landmarks are found, landmarks correct the state.
WindowsAfterFrame(captured, key, seen, update) ==
    LET id == captured.idOf[key]
        recorded == record_features([captured EXCEPT !.intrinsics = TRUE], id, seen)
    IN  UNION {LET found == try_initialize_landmarks(recorded, solved)
               IN  {try_apply_feature_updates(found, accepted) :
                      accepted \in IF update THEN GatedUpdates(found, id) ELSE {{}}}
               : solved \in Triangulations(recorded)}

\* evict_msckf_state_locked(): every outcome of retiring the oldest clone.
WindowsAfterEviction(w, update) ==
    {evict(w, accepted, healthy) :
        accepted \in SUBSET (IF update THEN RetirementUpdatable(w) ELSE {}),
        healthy \in BOOLEAN}
===============================================================================
