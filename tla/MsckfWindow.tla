----------------------------- MODULE MsckfWindow -----------------------------
(***************************************************************************)
(* The sliding window of the shadow estimator: one clone of the camera     *)
(* pose for each time stamp of a visual update, the tracks of the features *)
(* seen from the clones, and the covariance that grows and shrinks with    *)
(* them.  Which tracks pass the numerical gates of an update, and whether  *)
(* a covariance is healthy, are inputs.                                    *)
(***************************************************************************)
EXTENDS Integers, Sequences, FiniteSets, SequencesExt

CONSTANTS MinObservations, \* observations a landmark is triangulated from
          MinTrackLength   \* observations a track must have to correct the state

ASSUME WindowAssumption == MinObservations \in Nat \ {0} /\ MinTrackLength \in Nat \ {0}

NoId == 0
NoTracks == [f \in {} |-> {}]

\* cameras and idOf index the clones by id and by time stamp; blocks are the clones the covariance
\* has a block for; fused are the corrections that are part of the nominal state, each a feature
\* with the newest clone it was seen from.
reset_msckf ==
    [order |-> <<>>, cameras |-> NoTracks, idOf |-> NoTracks, blocks |-> <<>>,
     nextId |-> 1, tracks |-> NoTracks, fused |-> {}, intrinsics |-> FALSE]

Without(f, S) == [x \in DOMAIN f \ S |-> f[x]]
With(f, x, v) == [y \in DOMAIN f \union {x} |-> IF y = x THEN v ELSE f[y]]
Newest(ids) == CHOOSE i \in ids : \A j \in ids : j <= i

---------------------------------------------------------------------------
(***************************************************************************)
(* Covariance                                                              *)
(***************************************************************************)
dimensions_valid(w) == Len(w.blocks) = Len(w.order)

\* A covariance of the wrong size is begun anew: the base block, and a block of zeros for every clone.
synchronize(w) ==
    IF dimensions_valid(w) THEN w ELSE [w EXCEPT !.blocks = w.order]

\* The design: the new clone's block is a copy of the pose it was taken from.
Cloned(w, id) == [w EXCEPT !.blocks = Append(@, id)]

\* The clone is in the order already, so the size is never the right one, synchronizing makes it
\* right, and the cloning that follows is skipped as already done.
augment_covariance(w, id) ==
    LET s == IF ~ dimensions_valid(w) \/ w.order = <<>> THEN synchronize(w) ELSE w
    IN  IF dimensions_valid(s) THEN s ELSE Cloned(s, id)

---------------------------------------------------------------------------
(***************************************************************************)
(* Clones and tracks                                                       *)
(***************************************************************************)
\* faulty: a second visual update at one time stamp gets a clone of its own
CapturedTwice(w, enabled, key) ==
    IF ~ enabled THEN w
    ELSE augment_covariance([w EXCEPT !.order = Append(@, w.nextId), !.nextId = @ + 1,
                                      !.cameras = With(@, w.nextId, key),
                                      !.idOf = With(@, key, w.nextId)], w.nextId)

\* capture_or_get_msckf_camera_state_locked()
capture_or_get(w, enabled, key) ==
    IF ~ enabled \/ key \in DOMAIN w.idOf THEN w
    ELSE augment_covariance([w EXCEPT !.order = Append(@, w.nextId), !.nextId = @ + 1,
                                      !.cameras = With(@, w.nextId, key),
                                      !.idOf = With(@, key, w.nextId)], w.nextId)

\* Every feature of the frame is recorded once for the clone, also those the gate turned away.
record_features(w, id, seen) ==
    LET old(f) == IF f \in DOMAIN w.tracks THEN w.tracks[f]
                  ELSE [obs |-> {}, landmark |-> FALSE, last |-> NoId]
    IN  [w EXCEPT !.tracks = [f \in DOMAIN w.tracks \union seen |->
                                 IF f \in seen THEN [old(f) EXCEPT !.obs = @ \union {id}]
                                 ELSE w.tracks[f]]]

Triangulable(w) ==
    {f \in DOMAIN w.tracks : ~ w.tracks[f].landmark
                             /\ Cardinality(w.tracks[f].obs) >= MinObservations}

try_initialize_landmarks(w, solved) ==
    [w EXCEPT !.tracks = [f \in DOMAIN w.tracks |->
                             [w.tracks[f] EXCEPT !.landmark = @ \/ f \in solved]]]

\* The tracks an update for a clone considers: landmarks seen from it and not corrected by it or
\* by a later clone before.
Updatable(w, id) ==
    {f \in DOMAIN w.tracks : /\ w.tracks[f].landmark /\ w.tracks[f].last < id
                             /\ id \in w.tracks[f].obs
                             /\ Cardinality(w.tracks[f].obs) >= MinTrackLength}

\* The accepted tracks correct the state in one stacked update and are marked with the newest
\* clone they were seen from.
try_apply_feature_updates(w, accepted) ==
    LET s == synchronize(w)
    IN  [s EXCEPT !.fused = @ \union {<<f, Newest(w.tracks[f].obs)>> : f \in accepted},
                  !.tracks = [f \in DOMAIN w.tracks |->
                      IF f \in accepted THEN [w.tracks[f] EXCEPT !.last = Newest(w.tracks[f].obs)]
                      ELSE w.tracks[f]]]

---------------------------------------------------------------------------
(***************************************************************************)
(* Retirement of the oldest clone                                          *)
(***************************************************************************)
\* build_plan(): the tracks the retiring clone takes part in and that can still correct the state.
ConstraintCandidates(w, id) ==
    {f \in DOMAIN w.tracks : /\ w.tracks[f].landmark /\ id \in w.tracks[f].obs
                             /\ Cardinality(w.tracks[f].obs) >= MinTrackLength}

prune(tracks, id) ==
    LET left == [f \in DOMAIN tracks |-> [tracks[f] EXCEPT !.obs = @ \ {id}]]
    IN  Without(left, {f \in DOMAIN left : left[f].obs = {}})

\* faulty: the tracks come back as they were, the corrected state stays
RestoredTracks(w, updated) == [updated EXCEPT !.tracks = w.tracks]

\* restore_pre_retirement(): nominal state, covariance, clones and tracks as before.
restore_pre_retirement(w, updated) == w

\* faulty: the tracks are left as they were when the clone goes
CommittedUnpruned(w, id) ==
    [w EXCEPT !.order = Tail(@), !.blocks = Tail(@),
              !.cameras = Without(@, {id}), !.idOf = Without(@, {w.cameras[id]})]

commit_retirement(w, id) ==
    [w EXCEPT !.order = Tail(@), !.blocks = Tail(@),
              !.cameras = Without(@, {id}), !.idOf = Without(@, {w.cameras[id]}),
              !.tracks = prune(@, id)]

\* The tracks that may correct the state before the oldest clone goes.
RetirementUpdatable(w) ==
    IF w.intrinsics /\ ConstraintCandidates(w, Head(w.order)) # {}
    THEN Updatable(w, Head(w.order)) ELSE {}

\* evict_msckf_state_locked(), of a window that is not empty.  A covariance of the wrong size or
\* one that is not healthy stops the retirement after the tracks have corrected the state.
evict(w, accepted, healthy) ==
    LET oldest  == Head(w.order)
        updated == IF ConstraintCandidates(w, oldest) = {} THEN w
                   ELSE try_apply_feature_updates(w, accepted)
    IN  IF ConstraintCandidates(w, oldest) # {} /\ ~ w.intrinsics THEN w
        ELSE IF healthy /\ dimensions_valid(updated) THEN commit_retirement(updated, oldest)
        ELSE restore_pre_retirement(w, updated)
---------------------------------------------------------------------------
(***************************************************************************)
(* What every operation keeps                                              *)
(***************************************************************************)
Track == [obs : SUBSET Nat, landmark : BOOLEAN, last : Nat]

Increasing(s) == \A i, j \in DOMAIN s : i < j => s[i] < s[j]

WindowType(w) ==
    /\ w \in [order : Seq(Nat), cameras : {w.cameras}, idOf : {w.idOf}, blocks : Seq(Nat),
              nextId : Nat \ {NoId}, tracks : {w.tracks}, fused : {w.fused}, intrinsics : BOOLEAN]
    /\ w.cameras \in [ToSet(w.order) -> Nat]
    /\ w.idOf \in [DOMAIN w.idOf -> Nat]
    /\ w.tracks \in [DOMAIN w.tracks -> Track]
    /\ \A q \in w.fused : q = <<q[1], q[2]>> /\ q[2] \in Nat

\* Ids are given in the order of the stamps and never again.
ClonesInOrder(w) ==
    /\ w.blocks = w.order
    /\ Increasing(w.order)
    /\ \A i \in ToSet(w.order) : i # NoId /\ i < w.nextId
    /\ \A i, j \in ToSet(w.order) : i < j => w.cameras[i] < w.cameras[j]

StampsIndexed(w) ==
    /\ DOMAIN w.idOf = {w.cameras[i] : i \in ToSet(w.order)}
    /\ \A i \in ToSet(w.order) : w.idOf[w.cameras[i]] = i

TracksObserved(w) ==
    \A f \in DOMAIN w.tracks :
        w.tracks[f].obs # {} /\ w.tracks[f].obs \subseteq ToSet(w.order)

\* A correction by a clone that is still there is remembered by its track; the clones of all other
\* corrections are older than the window.
MarksCorrect(w) ==
    /\ \A f \in DOMAIN w.tracks :
          w.tracks[f].last # NoId => <<f, w.tracks[f].last>> \in w.fused
    /\ \A q \in w.fused :
          /\ q[2] < w.nextId
          /\ q[2] \in ToSet(w.order) => /\ q[1] \in DOMAIN w.tracks
                                        /\ q[2] \in w.tracks[q[1]].obs
                                        /\ q[2] <= w.tracks[q[1]].last
          /\ q[2] \notin ToSet(w.order) => \A i \in ToSet(w.order) : q[2] < i

GoodWindow(w) ==
    WindowType(w) /\ ClonesInOrder(w) /\ StampsIndexed(w) /\ TracksObserved(w) /\ MarksCorrect(w)
===============================================================================
