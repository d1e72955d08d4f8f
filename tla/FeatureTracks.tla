---------------------------- MODULE FeatureTracks ----------------------------
(***************************************************************************)
(* VisualFeatureTrackManager: the pixels of one frame are matched to those *)
(* of the frame before, and a track that has been given a world point      *)
(* keeps it.  Which pixels match and which pairs can be triangulated are   *)
(* inputs; a world point is the cell of space the estimator keys it by.    *)
(***************************************************************************)
EXTENDS Integers, Sequences, FiniteSets

CONSTANTS Points,    \* cells of space
          MaxTracks  \* maximum_tracks

ASSUME TracksAssumption == MaxTracks \in Nat \ {0}

Unknown == "unknown"

reset_tracks == [point |-> [i \in {} |-> Unknown], next |-> 1]

\* faulty: a track that is carried on is triangulated anew
UpdateAgain(m, carried, fresh, solved) ==
    [point |-> [i \in carried \union fresh |-> solved[i]], next |-> m.next + Cardinality(fresh)]

\* update(): tracks not matched are dropped; a carried track keeps the point it has; one without a
\* point may get it from this pair of frames.
update(m, carried, fresh, solved) ==
    [point |-> [i \in carried \union fresh |->
                   IF i \in carried /\ m.point[i] # Unknown THEN m.point[i] ELSE solved[i]],
     next  |-> m.next + Cardinality(fresh)]

\* What a frame may do: at most maximum_tracks pixels are taken.
Carriable(m) == {S \in SUBSET DOMAIN m.point : Cardinality(S) <= MaxTracks}
Fresh(m, n) == m.next .. m.next + n - 1

\* The batch for the estimator: the points of the tracks that have one.
Batch(m) == {m.point[i] : i \in DOMAIN m.point} \ {Unknown}
===============================================================================
