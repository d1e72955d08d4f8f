--------------------------- MODULE KeyframeManager ---------------------------
(***************************************************************************)
(* The keyframes of a drone, those of its peers and the points of its map. *)
(* A row of a keyframe is a view, the descriptor of one feature, and the   *)
(* number of the map point it was associated with.  Whether the geometry   *)
(* lets a row match a point of the same view is left open.                 *)
(*                                                                         *)
(* encode_keyframe() appends, for each row, row.datastart up to            *)
(* row.dataend: the bounds of the matrix the row is taken from, not of the *)
(* row.  So of a keyframe of several rows only the first survives the      *)
(* decoder; what it reads as the others are bytes of descriptors.          *)
(***************************************************************************)
EXTENDS Naturals, SequencesExt

CONSTANTS Descriptors,  \* of features, as far as the detector tells them apart
          MaxKeyframes, \* kMaxLocalKeyframes
          MaxRows,      \* rows that fit kMaxSharedDescSize
          MaxRowsSent,  \* rows with which an encoded keyframe still fits a datagram
          MinFeatures   \* policy_.min_tracked_features

\* What a garbled row decodes to: a view that matches none and a number of no point.
Noise   == "noise"
NoPoint == 9999

ASSUME KeyframeAssumption ==
    /\ {MaxKeyframes, MaxRows, MaxRowsSent} \subseteq Nat \ {0}
    /\ MinFeatures \in Nat
    /\ Noise \notin Descriptors

InitMap == [local |-> <<>>, remote |-> <<>>, points |-> <<>>, kfNext |-> 0, mpNext |-> 0,
            placed |-> FALSE, candidates |-> FALSE]

NewKeyframe(id, drone, views) ==
    [id |-> id, drone |-> drone, views |-> views, points |-> <<>>, shared |-> FALSE]

make_global_keyframe_id(k) == <<k.drone, k.id>>
Frames(m) == ToSet(m.local) \union ToSet(m.remote)

-------------------------------------------------------------------------------
(* Rows become observations of map points.  The search for the best point starts from number 0,
   which also stands for "none": point 0 is found and taken for nothing. *)

Resembling(points, view) == {i \in DOMAIN points \ {0} : view # Noise /\ points[i] = view}

\* A number that is taken keeps its point.
Placed(points, number, view) ==
    [i \in DOMAIN points \union {number} |-> IF i \in DOMAIN points THEN points[i] ELSE view]

WithPoint(m, view) ==
    [m EXCEPT !.points = Placed(@, m.mpNext, view), !.mpNext = @ + 1]

Associated(out, view) ==
    {[m |-> out.m, ids |-> Append(out.ids, i)] : i \in Resembling(out.m.points, view)}
    \union {[m |-> WithPoint(out.m, view), ids |-> Append(out.ids, out.m.mpNext)]}

\* The maps a keyframe's rows may lead to, row after row, each with the points of the rows.
AfterRows(m, views) ==
    LET after[r \in 0 .. Len(views)] ==
            IF r = 0 THEN {[m |-> m, ids |-> <<>>]}
            ELSE UNION {Associated(out, views[r]) : out \in after[r - 1]}
    IN  after

Observations(m, views) == AfterRows(m, views)[Len(views)]

Newest(frames) == IF Len(frames) > MaxKeyframes
                  THEN SubSeq(frames, Len(frames) - MaxKeyframes + 1, Len(frames)) ELSE frames

\* Whether a frame becomes a keyframe; moved stands for the thresholds on time, translation,
\* rotation and overlap, which are not asked when no keyframe has been placed yet.
should_create_keyframe(m, views, moved) == Len(views) >= MinFeatures /\ (m.placed => moved)

\* find_loop_closure_candidates() is asked after the keyframe is stored, so it finds itself.
find_loop_closure_candidates(m, views) ==
    {make_global_keyframe_id(k) : k \in {f \in Frames(m) : ToSet(f.views) \intersect ToSet(views) # {}}}

\* share_latest_keyframe() marks it before it is known whether the mesh takes it.
try_add_frame(m, drone, views) ==
    {LET kf == [NewKeyframe(m.kfNext, drone, views) EXCEPT !.points = out.ids, !.shared = TRUE]
         stored == [out.m EXCEPT !.local = Newest(Append(@, kf)), !.kfNext = @ + 1, !.placed = TRUE]
     IN  [stored EXCEPT !.candidates = find_loop_closure_candidates(stored, views) # {}]
     : out \in Observations(m, views)}

-------------------------------------------------------------------------------
(* What is shared or saved of a keyframe, and what a peer or load_map() makes of it. *)

Kept(kf) == IF Len(kf.views) < MaxRows THEN Len(kf.views) ELSE MaxRows

encode_keyframe(kf) ==
    [id |-> kf.id, drone |-> kf.drone,
     views  |-> [r \in 1 .. Kept(kf) |-> IF r = 1 THEN kf.views[r] ELSE Noise],
     points |-> [r \in 1 .. Kept(kf) |-> IF r = 1 THEN kf.points[r] ELSE NoPoint]]

Fits(payload) == Len(payload.views) <= MaxRowsSent

decode_keyframe(payload) ==
    [NewKeyframe(payload.id, payload.drone, payload.views) EXCEPT !.points = payload.points]

Known(m, kf) ==
    \E k \in ToSet(m.remote) : make_global_keyframe_id(k) = make_global_keyframe_id(kf)

on_remote_keyframe(m, src, payload) ==
    LET kf == [decode_keyframe(payload) EXCEPT !.drone = src, !.shared = TRUE]
    IN  IF Known(m, kf) THEN {m}
        ELSE {[out.m EXCEPT !.remote = Newest(Append(@, [kf EXCEPT !.points = out.ids]))]
              : out \in Observations(m, kf.views)}

Encoded(frames) == [i \in 1 .. Len(frames) |-> encode_keyframe(frames[i])]
Decoded(payloads) == [i \in 1 .. Len(payloads) |-> decode_keyframe(payloads[i])]

NoFile == [saved |-> FALSE]
save_map(m) == [saved |-> TRUE, local |-> Encoded(m.local), remote |-> Encoded(m.remote),
                points |-> m.points]

Highest(numbers) == CHOOSE n \in numbers \union {0} : \A other \in numbers : other <= n

\* faulty: the next numbers are not taken from the file
NumbersUnread(m, file) == [kfNext |-> m.kfNext, mpNext |-> m.mpNext]

\* The next numbers, above every one in the file.
NumbersRead(m, file) ==
    [kfNext |-> Highest({k.id : k \in ToSet(file.local) \union ToSet(file.remote)}) + 1,
     mpNext |-> Highest(DOMAIN file.points) + 1]

\* load_map() asks the keyframes it has just moved away whether there are any, so it never
\* remembers where the last one was taken.
load_map(m, file) ==
    [m EXCEPT !.local = Decoded(file.local), !.remote = Decoded(file.remote),
              !.points = file.points, !.kfNext = NumbersRead(m, file).kfNext,
              !.mpNext = NumbersRead(m, file).mpNext, !.placed = FALSE]

-------------------------------------------------------------------------------
(* What holds of every keyframe, map and file. *)

View == Descriptors \union {Noise}

\* A keyframe, and what is sent or saved of one, has as many points as views.
RowsFormed(kf) ==
    /\ kf.id \in Nat
    /\ kf.views \in Seq(View) /\ kf.points \in Seq(Nat)
    /\ Len(kf.points) = Len(kf.views)

\* Its readable rows name points with their views.
RowsNamed(kf, points) ==
    \A r \in 1 .. Len(kf.views) :
        kf.views[r] # Noise => /\ kf.points[r] \in DOMAIN points
                               /\ points[kf.points[r]] = kf.views[r]

FramesFormed(frames, points) ==
    /\ frames \in Seq(ToSet(frames))
    /\ \A i \in 1 .. Len(frames) : RowsFormed(frames[i]) /\ RowsNamed(frames[i], points)
    /\ \A i, j \in 1 .. Len(frames) :
         i # j => make_global_keyframe_id(frames[i]) # make_global_keyframe_id(frames[j])

PointsFormed(points) ==
    /\ points \in [DOMAIN points -> View]
    /\ DOMAIN points \subseteq Nat /\ IsFiniteSet(DOMAIN points)

MapFormed(m) ==
    /\ m = [local |-> m.local, remote |-> m.remote, points |-> m.points, kfNext |-> m.kfNext,
            mpNext |-> m.mpNext, placed |-> m.placed, candidates |-> m.candidates]
    /\ PointsFormed(m.points)
    /\ FramesFormed(m.local, m.points) /\ FramesFormed(m.remote, m.points)
    /\ m.kfNext \in Nat /\ m.mpNext \in Nat
    /\ \A i \in 1 .. Len(m.local) : m.local[i].id < m.kfNext
    /\ \A i \in DOMAIN m.points : i < m.mpNext

FileFormed(file) ==
    file.saved => /\ PointsFormed(file.points)
                  /\ FramesFormed(file.local, file.points)
                  /\ FramesFormed(file.remote, file.points)
===============================================================================
