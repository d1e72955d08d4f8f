------------------------- MODULE VioFrontend_proofs -------------------------
(***************************************************************************)
(* Proofs about VioFrontend, for every configuration, every limit on the   *)
(* clones, every size of the detector's window and every set of points.    *)
(***************************************************************************)
EXTENDS VioFrontend, FiniteSetTheorems, WellFoundedInduction, TLAPS

(***************************************************************************)
(* Least and greatest numbers of a set.                                    *)
(***************************************************************************)

LEMMA LeastExists ==
    ASSUME NEW T, T \subseteq Nat, T # {}
    PROVE  \E x \in T : \A y \in T : x <= y
<1> DEFINE R == OpToRel(<, Nat)
<1>1. IsWellFoundedOn(R, Nat)
  BY NatLessThanWellFounded
<1>2. \A x, y \in Nat : x < y => <<x, y>> \in R
  BY DEF OpToRel
<1> HIDE DEF R
<1>3. PICK x \in T : \A y \in T : ~ (<<y, x>> \in R)
  BY <1>1, WFMin
<1>4. \A y \in T : ~ (y < x)
  BY <1>2, <1>3
<1> QED
  BY <1>4

(* The newest of finitely many ids is one of them, and none is newer.      *)
LEMMA NewestIsGreatest ==
    ASSUME NEW n \in Nat, NEW ids, ids # {}, \A i \in ids : i \in Nat /\ i <= n
    PROVE  Newest(ids) \in ids /\ \A i \in ids : i <= Newest(ids)
<1> DEFINE gaps == {n - i : i \in ids}
<1>1. gaps \subseteq Nat /\ gaps # {}
  OBVIOUS
<1>2. PICK g \in gaps : \A h \in gaps : g <= h
  BY <1>1, LeastExists
<1>3. PICK k \in ids : g = n - k
  OBVIOUS
<1>4. \A i \in ids : i <= k
  <2> SUFFICES ASSUME NEW i \in ids PROVE i <= k
    OBVIOUS
  <2>1. n - k <= n - i
    BY <1>2, <1>3
  <2> QED
    BY <2>1
<1> QED
  BY <1>4 DEF Newest

(***************************************************************************)
(* The window of clones.                                                   *)
(***************************************************************************)

(* A window is a record of these fields.                                   *)
Fields(w) ==
    w \in [order : {w.order}, cameras : {w.cameras}, idOf : {w.idOf}, blocks : {w.blocks},
           nextId : {w.nextId}, tracks : {w.tracks}, fused : {w.fused},
           intrinsics : {w.intrinsics}]

LEMMA WindowFields ==
    ASSUME NEW w, WindowType(w)
    PROVE  /\ Fields(w)
           /\ w.order \in Seq(Nat) /\ w.blocks \in Seq(Nat)
           /\ w.nextId \in Nat /\ w.nextId # NoId /\ w.intrinsics \in BOOLEAN
           /\ ToSet(w.order) \subseteq Nat /\ DOMAIN w.cameras = ToSet(w.order)
  BY DEF WindowType, ToSet, Fields

LEMMA GoodReset == GoodWindow(reset_msckf)
<1> USE DEF NoId
<1>1. /\ ToSet(<<>>) = {} /\ DOMAIN NoTracks = {} /\ <<>> \in Seq(Nat)
      /\ \A S : NoTracks \in [{} -> S]
  BY DEF ToSet, NoTracks
<1>2. WindowType(reset_msckf)
  <2>1. /\ reset_msckf \in [order : Seq(Nat), cameras : {NoTracks}, idOf : {NoTracks},
               blocks : Seq(Nat), nextId : Nat \ {0}, tracks : {NoTracks}, fused : {{}},
               intrinsics : BOOLEAN]
        /\ reset_msckf.order = <<>> /\ reset_msckf.cameras = NoTracks
        /\ reset_msckf.idOf = NoTracks /\ reset_msckf.tracks = NoTracks
        /\ reset_msckf.fused = {}
    BY <1>1 DEF reset_msckf
  <2> QED
    BY <1>1, <2>1 DEF WindowType
<1> QED
  BY <1>1, <1>2 DEF GoodWindow, reset_msckf, ClonesInOrder, Increasing, StampsIndexed,
     TracksObserved, MarksCorrect

(* A clone's block is there whenever the clone is, so the covariance never *)
(* has to be begun anew.                                                   *)
LEMMA SynchronizedAlready ==
    ASSUME NEW w, GoodWindow(w)
    PROVE  dimensions_valid(w) /\ synchronize(w) = w
  BY DEF GoodWindow, ClonesInOrder, dimensions_valid, synchronize

LEMMA AppendedIds ==
    ASSUME NEW s \in Seq(Nat), NEW n \in Nat
    PROVE  /\ Append(s, n) \in Seq(Nat) /\ Len(Append(s, n)) = Len(s) + 1
           /\ ToSet(Append(s, n)) = ToSet(s) \union {n}
           /\ Increasing(s) /\ (\A i \in ToSet(s) : i < n) => Increasing(Append(s, n))
<1>1. /\ Append(s, n) \in Seq(Nat) /\ Len(Append(s, n)) = Len(s) + 1 /\ Len(s) \in Nat
      /\ DOMAIN s = 1 .. Len(s) /\ DOMAIN Append(s, n) = 1 .. Len(s) + 1
      /\ Append(s, n)[Len(s) + 1] = n
      /\ \A i \in 1 .. Len(s) : Append(s, n)[i] = s[i]
  OBVIOUS
<1>2. ToSet(Append(s, n)) = ToSet(s) \union {n}
  BY <1>1 DEF ToSet
<1>3. ASSUME Increasing(s), \A i \in ToSet(s) : i < n
      PROVE  Increasing(Append(s, n))
  <2> SUFFICES ASSUME NEW i \in 1 .. Len(s) + 1, NEW j \in 1 .. Len(s) + 1, i < j
               PROVE  Append(s, n)[i] < Append(s, n)[j]
    BY <1>1 DEF Increasing
  <2>1. i \in 1 .. Len(s) /\ s[i] \in ToSet(s)
    BY <1>1 DEF ToSet
  <2>2. CASE j = Len(s) + 1
    BY <1>1, <1>3, <2>1, <2>2
  <2>3. CASE j \in 1 .. Len(s)
    BY <1>1, <1>3, <2>1, <2>3 DEF Increasing
  <2> QED
    BY <2>2, <2>3
<1> QED
  BY <1>1, <1>2, <1>3

LEMMA TailIds ==
    ASSUME NEW s \in Seq(Nat), s # <<>>, Increasing(s)
    PROVE  /\ Tail(s) \in Seq(Nat) /\ Len(Tail(s)) = Len(s) - 1
           /\ Head(s) \in ToSet(s) /\ ToSet(Tail(s)) = ToSet(s) \ {Head(s)}
           /\ Increasing(Tail(s))
           /\ \A i \in ToSet(Tail(s)) : Head(s) < i
<1>1. /\ Tail(s) \in Seq(Nat) /\ Len(Tail(s)) = Len(s) - 1 /\ Len(s) \in Nat \ {0}
      /\ DOMAIN s = 1 .. Len(s) /\ DOMAIN Tail(s) = 1 .. Len(s) - 1
      /\ Head(s) = s[1]
      /\ \A i \in 1 .. Len(s) - 1 : Tail(s)[i] = s[i + 1]
      /\ \A i \in 1 .. Len(s) : s[i] \in Nat
  OBVIOUS
<1>2. \A i, j \in 1 .. Len(s) : i < j => s[i] < s[j]
  BY <1>1 DEF Increasing
<1>3. Head(s) \in ToSet(s)
  BY <1>1 DEF ToSet
<1>4. Increasing(Tail(s))
  <2> SUFFICES ASSUME NEW i \in 1 .. Len(s) - 1, NEW j \in 1 .. Len(s) - 1, i < j
               PROVE  Tail(s)[i] < Tail(s)[j]
    BY <1>1 DEF Increasing
  <2>1. i + 1 \in 1 .. Len(s) /\ j + 1 \in 1 .. Len(s) /\ i + 1 < j + 1
    BY <1>1
  <2> QED
    BY <1>1, <1>2, <2>1
<1>5. \A i \in ToSet(Tail(s)) : Head(s) < i /\ i \in ToSet(s)
  <2> SUFFICES ASSUME NEW k \in 1 .. Len(s) - 1
               PROVE  Head(s) < Tail(s)[k] /\ Tail(s)[k] \in ToSet(s)
    BY <1>1 DEF ToSet
  <2>1. k + 1 \in 1 .. Len(s) /\ 1 \in 1 .. Len(s) /\ 1 < k + 1
    BY <1>1
  <2> QED
    BY <1>1, <1>2, <2>1 DEF ToSet
<1>6. ASSUME NEW i \in ToSet(s), i # Head(s) PROVE i \in ToSet(Tail(s))
  <2>1. PICK k \in 1 .. Len(s) : i = s[k]
    BY <1>1, <1>6 DEF ToSet
  <2>2. k - 1 \in 1 .. Len(s) - 1 /\ (k - 1) + 1 = k
    BY <1>1, <1>6, <2>1
  <2>3. Tail(s)[k - 1] = i
    BY <1>1, <2>1, <2>2
  <2> QED
    BY <1>1, <2>2, <2>3 DEF ToSet
<1>7. Head(s) \notin ToSet(Tail(s))
  BY <1>1, <1>5
<1> QED
  BY <1>1, <1>3, <1>4, <1>5, <1>6, <1>7

(* A visual update at a new stamp appends one clone; at a stamp that has   *)
(* a clone already it changes nothing.                                     *)
Captured(w, key) ==
    augment_covariance([w EXCEPT !.order = Append(@, w.nextId), !.nextId = @ + 1,
                                 !.cameras = With(@, w.nextId, key),
                                 !.idOf = With(@, key, w.nextId)], w.nextId)

AtStamp(w, key) == IF key \in DOMAIN w.idOf THEN w ELSE Captured(w, key)

LEMMA CaptureForm ==
    ASSUME NEW w, GoodWindow(w), NEW key, key \notin DOMAIN w.idOf, NEW c, c = Captured(w, key)
    PROVE  /\ Fields(c)
           /\ c.order = Append(w.order, w.nextId)
           /\ c.cameras = With(w.cameras, w.nextId, key)
           /\ c.idOf = With(w.idOf, key, w.nextId)
           /\ c.blocks = Append(w.order, w.nextId)
           /\ c.nextId = w.nextId + 1
           /\ c.tracks = w.tracks /\ c.fused = w.fused /\ c.intrinsics = w.intrinsics
<1> DEFINE order == Append(w.order, w.nextId)
           cameras == With(w.cameras, w.nextId, key)
           idOf == With(w.idOf, key, w.nextId)
           next == w.nextId + 1
           added == [w EXCEPT !.order = order, !.nextId = next, !.cameras = cameras,
                              !.idOf = idOf]
           sync == [added EXCEPT !.blocks = order]
<1>1. Fields(w) /\ w.order \in Seq(Nat) /\ w.nextId \in Nat /\ w.blocks = w.order
  BY WindowFields DEF GoodWindow, ClonesInOrder
<1>2. /\ c = augment_covariance(added, w.nextId)
      /\ Len(order) = Len(w.order) + 1 /\ Len(w.order) \in Nat
  BY <1>1, AppendedIds DEF Captured
<1> HIDE DEF order, cameras, idOf, next
<1>3. /\ Fields(added) /\ added.order = order /\ added.cameras = cameras /\ added.idOf = idOf
      /\ added.blocks = w.order /\ added.nextId = next /\ added.tracks = w.tracks
      /\ added.fused = w.fused /\ added.intrinsics = w.intrinsics
  BY <1>1 DEF Fields
<1> HIDE DEF added
<1>4. /\ Fields(sync) /\ sync.order = order /\ sync.cameras = cameras /\ sync.idOf = idOf
      /\ sync.blocks = order /\ sync.nextId = next /\ sync.tracks = w.tracks
      /\ sync.fused = w.fused /\ sync.intrinsics = w.intrinsics
  BY <1>3 DEF Fields
<1>5. ~ dimensions_valid(added) /\ dimensions_valid(sync)
  BY <1>2, <1>3, <1>4 DEF dimensions_valid
<1>6. synchronize(added) = sync
  BY <1>3, <1>5 DEF synchronize
<1>7. c = sync
  BY <1>2, <1>5, <1>6 DEF augment_covariance
<1> QED
  BY <1>4, <1>7 DEF order, cameras, idOf, next

(* Capturing keeps the window good, and the stamp has a clone.             *)
LEMMA CaptureGood ==
    ASSUME NEW w, GoodWindow(w), NEW key \in Nat,
           \A i \in ToSet(w.order) : w.cameras[i] <= key,
           NEW c, c = AtStamp(w, key)
    PROVE  /\ GoodWindow(c)
           /\ \A i \in ToSet(c.order) : c.cameras[i] <= key
           /\ key \in DOMAIN c.idOf
<1> DEFINE n == w.nextId
<1>1. CASE key \in DOMAIN w.idOf
  BY <1>1 DEF AtStamp
<1>2. CASE key \notin DOMAIN w.idOf
  <2>1. /\ Fields(c)
        /\ c.order = Append(w.order, n)
        /\ c.cameras = With(w.cameras, n, key) /\ c.idOf = With(w.idOf, key, n)
        /\ c.blocks = Append(w.order, n) /\ c.nextId = n + 1
        /\ c.tracks = w.tracks /\ c.fused = w.fused /\ c.intrinsics = w.intrinsics
    BY <1>2, CaptureForm DEF AtStamp
  <2>2. /\ WindowType(w) /\ w.order \in Seq(Nat) /\ n \in Nat /\ w.intrinsics \in BOOLEAN
        /\ ToSet(w.order) \subseteq Nat /\ w.cameras \in [ToSet(w.order) -> Nat]
        /\ w.idOf \in [DOMAIN w.idOf -> Nat]
    BY WindowFields DEF GoodWindow, WindowType
  <2>3. /\ Increasing(w.order) /\ \A i \in ToSet(w.order) : i # NoId /\ i < n
        /\ \A i, j \in ToSet(w.order) : i < j => w.cameras[i] < w.cameras[j]
    BY DEF GoodWindow, ClonesInOrder
  <2>4. /\ c.order \in Seq(Nat) /\ ToSet(c.order) = ToSet(w.order) \union {n}
        /\ Increasing(c.order) /\ n \notin ToSet(w.order)
    BY <2>1, <2>2, <2>3, AppendedIds
  <2>5. /\ c.cameras \in [ToSet(c.order) -> Nat] /\ c.cameras[n] = key
        /\ \A i \in ToSet(w.order) : c.cameras[i] = w.cameras[i]
    BY <2>1, <2>2, <2>4 DEF With
  <2>6. /\ c.idOf \in [DOMAIN c.idOf -> Nat] /\ c.idOf[key] = n
        /\ DOMAIN c.idOf = DOMAIN w.idOf \union {key}
        /\ \A k \in DOMAIN w.idOf : c.idOf[k] = w.idOf[k]
    BY <1>2, <2>1, <2>2 DEF With
  <2>7. /\ DOMAIN w.idOf = {w.cameras[i] : i \in ToSet(w.order)}
        /\ \A i \in ToSet(w.order) : w.idOf[w.cameras[i]] = i /\ w.cameras[i] \in DOMAIN w.idOf
    BY DEF GoodWindow, StampsIndexed
  <2>8. \A i \in ToSet(w.order) : w.cameras[i] < key
    BY <1>2, <2>2, <2>7
  <2>9. n # NoId
    BY <2>2, WindowFields
  <2>10. WindowType(c)
    <3>1. /\ c \in [order : Seq(Nat), cameras : {c.cameras}, idOf : {c.idOf}, blocks : Seq(Nat),
                    nextId : Nat \ {NoId}, tracks : {c.tracks}, fused : {c.fused},
                    intrinsics : BOOLEAN]
      <4>1. c.nextId \in Nat \ {NoId} /\ c.blocks \in Seq(Nat)
        BY <2>1, <2>2, <2>4 DEF NoId
      <4> QED
        BY <2>1, <2>2, <2>4, <4>1 DEF Fields
    <3>2. c.tracks \in [DOMAIN c.tracks -> Track] /\ \A q \in c.fused : q = <<q[1], q[2]>> /\ q[2] \in Nat
      BY <2>1, <2>2 DEF WindowType
    <3> QED
      BY <2>5, <2>6, <3>1, <3>2 DEF WindowType
  <2>11. ClonesInOrder(c)
    <3>1. \A i \in ToSet(c.order) : i # NoId /\ i < c.nextId
      BY <2>1, <2>2, <2>3, <2>4, <2>9
    <3>2. \A i, j \in ToSet(c.order) : i < j => c.cameras[i] < c.cameras[j]
      BY <2>2, <2>3, <2>4, <2>5, <2>8
    <3> QED
      BY <2>1, <2>4, <3>1, <3>2 DEF ClonesInOrder
  <2>12. StampsIndexed(c)
    BY <2>4, <2>5, <2>6, <2>7 DEF StampsIndexed
  <2>13. TracksObserved(c)
    BY <2>1, <2>4 DEF GoodWindow, TracksObserved
  <2>14. MarksCorrect(c)
    <3>1. \A f \in DOMAIN c.tracks :
             c.tracks[f].last # NoId => <<f, c.tracks[f].last>> \in c.fused
      BY <2>1 DEF GoodWindow, MarksCorrect
    <3>2. ASSUME NEW q \in c.fused
          PROVE  /\ q[2] < c.nextId
                 /\ q[2] \in ToSet(c.order) => /\ q[1] \in DOMAIN c.tracks
                                               /\ q[2] \in c.tracks[q[1]].obs
                                               /\ q[2] <= c.tracks[q[1]].last
                 /\ q[2] \notin ToSet(c.order) => \A i \in ToSet(c.order) : q[2] < i
      <4>1. q[2] \in Nat /\ q[2] < n
        BY <2>1, <2>2 DEF GoodWindow, WindowType, MarksCorrect
      <4>2. /\ q[2] \in ToSet(w.order) => /\ q[1] \in DOMAIN w.tracks
                                          /\ q[2] \in w.tracks[q[1]].obs
                                          /\ q[2] <= w.tracks[q[1]].last
            /\ q[2] \notin ToSet(w.order) => \A i \in ToSet(w.order) : q[2] < i
        BY <2>1 DEF GoodWindow, MarksCorrect
      <4> QED
        BY <2>1, <2>2, <2>4, <4>1, <4>2
    <3> QED
      BY <3>1, <3>2 DEF MarksCorrect
  <2>15. \A i \in ToSet(c.order) : c.cameras[i] <= key
    BY <2>2, <2>4, <2>5, <2>8
  <2>16. key \in DOMAIN c.idOf
    BY <2>6
  <2>17. GoodWindow(c)
    BY <2>10, <2>11, <2>12, <2>13, <2>14 DEF GoodWindow
  <2> QED
    BY <2>15, <2>16, <2>17
<1> QED
  BY <1>1, <1>2

(* Operations on the tracks alone keep the rest of the window good.        *)
LEMMA TracksChanged ==
    ASSUME NEW w, GoodWindow(w), NEW v, Fields(v),
           v.order = w.order, v.cameras = w.cameras, v.idOf = w.idOf, v.blocks = w.blocks,
           v.nextId = w.nextId, v.intrinsics \in BOOLEAN,
           v.tracks \in [DOMAIN v.tracks -> Track],
           \A q \in v.fused : q = <<q[1], q[2]>> /\ q[2] \in Nat,
           TracksObserved(v), MarksCorrect(v)
    PROVE  GoodWindow(v)
<1>1. WindowType(v)
  <2>1. w.order \in Seq(Nat) /\ w.blocks \in Seq(Nat) /\ w.nextId \in Nat \ {NoId}
    BY WindowFields DEF GoodWindow
  <2>2. v \in [order : Seq(Nat), cameras : {v.cameras}, idOf : {v.idOf}, blocks : Seq(Nat),
              nextId : Nat \ {NoId}, tracks : {v.tracks}, fused : {v.fused},
              intrinsics : BOOLEAN]
    BY <2>1 DEF Fields
  <2>3. v.cameras \in [ToSet(v.order) -> Nat] /\ v.idOf \in [DOMAIN v.idOf -> Nat]
    BY DEF GoodWindow, WindowType
  <2> QED
    BY <2>2, <2>3 DEF WindowType
<1>2. ClonesInOrder(v) /\ StampsIndexed(v)
  BY DEF GoodWindow, ClonesInOrder, StampsIndexed
<1> QED
  BY <1>1, <1>2 DEF GoodWindow

(* The frame of a clone of the window is recorded.                         *)
LEMMA RecordGood ==
    ASSUME NEW w, GoodWindow(w), NEW id \in ToSet(w.order), NEW S,
           NEW v, v = record_features([w EXCEPT !.intrinsics = TRUE], id, S)
    PROVE  GoodWindow(v) /\ v.order = w.order
<1> DEFINE old(f) == IF f \in DOMAIN w.tracks THEN w.tracks[f]
                     ELSE [obs |-> {}, landmark |-> FALSE, last |-> NoId]
           tracks == [f \in DOMAIN w.tracks \union S |->
                         IF f \in S THEN [old(f) EXCEPT !.obs = @ \union {id}]
                         ELSE w.tracks[f]]
           marked == [w EXCEPT !.intrinsics = TRUE]
<1>1. Fields(w) /\ ToSet(w.order) \subseteq Nat /\ w.tracks \in [DOMAIN w.tracks -> Track]
  BY WindowFields DEF GoodWindow, WindowType
<1>2. /\ Fields(marked) /\ marked.order = w.order /\ marked.cameras = w.cameras
      /\ marked.idOf = w.idOf /\ marked.blocks = w.blocks /\ marked.nextId = w.nextId
      /\ marked.tracks = w.tracks /\ marked.fused = w.fused /\ marked.intrinsics = TRUE
  BY <1>1 DEF Fields
<1> HIDE DEF marked
<1>3. v = [marked EXCEPT !.tracks = tracks]
  BY <1>2 DEF record_features, marked
<1>4. /\ DOMAIN tracks = DOMAIN w.tracks \union S
      /\ \A f \in DOMAIN tracks :
            /\ tracks[f] \in Track
            /\ f \in DOMAIN w.tracks => tracks[f].last = w.tracks[f].last
            /\ f \in DOMAIN w.tracks => w.tracks[f].obs \subseteq tracks[f].obs
            /\ f \notin DOMAIN w.tracks => tracks[f].last = NoId /\ tracks[f].obs = {id}
            /\ f \in DOMAIN w.tracks => tracks[f].obs \subseteq w.tracks[f].obs \union {id}
  <2> SUFFICES ASSUME NEW f \in DOMAIN w.tracks \union S
               PROVE  /\ tracks[f] \in Track
                      /\ f \in DOMAIN w.tracks => tracks[f].last = w.tracks[f].last
                      /\ f \in DOMAIN w.tracks => w.tracks[f].obs \subseteq tracks[f].obs
                      /\ f \notin DOMAIN w.tracks => tracks[f].last = NoId /\ tracks[f].obs = {id}
                      /\ f \in DOMAIN w.tracks => tracks[f].obs \subseteq w.tracks[f].obs \union {id}
    OBVIOUS
  <2>1. old(f) \in Track
    BY <1>1 DEF Track, NoId
  <2>2. f \notin DOMAIN w.tracks => old(f).last = NoId /\ old(f).obs = {}
    OBVIOUS
  <2>3. f \in DOMAIN w.tracks => old(f) = w.tracks[f]
    OBVIOUS
  <2> HIDE DEF old
  <2>4. CASE f \in S
    <3>1. tracks[f] = [old(f) EXCEPT !.obs = @ \union {id}]
      BY <2>4
    <3>2. tracks[f] \in Track /\ tracks[f].last = old(f).last /\ tracks[f].obs = old(f).obs \union {id}
      BY <1>1, <2>1, <3>1 DEF Track
    <3> QED
      BY <2>2, <2>3, <3>2
  <2>5. CASE f \notin S
    BY <1>1, <2>5
  <2> QED
    BY <2>4, <2>5
<1> HIDE DEF tracks
<1>5. /\ Fields(v) /\ v.order = w.order /\ v.cameras = w.cameras
      /\ v.idOf = w.idOf /\ v.blocks = w.blocks /\ v.nextId = w.nextId
      /\ v.tracks = tracks /\ v.fused = w.fused /\ v.intrinsics = TRUE
  BY <1>2, <1>3 DEF Fields
<1>6. \A f \in DOMAIN w.tracks :
         /\ w.tracks[f].obs # {} /\ w.tracks[f].obs \subseteq ToSet(w.order)
         /\ w.tracks[f].last # NoId => <<f, w.tracks[f].last>> \in w.fused
  BY DEF GoodWindow, TracksObserved, MarksCorrect
<1>7. TracksObserved(v)
  <2>1. ASSUME NEW f \in DOMAIN tracks
        PROVE  tracks[f].obs # {} /\ tracks[f].obs \subseteq ToSet(w.order)
    <3>1. CASE f \in DOMAIN w.tracks
      BY <1>4, <1>6, <3>1
    <3>2. CASE f \notin DOMAIN w.tracks
      BY <1>4, <3>2
    <3> QED
      BY <3>1, <3>2
  <2> QED
    BY <1>5, <2>1 DEF TracksObserved
<1>8. MarksCorrect(v)
  <2>1. \A f \in DOMAIN tracks : tracks[f].last # NoId => <<f, tracks[f].last>> \in w.fused
    BY <1>4, <1>6
  <2>2. ASSUME NEW q \in w.fused
        PROVE  /\ q[2] < w.nextId
               /\ q[2] \in ToSet(w.order) => /\ q[1] \in DOMAIN tracks
                                             /\ q[2] \in tracks[q[1]].obs
                                             /\ q[2] <= tracks[q[1]].last
               /\ q[2] \notin ToSet(w.order) => \A i \in ToSet(w.order) : q[2] < i
    <3>1. /\ q[2] < w.nextId
          /\ q[2] \in ToSet(w.order) => /\ q[1] \in DOMAIN w.tracks
                                        /\ q[2] \in w.tracks[q[1]].obs
                                        /\ q[2] <= w.tracks[q[1]].last
          /\ q[2] \notin ToSet(w.order) => \A i \in ToSet(w.order) : q[2] < i
      BY DEF GoodWindow, MarksCorrect
    <3> QED
      BY <1>4, <3>1
  <2> QED
    BY <1>5, <2>1, <2>2 DEF MarksCorrect
<1>9. v.tracks \in [DOMAIN v.tracks -> Track]
  <2>1. tracks = [f \in DOMAIN tracks |-> tracks[f]]
    BY DEF tracks
  <2> QED
    BY <1>4, <1>5, <2>1
<1> QED
  <2>1. \A q \in v.fused : q = <<q[1], q[2]>> /\ q[2] \in Nat
    BY <1>5 DEF GoodWindow, WindowType
  <2>2. v.intrinsics \in BOOLEAN
    BY <1>5
  <2> QED
    BY <1>5, <1>7, <1>8, <1>9, <2>1, <2>2, TracksChanged

(* Some tracks are given a landmark.                                       *)
LEMMA LandmarksGood ==
    ASSUME NEW w, GoodWindow(w), NEW solved, NEW v, v = try_initialize_landmarks(w, solved)
    PROVE  GoodWindow(v) /\ v.order = w.order /\ DOMAIN v.tracks = DOMAIN w.tracks
<1> DEFINE tracks == [f \in DOMAIN w.tracks |->
                         [w.tracks[f] EXCEPT !.landmark = @ \/ f \in solved]]
<1>1. Fields(w) /\ w.tracks \in [DOMAIN w.tracks -> Track] /\ w.intrinsics \in BOOLEAN
  BY WindowFields DEF GoodWindow, WindowType
<1>2. v = [w EXCEPT !.tracks = tracks]
  BY DEF try_initialize_landmarks
<1>3. \A f \in DOMAIN w.tracks :
         /\ tracks[f] \in Track
         /\ tracks[f].last = w.tracks[f].last /\ tracks[f].obs = w.tracks[f].obs
  <2> SUFFICES ASSUME NEW f \in DOMAIN w.tracks
               PROVE  /\ tracks[f] \in Track
                      /\ tracks[f].last = w.tracks[f].last /\ tracks[f].obs = w.tracks[f].obs
    OBVIOUS
  <2>1. w.tracks[f] \in Track /\ (w.tracks[f].landmark \/ f \in solved) \in BOOLEAN
    BY <1>1
  <2>2. tracks[f] = [w.tracks[f] EXCEPT !.landmark = w.tracks[f].landmark \/ f \in solved]
    OBVIOUS
  <2> QED
    BY <2>1, <2>2 DEF Track
<1>4. DOMAIN tracks = DOMAIN w.tracks /\ tracks \in [DOMAIN tracks -> Track]
  BY <1>3
<1> HIDE DEF tracks
<1>5. /\ Fields(v) /\ v.order = w.order /\ v.cameras = w.cameras
      /\ v.idOf = w.idOf /\ v.blocks = w.blocks /\ v.nextId = w.nextId
      /\ v.tracks = tracks /\ v.fused = w.fused /\ v.intrinsics = w.intrinsics
  BY <1>1, <1>2 DEF Fields
<1>6. TracksObserved(v)
  BY <1>3, <1>4, <1>5 DEF TracksObserved, GoodWindow
<1>7. MarksCorrect(v)
  BY <1>3, <1>4, <1>5 DEF MarksCorrect, GoodWindow
<1> QED
  <2>1. \A q \in v.fused : q = <<q[1], q[2]>> /\ q[2] \in Nat
    BY <1>5 DEF GoodWindow, WindowType
  <2> QED
    BY <1>1, <1>4, <1>5, <1>6, <1>7, <2>1, TracksChanged

(* The accepted tracks correct the state: their marks and the corrections  *)
(* go together.                                                            *)
LEMMA ApplyGood ==
    ASSUME NEW w, GoodWindow(w), NEW accepted, accepted \subseteq DOMAIN w.tracks,
           NEW v, v = try_apply_feature_updates(w, accepted)
    PROVE  GoodWindow(v) /\ v.order = w.order
<1> DEFINE newest(f) == Newest(w.tracks[f].obs)
           tracks == [f \in DOMAIN w.tracks |->
                         IF f \in accepted THEN [w.tracks[f] EXCEPT !.last = newest(f)]
                         ELSE w.tracks[f]]
           fused == w.fused \union {<<f, newest(f)>> : f \in accepted}
<1>1. /\ Fields(w) /\ w.tracks \in [DOMAIN w.tracks -> Track] /\ w.intrinsics \in BOOLEAN
      /\ ToSet(w.order) \subseteq Nat /\ w.nextId \in Nat
      /\ \A q \in w.fused : q = <<q[1], q[2]>> /\ q[2] \in Nat
  BY WindowFields DEF GoodWindow, WindowType
<1>2. v = [w EXCEPT !.fused = fused, !.tracks = tracks]
  BY SynchronizedAlready DEF try_apply_feature_updates
<1>3. \A f \in DOMAIN w.tracks : w.tracks[f].obs # {} /\ w.tracks[f].obs \subseteq ToSet(w.order)
  BY DEF GoodWindow, TracksObserved
<1>4. \A i \in ToSet(w.order) : i \in Nat /\ i < w.nextId
  BY <1>1 DEF GoodWindow, ClonesInOrder
<1>5. ASSUME NEW f \in DOMAIN w.tracks
      PROVE  /\ newest(f) \in w.tracks[f].obs /\ newest(f) \in ToSet(w.order)
             /\ newest(f) \in Nat /\ newest(f) < w.nextId
             /\ \A i \in w.tracks[f].obs : i <= newest(f)
  <2>1. \A i \in w.tracks[f].obs : i \in Nat /\ i <= w.nextId
    BY <1>1, <1>3, <1>4
  <2>2. newest(f) \in w.tracks[f].obs /\ \A i \in w.tracks[f].obs : i <= newest(f)
    BY <1>1, <1>3, <2>1, NewestIsGreatest
  <2> QED
    BY <1>3, <1>4, <2>2
<1> HIDE DEF newest
<1>6. \A f \in DOMAIN w.tracks :
         /\ tracks[f] \in Track /\ tracks[f].obs = w.tracks[f].obs
         /\ f \in accepted => tracks[f].last = newest(f)
         /\ f \notin accepted => tracks[f].last = w.tracks[f].last
  BY <1>1, <1>5 DEF Track
<1>7. DOMAIN tracks = DOMAIN w.tracks /\ tracks \in [DOMAIN tracks -> Track]
  BY <1>6
<1>8. \A q \in fused :
         /\ q = <<q[1], q[2]>> /\ q[2] \in Nat
         /\ q \in w.fused \/ (q[1] \in accepted /\ q[2] = newest(q[1]))
  BY <1>1, <1>5
<1>9. w.fused \subseteq fused /\ \A f \in accepted : <<f, newest(f)>> \in fused
  OBVIOUS
<1> HIDE DEF tracks, fused
<1>10. /\ Fields(v) /\ v.order = w.order /\ v.cameras = w.cameras
       /\ v.idOf = w.idOf /\ v.blocks = w.blocks /\ v.nextId = w.nextId
       /\ v.tracks = tracks /\ v.fused = fused /\ v.intrinsics = w.intrinsics
  BY <1>1, <1>2 DEF Fields
<1>11. TracksObserved(v)
  BY <1>3, <1>6, <1>7, <1>10 DEF TracksObserved
<1>12. MarksCorrect(v)
  <2>1. ASSUME NEW f \in DOMAIN tracks, tracks[f].last # NoId
        PROVE  <<f, tracks[f].last>> \in fused
    <3>1. CASE f \in accepted
      BY <1>6, <1>7, <1>9, <3>1
    <3>2. CASE f \notin accepted
      BY <1>6, <1>7, <1>9, <2>1, <3>2 DEF GoodWindow, MarksCorrect
    <3> QED
      BY <3>1, <3>2
  <2>2. ASSUME NEW q \in fused
        PROVE  /\ q[2] < w.nextId
               /\ q[2] \in ToSet(w.order) => /\ q[1] \in DOMAIN tracks
                                             /\ q[2] \in tracks[q[1]].obs
                                             /\ q[2] <= tracks[q[1]].last
               /\ q[2] \notin ToSet(w.order) => \A i \in ToSet(w.order) : q[2] < i
    <3>1. CASE q \in w.fused
      <4>1. /\ q[2] < w.nextId /\ q[2] \in Nat
            /\ q[2] \in ToSet(w.order) => /\ q[1] \in DOMAIN w.tracks
                                          /\ q[2] \in w.tracks[q[1]].obs
                                          /\ q[2] <= w.tracks[q[1]].last
            /\ q[2] \notin ToSet(w.order) => \A i \in ToSet(w.order) : q[2] < i
        BY <1>1, <3>1 DEF GoodWindow, MarksCorrect
      <4>2. q[1] \in DOMAIN w.tracks /\ q[1] \in accepted /\ q[2] \in w.tracks[q[1]].obs
               => q[2] <= tracks[q[1]].last
        BY <1>5, <1>6
      <4>3. q[1] \in DOMAIN w.tracks /\ q[1] \notin accepted
               => tracks[q[1]].last = w.tracks[q[1]].last
        BY <1>6
      <4> QED
        BY <1>6, <1>7, <4>1, <4>2, <4>3
    <3>2. CASE q[1] \in accepted /\ q[2] = newest(q[1])
      BY <1>5, <1>6, <1>7, <3>2
    <3> QED
      BY <1>8, <3>1, <3>2
  <2> QED
    BY <1>10, <2>1, <2>2 DEF MarksCorrect
<1> QED
  BY <1>1, <1>7, <1>8, <1>10, <1>11, <1>12, TracksChanged

(* The oldest clone goes: with it its stamp, its block and the             *)
(* observations made from it.                                              *)
LEMMA CommitGood ==
    ASSUME NEW w, GoodWindow(w), w.order # <<>>,
           NEW v, v = commit_retirement(w, Head(w.order))
    PROVE  /\ GoodWindow(v) /\ Len(v.order) = Len(w.order) - 1
           /\ ToSet(v.order) \subseteq ToSet(w.order)
           /\ \A i \in ToSet(v.order) : v.cameras[i] = w.cameras[i]
<1> DEFINE id == Head(w.order)
           cameras == Without(w.cameras, {id})
           idOf == Without(w.idOf, {w.cameras[id]})
           tracks == prune(w.tracks, id)
<1>1. /\ Fields(w) /\ w.tracks \in [DOMAIN w.tracks -> Track] /\ w.intrinsics \in BOOLEAN
      /\ w.order \in Seq(Nat) /\ w.blocks = w.order
      /\ ToSet(w.order) \subseteq Nat /\ w.nextId \in Nat \ {NoId}
      /\ w.cameras \in [ToSet(w.order) -> Nat] /\ w.idOf \in [DOMAIN w.idOf -> Nat]
      /\ \A q \in w.fused : q = <<q[1], q[2]>> /\ q[2] \in Nat
  BY WindowFields DEF GoodWindow, WindowType, ClonesInOrder
<1>2. /\ Increasing(w.order) /\ \A i \in ToSet(w.order) : i # NoId /\ i < w.nextId
      /\ \A i, j \in ToSet(w.order) : i < j => w.cameras[i] < w.cameras[j]
  BY DEF GoodWindow, ClonesInOrder
<1>3. /\ Tail(w.order) \in Seq(Nat) /\ Len(Tail(w.order)) = Len(w.order) - 1
      /\ id \in ToSet(w.order) /\ ToSet(Tail(w.order)) = ToSet(w.order) \ {id}
      /\ Increasing(Tail(w.order)) /\ \A i \in ToSet(Tail(w.order)) : id < i
  BY <1>1, <1>2, TailIds
<1>4. v = [w EXCEPT !.order = Tail(w.order), !.blocks = Tail(w.order), !.cameras = cameras,
                    !.idOf = idOf, !.tracks = tracks]
  BY <1>1 DEF commit_retirement
<1>5. /\ cameras \in [ToSet(Tail(w.order)) -> Nat]
      /\ \A i \in ToSet(Tail(w.order)) : cameras[i] = w.cameras[i]
  BY <1>1, <1>3 DEF Without
<1>6. /\ DOMAIN idOf = DOMAIN w.idOf \ {w.cameras[id]} /\ idOf \in [DOMAIN idOf -> Nat]
      /\ \A k \in DOMAIN idOf : idOf[k] = w.idOf[k]
  BY <1>1 DEF Without
<1>7. /\ DOMAIN tracks = {f \in DOMAIN w.tracks : w.tracks[f].obs \ {id} # {}}
      /\ tracks \in [DOMAIN tracks -> Track]
      /\ \A f \in DOMAIN tracks :
            tracks[f].obs = w.tracks[f].obs \ {id} /\ tracks[f].last = w.tracks[f].last
  <2> DEFINE left == [f \in DOMAIN w.tracks |-> [w.tracks[f] EXCEPT !.obs = @ \ {id}]]
  <2>1. \A f \in DOMAIN w.tracks : /\ left[f] \in Track /\ left[f].obs = w.tracks[f].obs \ {id}
                                   /\ left[f].last = w.tracks[f].last
    BY <1>1 DEF Track
  <2>2. DOMAIN left = DOMAIN w.tracks
    OBVIOUS
  <2>3. tracks = Without(left, {f \in DOMAIN left : left[f].obs = {}})
    BY DEF prune
  <2> HIDE DEF left, tracks
  <2> QED
    BY <2>1, <2>2, <2>3 DEF Without
<1> HIDE DEF id, cameras, idOf, tracks
<1>8. /\ Fields(v) /\ v.order = Tail(w.order) /\ v.blocks = Tail(w.order)
      /\ v.cameras = cameras /\ v.idOf = idOf /\ v.nextId = w.nextId
      /\ v.tracks = tracks /\ v.fused = w.fused /\ v.intrinsics = w.intrinsics
  BY <1>1, <1>4 DEF Fields
<1>9. WindowType(v)
  <2>1. v \in [order : Seq(Nat), cameras : {v.cameras}, idOf : {v.idOf}, blocks : Seq(Nat),
              nextId : Nat \ {NoId}, tracks : {v.tracks}, fused : {v.fused},
              intrinsics : BOOLEAN]
    BY <1>1, <1>3, <1>8 DEF Fields
  <2> QED
    BY <1>1, <1>5, <1>6, <1>7, <1>8, <2>1 DEF WindowType
<1>10. ClonesInOrder(v)
  BY <1>2, <1>3, <1>5, <1>8 DEF ClonesInOrder
<1>11. StampsIndexed(v)
  <2>1. /\ DOMAIN w.idOf = {w.cameras[i] : i \in ToSet(w.order)}
        /\ \A i \in ToSet(w.order) : w.idOf[w.cameras[i]] = i
    BY DEF GoodWindow, StampsIndexed
  <2>2. \A i \in ToSet(Tail(w.order)) : w.cameras[i] # w.cameras[id]
    BY <1>3, <2>1
  <2>3. DOMAIN idOf = {cameras[i] : i \in ToSet(Tail(w.order))}
    BY <1>3, <1>5, <1>6, <2>1, <2>2
  <2>4. \A i \in ToSet(Tail(w.order)) : idOf[cameras[i]] = i
    BY <1>3, <1>5, <1>6, <2>1, <2>2
  <2> QED
    BY <1>8, <2>3, <2>4 DEF StampsIndexed
<1>12. TracksObserved(v)
  <2>1. \A f \in DOMAIN w.tracks : w.tracks[f].obs \subseteq ToSet(w.order)
    BY DEF GoodWindow, TracksObserved
  <2> QED
    BY <1>3, <1>7, <1>8, <2>1 DEF TracksObserved
<1>13. MarksCorrect(v)
  <2>1. \A f \in DOMAIN tracks : tracks[f].last # NoId => <<f, tracks[f].last>> \in w.fused
    BY <1>7 DEF GoodWindow, MarksCorrect
  <2>2. ASSUME NEW q \in w.fused
        PROVE  /\ q[2] < w.nextId
               /\ q[2] \in ToSet(Tail(w.order)) => /\ q[1] \in DOMAIN tracks
                                                   /\ q[2] \in tracks[q[1]].obs
                                                   /\ q[2] <= tracks[q[1]].last
               /\ q[2] \notin ToSet(Tail(w.order)) => \A i \in ToSet(Tail(w.order)) : q[2] < i
    <3>1. /\ q[2] < w.nextId /\ q[2] \in Nat
          /\ q[2] \in ToSet(w.order) => /\ q[1] \in DOMAIN w.tracks
                                        /\ q[2] \in w.tracks[q[1]].obs
                                        /\ q[2] <= w.tracks[q[1]].last
          /\ q[2] \notin ToSet(w.order) => \A i \in ToSet(w.order) : q[2] < i
      BY <1>1 DEF GoodWindow, MarksCorrect
    <3>2. CASE q[2] \in ToSet(Tail(w.order))
      BY <1>3, <1>7, <3>1, <3>2
    <3>3. CASE q[2] = id
      BY <1>3, <3>1, <3>3
    <3>4. CASE q[2] \notin ToSet(w.order)
      BY <1>3, <3>1, <3>4
    <3> QED
      BY <1>3, <3>2, <3>3, <3>4
  <2> QED
    BY <1>8, <2>1, <2>2 DEF MarksCorrect
<1> QED
  BY <1>3, <1>5, <1>8, <1>9, <1>10, <1>11, <1>12, <1>13 DEF GoodWindow

(* Whatever becomes of a retirement, the window is good: it keeps its      *)
(* clones, or loses the oldest.                                            *)
LEMMA EvictionsGood ==
    ASSUME NEW w, GoodWindow(w), w.order # <<>>, NEW updates,
           NEW v \in WindowsAfterEviction(w, updates)
    PROVE  /\ GoodWindow(v)
           /\ v.order = w.order \/ Len(v.order) = Len(w.order) - 1
           /\ ToSet(v.order) \subseteq ToSet(w.order)
           /\ \A i \in ToSet(v.order) : v.cameras[i] = w.cameras[i]
<1> DEFINE oldest == Head(w.order)
           Good(u) == /\ GoodWindow(u)
                      /\ u.order = w.order \/ Len(u.order) = Len(w.order) - 1
                      /\ ToSet(u.order) \subseteq ToSet(w.order)
                      /\ \A i \in ToSet(u.order) : u.cameras[i] = w.cameras[i]
<1>1. RetirementUpdatable(w) \subseteq DOMAIN w.tracks
  BY DEF RetirementUpdatable, Updatable
<1>2. PICK accepted \in SUBSET RetirementUpdatable(w) :
         v \in {evict(w, accepted, healthy) : healthy \in BOOLEAN}
  BY DEF WindowsAfterEviction
<1> DEFINE corrected == try_apply_feature_updates(w, accepted)
           updated == IF ConstraintCandidates(w, oldest) = {} THEN w ELSE corrected
<1>3. GoodWindow(updated) /\ updated.order = w.order /\ updated.cameras = w.cameras
  <2>1. GoodWindow(corrected) /\ corrected.order = w.order
    BY <1>1, <1>2, ApplyGood
  <2>2. corrected.cameras = w.cameras
    BY SynchronizedAlready, WindowFields DEF try_apply_feature_updates, GoodWindow, Fields
  <2> QED
    BY <2>1, <2>2
<1>4. v \in {w, commit_retirement(updated, oldest)}
  BY <1>2 DEF evict, restore_pre_retirement
<1> HIDE DEF updated
<1>5. Good(commit_retirement(updated, oldest))
  <2> DEFINE u == commit_retirement(updated, Head(updated.order))
  <2>1. updated.order # <<>> /\ commit_retirement(updated, oldest) = u
    BY <1>3
  <2>2. /\ GoodWindow(u) /\ Len(u.order) = Len(updated.order) - 1
        /\ ToSet(u.order) \subseteq ToSet(updated.order)
        /\ \A i \in ToSet(u.order) : u.cameras[i] = updated.cameras[i]
    BY <1>3, <2>1, CommitGood
  <2> HIDE DEF u
  <2> QED
    BY <1>3, <2>1, <2>2
<1>6. Good(w)
  OBVIOUS
<1> QED
  BY <1>4, <1>5, <1>6

(* Nor does the handling of a frame for a clone of the window disturb it.  *)
LEMMA FramesGood ==
    ASSUME NEW c, GoodWindow(c), NEW key \in DOMAIN c.idOf, NEW S, NEW updates,
           NEW v \in WindowsAfterFrame(c, key, S, updates)
    PROVE  GoodWindow(v) /\ v.order = c.order /\ v.cameras = c.cameras
<1> DEFINE id == c.idOf[key]
           recorded == record_features([c EXCEPT !.intrinsics = TRUE], id, S)
<1>1. id \in ToSet(c.order)
  BY DEF GoodWindow, StampsIndexed
<1>2. GoodWindow(recorded) /\ recorded.order = c.order
  BY <1>1, RecordGood
<1>3. recorded.cameras = c.cameras
  BY WindowFields DEF record_features, GoodWindow, Fields
<1> HIDE DEF id, recorded
<1>4. PICK solved \in Triangulations(recorded) :
         v \in {try_apply_feature_updates(try_initialize_landmarks(recorded, solved), accepted) :
                   accepted \in IF updates
                                THEN GatedUpdates(try_initialize_landmarks(recorded, solved), id)
                                ELSE {{}}}
  BY DEF WindowsAfterFrame, id, recorded
<1> DEFINE found == try_initialize_landmarks(recorded, solved)
<1>5. GoodWindow(found) /\ found.order = c.order /\ found.cameras = c.cameras
  <2>1. found.cameras = recorded.cameras
    BY <1>2, WindowFields DEF try_initialize_landmarks, GoodWindow, Fields
  <2> QED
    BY <1>2, <1>3, <2>1, LandmarksGood
<1> HIDE DEF found
<1>6. PICK accepted : accepted \subseteq DOMAIN found.tracks
                      /\ v = try_apply_feature_updates(found, accepted)
  <2>1. \A a \in GatedUpdates(found, id) : a \subseteq DOMAIN found.tracks
    BY DEF GatedUpdates, Updatable
  <2>2. v \in {try_apply_feature_updates(found, a) : a \in GatedUpdates(found, id) \union {{}}}
    BY <1>4 DEF found
  <2> QED
    BY <2>1, <2>2
<1>7. GoodWindow(v) /\ v.order = found.order
  BY <1>5, <1>6, ApplyGood
<1>8. v.cameras = found.cameras
  BY <1>5, <1>6, SynchronizedAlready, WindowFields DEF try_apply_feature_updates, GoodWindow, Fields
<1> QED
  BY <1>5, <1>7, <1>8

(***************************************************************************)
(* The detector of rest.                                                   *)
(***************************************************************************)

(* The detector as DetectorType describes it.                              *)
DetectorForm(d) ==
    d \in [samples : Seq([at : Time, motion : Motion]), candidate : {d.candidate},
           start : {d.start}, detected : BOOLEAN, lastZupt : Int,
           open : Int, billed : Int, applied : Nat]

LEMMA PushedSamples ==
    ASSUME NEW S, NEW samples \in Seq(S), NEW x \in S
    PROVE  Pushed(samples, x) \in Seq(S)
<1>1. /\ Append(samples, x) \in Seq(S)
      /\ Len(Append(samples, x)) = Len(samples) + 1 /\ Len(samples) \in Nat
  OBVIOUS
<1>2. Append(samples, x) # <<>>
  BY <1>1
<1>3. Tail(Append(samples, x)) \in Seq(S)
  BY <1>1, <1>2
<1> QED
  BY <1>1, <1>3 DEF Pushed

(* Quiet samples are calm ones.                                            *)
LEMMA QuietIsCalm ==
    ASSUME NEW S, NEW samples \in Seq(S)
    PROVE  /\ CountOf(samples, {"quiet"}) \in Nat /\ CountOf(samples, {"quiet", "calm"}) \in Nat
           /\ CountOf(samples, {"quiet"}) <= CountOf(samples, {"quiet", "calm"})
<1> DEFINE quiet == {i \in DOMAIN samples : samples[i].motion \in {"quiet"}}
           calm == {i \in DOMAIN samples : samples[i].motion \in {"quiet", "calm"}}
<1>1. DOMAIN samples = 1 .. Len(samples) /\ Len(samples) \in Nat
  OBVIOUS
<1>2. IsFiniteSet(DOMAIN samples)
  BY <1>1, FS_Interval
<1>3. IsFiniteSet(calm) /\ quiet \subseteq calm
  BY <1>2, FS_Subset
<1>4. IsFiniteSet(quiet) /\ Cardinality(quiet) <= Cardinality(calm)
  BY <1>3, FS_Subset
<1>5. Cardinality(quiet) \in Nat /\ Cardinality(calm) \in Nat
  BY <1>3, <1>4, FS_CardinalityType
<1> QED
  BY <1>4, <1>5 DEF CountOf

(* A sample changes neither the number of updates nor what the intervals   *)
(* account for; and a detector at rest has calm samples enough, if rest    *)
(* asks for no more calm samples to go on than quiet ones to begin.        *)
LEMMA UpdatedDetector ==
    ASSUME NEW d, DetectorForm(d), OpenInterval(d) = d.open,
           NEW t \in Time, NEW motion \in Motion,
           NEW u, u = update_stationary_detector(d, t, motion)
    PROVE  /\ DetectorForm(u) /\ OpenInterval(u) = u.open /\ u.applied = d.applied
           /\ ExitCount <= EnterCount /\ u.detected
                 => CountOf(u.samples, {"quiet", "calm"}) >= ExitCount
<1> DEFINE pushed == [d EXCEPT !.samples = Pushed(d.samples, [at |-> t, motion |-> motion])]
           Kept(e) == /\ DetectorForm(e) /\ e.applied - e.billed = e.open
                      /\ e.applied = d.applied /\ e.samples = pushed.samples
<1>1. Kept(pushed) /\ pushed.detected = d.detected
  <2>1. Pushed(d.samples, [at |-> t, motion |-> motion]) \in Seq([at : Time, motion : Motion])
    BY PushedSamples DEF DetectorForm
  <2> QED
    BY <2>1 DEF DetectorForm, OpenInterval
<1>2. u = IF d.detected THEN AtRest(pushed) ELSE Moving(pushed, t)
  BY DEF update_stationary_detector
<1>3. /\ CountOf(pushed.samples, {"quiet"}) \in Nat
      /\ CountOf(pushed.samples, {"quiet", "calm"}) \in Nat
      /\ CountOf(pushed.samples, {"quiet"}) <= CountOf(pushed.samples, {"quiet", "calm"})
  BY <1>1, QuietIsCalm DEF DetectorForm
<1> HIDE DEF pushed
<1>4. EnterCount \in Nat /\ ExitCount \in Nat
  BY DetectorAssumption
<1>5. CASE d.detected
  <2>1. ASSUME NEW f, f = finalize(pushed) PROVE Kept(f)
    <3>1. CASE pushed.start = Never
      BY <1>1, <2>1, <3>1 DEF finalize
    <3>2. CASE pushed.start # Never
      <4>1. f = [pushed EXCEPT !.billed = pushed.billed + pushed.open, !.start = Never, !.open = 0]
        BY <2>1, <3>2 DEF finalize
      <4>2. /\ DetectorForm(pushed) /\ pushed.applied \in Int /\ pushed.billed \in Int
            /\ pushed.open \in Int /\ pushed.applied - pushed.billed = pushed.open
        BY <1>1 DEF DetectorForm
      <4>3. /\ DetectorForm(f) /\ f.applied = pushed.applied /\ f.samples = pushed.samples
            /\ f.billed = pushed.billed + pushed.open /\ f.open = 0
        <5> DEFINE b == pushed.billed + pushed.open
        <5>1. b \in Int
          BY <4>2
        <5> HIDE DEF b
        <5>2. f = [pushed EXCEPT !.billed = b, !.start = Never, !.open = 0]
          BY <4>1 DEF b
        <5>3. f \in [samples : {pushed.samples}, candidate : {pushed.candidate},
                     start : {Never}, detected : {pushed.detected},
                     lastZupt : {pushed.lastZupt}, open : {0}, billed : {b},
                     applied : {pushed.applied}]
          BY <4>2, <5>2 DEF DetectorForm
        <5>4. DetectorForm(f)
          BY <4>2, <5>1, <5>3 DEF DetectorForm
        <5> QED
          BY <5>3, <5>4 DEF b
      <4>4. f.applied - f.billed = f.open
        BY <4>2, <4>3
      <4> QED
        BY <1>1, <4>3, <4>4
    <3> QED
      BY <3>1, <3>2
  <2>2. ASSUME NEW f, Kept(f), NEW e, e = [f EXCEPT !.detected = FALSE, !.candidate = Never]
        PROVE  Kept(e) /\ ~ e.detected
    BY <2>2 DEF DetectorForm
  <2>3. CASE CountOf(pushed.samples, {"quiet", "calm"}) < ExitCount
    <3>1. u = [finalize(pushed) EXCEPT !.detected = FALSE, !.candidate = Never]
      BY <1>2, <1>5, <2>3 DEF AtRest
    <3> QED
      BY <2>1, <2>2, <3>1 DEF OpenInterval
  <2>4. CASE ~ (CountOf(pushed.samples, {"quiet", "calm"}) < ExitCount)
    <3>1. u = pushed
      BY <1>2, <1>5, <2>4 DEF AtRest
    <3> QED
      BY <1>1, <1>3, <1>4, <2>4, <3>1 DEF OpenInterval
  <2> QED
    BY <2>3, <2>4
<1>6. CASE ~ d.detected
  <2>1. ASSUME NEW from, u = [pushed EXCEPT !.candidate = from]
        PROVE  Kept(u) /\ ~ u.detected
    BY <1>1, <1>6, <2>1 DEF DetectorForm
  <2>2. ASSUME NEW from,
               u = [pushed EXCEPT !.detected = TRUE, !.start = from, !.candidate = Never]
        PROVE  Kept(u)
    BY <1>1, <2>2 DEF DetectorForm
  <2>3. CASE CountOf(pushed.samples, {"quiet"}) < EnterCount
    <3>1. u = [pushed EXCEPT !.candidate = Never]
      BY <1>2, <1>6, <2>3 DEF Moving
    <3> QED
      BY <2>1, <3>1 DEF OpenInterval
  <2>4. CASE ~ (CountOf(pushed.samples, {"quiet"}) < EnterCount)
    <3>1. PICK from :
             \/ u = [pushed EXCEPT !.candidate = from]
             \/ u = [pushed EXCEPT !.detected = TRUE, !.start = from, !.candidate = Never]
      BY <1>2, <1>6, <2>4 DEF Moving
    <3>2. Kept(u)
      BY <2>1, <2>2, <3>1
    <3> QED
      BY <1>3, <1>4, <2>4, <3>2 DEF OpenInterval
  <2> QED
    BY <2>3, <2>4
<1> QED
  BY <1>5, <1>6

(* An accepted update is charged at once, and comes only at rest.          *)
LEMMA DetectorAfter ==
    ASSUME NEW d, DetectorForm(d), OpenInterval(d) = d.open,
           NEW before, NEW after, NEW t \in Time, NEW motion \in Motion, NEW enabled, NEW fit,
           NEW u, u = detector_after(d, before, after, t, motion, enabled, fit)
    PROVE  /\ DetectorForm(u) /\ OpenInterval(u) = u.open
           /\ ExitCount <= EnterCount /\ u.applied > d.applied
                 => CountOf(u.samples, {"quiet", "calm"}) >= ExitCount
<1>1. CASE u = d
  BY <1>1 DEF DetectorForm
<1>2. CASE u = maybe_apply_automatic_zupt(update_stationary_detector(d, t, motion), t, fit)
  <2> DEFINE e == update_stationary_detector(d, t, motion)
             billed == [e EXCEPT !.lastZupt = t, !.applied = @ + 1,
                                 !.open = IF e.detected THEN @ + 1 ELSE @]
  <2>1. /\ DetectorForm(e) /\ OpenInterval(e) = e.open /\ e.applied = d.applied
        /\ ExitCount <= EnterCount /\ e.detected
              => CountOf(e.samples, {"quiet", "calm"}) >= ExitCount
    BY UpdatedDetector
  <2> HIDE DEF e
  <2>2. u = e \/ (e.detected /\ u = billed)
    BY <1>2 DEF maybe_apply_automatic_zupt, ZuptDue, e
  <2>3. t \in Int
    BY FrontendAssumption DEF Time
  <2>4. CASE u = e
    BY <2>1, <2>4 DEF DetectorForm
  <2>5. CASE e.detected /\ u = billed
    <3>1. u = [e EXCEPT !.lastZupt = t, !.applied = e.applied + 1, !.open = e.open + 1]
      BY <2>5
    <3>2. /\ e.applied - e.billed = e.open /\ e.applied \in Nat /\ e.billed \in Int
          /\ e.open \in Int
      BY <2>1 DEF DetectorForm, OpenInterval
    <3>3. /\ DetectorForm(u) /\ u.applied = e.applied + 1 /\ u.open = e.open + 1
          /\ u.billed = e.billed /\ u.samples = e.samples
      <4>1. e.applied + 1 \in Nat /\ e.open + 1 \in Int
        BY <3>2
      <4> DEFINE a == e.applied + 1
                 o == e.open + 1
      <4> HIDE DEF a, o
      <4>2. u = [e EXCEPT !.lastZupt = t, !.applied = a, !.open = o]
        BY <3>1 DEF a, o
      <4>3. a \in Nat /\ o \in Int
        BY <4>1 DEF a, o
      <4>4. /\ DetectorForm(u) /\ u.applied = a /\ u.open = o
            /\ u.billed = e.billed /\ u.samples = e.samples
        BY <2>1, <2>3, <4>2, <4>3 DEF DetectorForm
      <4> QED
        BY <4>4 DEF a, o
    <3> QED
      BY <2>1, <2>5, <3>2, <3>3 DEF OpenInterval
  <2> QED
    BY <2>2, <2>4, <2>5
<1> QED
  BY <1>1, <1>2 DEF detector_after

(***************************************************************************)
(* The inductive invariant.                                                *)
(***************************************************************************)

LEMMA FreshNumbers ==
    ASSUME NEW m \in Nat, NEW n \in Nat
    PROVE  Cardinality(m .. m + n - 1) = n
<1>1. m + n - 1 \in Int
  OBVIOUS
<1>2. Cardinality(m .. m + n - 1) = IF m > m + n - 1 THEN 0 ELSE m + n - 1 - m + 1
  BY <1>1, FS_Interval
<1> QED
  BY <1>2

(* What is begun anew is as it should be.                                  *)
LEMMA BegunAnew ==
    ASSUME NEW e, NEW s, s = reset(e, TRUE)
    PROVE  /\ s \in [initialized : BOOLEAN, imu : Nat \union {None}, clock : {0},
                     vision : {None, 0}, depth : {None, 0}]
           /\ DetectorForm(reset_stationary_detector)
           /\ OpenInterval(reset_stationary_detector) = reset_stationary_detector.open
           /\ GoodWindow(reset_msckf) /\ reset_msckf.order = <<>>
           /\ ToSet(reset_msckf.order) = {}
           /\ reset_tracks \in [point : {reset_tracks.point}, next : Nat]
           /\ DOMAIN reset_tracks.point = {}
<1>1. s \in [initialized : BOOLEAN, imu : Nat \union {None}, clock : {0},
             vision : {None, 0}, depth : {None, 0}]
  BY DEF reset, Blank
<1>2. DetectorForm(reset_stationary_detector)
  BY DEF DetectorForm, reset_stationary_detector, Never
<1>3. OpenInterval(reset_stationary_detector) = reset_stationary_detector.open
  BY DEF OpenInterval, reset_stationary_detector
<1>4. reset_msckf.order = <<>> /\ ToSet(<<>>) = {}
  BY DEF reset_msckf, ToSet
<1>5. /\ reset_tracks \in [point : {reset_tracks.point}, next : Nat]
      /\ DOMAIN reset_tracks.point = {}
  BY DEF reset_tracks
<1> QED
  BY <1>1, <1>2, <1>3, <1>4, <1>5, GoodReset

LEMMA InitialInv == Init => FrontendInv
<1> SUFFICES ASSUME Init PROVE FrontendInv
  OBVIOUS
<1> USE DEF Init
<1>1. ShadowType
  BY BegunAnew DEF ShadowType
<1>2. DetectorType /\ EveryZuptBilled
  BY BegunAnew DEF DetectorType, DetectorForm, EveryZuptBilled
<1>3. TracksNumbered
  BY BegunAnew DEF TracksNumbered
<1>4. WindowInv
  <2>1. Len(<<>>) = 0
    OBVIOUS
  <2>2. config.clones \in Nat
    BY FrontendAssumption
  <2>3. GoodWindow(window) /\ window.order = <<>> /\ ToSet(window.order) = {}
    BY BegunAnew
  <2>4. BoundedWindow
    BY <2>1, <2>2, <2>3 DEF BoundedWindow
  <2>5. ~ retiring
    OBVIOUS
  <2> QED
    BY <2>3, <2>4, <2>5 DEF WindowInv
<1> QED
  BY <1>1, <1>2, <1>3, <1>4 DEF FrontendInv

(* The filter's stamp only grows, except when it is begun anew.            *)
LEMMA StampGrows ==
    ASSUME ShadowType, NEW s, NEW t \in Time, NEW fit, NEW enabled,
           \/ s = eskf_process_imu(shadow, t, fit)
           \/ s = eskf_update_visual_pose(shadow, fit)
           \/ s = eskf_update_depth(shadow, enabled, fit)
    PROVE  /\ s \in [initialized : BOOLEAN, imu : Nat \union {None}, clock : {0},
                     vision : {None, 0}, depth : {None, 0}]
           /\ CloneKey(shadow) \in Nat /\ CloneKey(s) \in Nat /\ CloneKey(shadow) <= CloneKey(s)
<1>1. t \in Nat
  BY FrontendAssumption DEF Time
<1>2. shadow \in [initialized : BOOLEAN, imu : Nat \union {None}, clock : {0},
                  vision : {None, 0}, depth : {None, 0}]
  BY DEF ShadowType
<1>3. \/ s = shadow
      \/ s = [shadow EXCEPT !.imu = t] /\ (shadow.imu = None \/ t > shadow.imu)
      \/ s = [shadow EXCEPT !.vision = 0] \/ s = [shadow EXCEPT !.depth = 0]
  BY <1>2 DEF eskf_process_imu, eskf_update_visual_pose, eskf_update_depth, imu_step_valid
<1>4. CASE s = shadow
  BY <1>2, <1>4 DEF CloneKey, None
<1>5. CASE s = [shadow EXCEPT !.imu = t] /\ (shadow.imu = None \/ t > shadow.imu)
  BY <1>1, <1>2, <1>5 DEF CloneKey, None
<1>6. CASE s = [shadow EXCEPT !.vision = 0] \/ s = [shadow EXCEPT !.depth = 0]
  BY <1>2, <1>6 DEF CloneKey, None
<1> QED
  BY <1>3, <1>4, <1>5, <1>6

LEMMA WindowFacts ==
    ASSUME FrontendInv
    PROVE  /\ GoodWindow(window) /\ Len(window.order) \in Nat /\ config.clones \in Nat \ {0}
           /\ CloneKey(shadow) \in Nat
           /\ \A i \in ToSet(window.order) :
                 window.cameras[i] \in Nat /\ window.cameras[i] <= CloneKey(shadow)
<1>1. GoodWindow(window)
  BY DEF FrontendInv, WindowInv
<1>2. window.order \in Seq(Nat) /\ window.cameras \in [ToSet(window.order) -> Nat]
  BY <1>1, WindowFields DEF GoodWindow, WindowType
<1>3. CloneKey(shadow) \in Nat
  BY DEF FrontendInv, ShadowType, CloneKey, None
<1>4. config.clones \in Nat \ {0}
  BY FrontendAssumption DEF FrontendInv, ShadowType
<1> QED
  BY <1>1, <1>2, <1>3, <1>4 DEF FrontendInv, WindowInv

(* Both ways a pose reaches the shadow keep its window in order.           *)
LEMMA PoseKeepsWindow ==
    ASSUME FrontendInv, Ready, NEW fitActive, NEW fitShadow,
           ProcessVisualPose(fitActive, fitShadow), config' = config
    PROVE  ShadowType' /\ WindowInv'
<1> DEFINE key == CloneKey(shadow)
<1>1. /\ shadow' \in [initialized : BOOLEAN, imu : Nat \union {None}, clock : {0},
                      vision : {None, 0}, depth : {None, 0}]
      /\ key \in Nat /\ CloneKey(shadow') \in Nat /\ key <= CloneKey(shadow')
  <2>1. 0 \in Time
    BY FrontendAssumption DEF Time
  <2> QED
    BY <2>1, StampGrows DEF ProcessVisualPose, FrontendInv
<1>2. ShadowType'
  BY <1>1 DEF ShadowType, FrontendInv
<1>3. ASSUME GoodWindow(window'), \A i \in ToSet(window'.order) : window'.cameras[i] \in Nat
                                                              /\ window'.cameras[i] <= key
      PROVE  /\ GoodWindow(window)'
             /\ (\A i \in ToSet(window.order) : window.cameras[i] <= CloneKey(shadow))'
  <2>1. (CloneKey(shadow))' = CloneKey(shadow')
    BY DEF CloneKey
  <2> QED
    BY <1>1, <1>3, <2>1
<1>4. CASE UNCHANGED <<window, retiring, stuck>>
  <2>1. GoodWindow(window)' /\ (\A i \in ToSet(window.order) : window.cameras[i] <= CloneKey(shadow))'
    BY <1>3, <1>4, WindowFacts
  <2>2. (retiring => Overfull(window))' /\ BoundedWindow'
    BY <1>4 DEF FrontendInv, WindowInv, Overfull, BoundedWindow
  <2> QED
    BY <1>2, <2>1, <2>2 DEF WindowInv
<1>5. CASE /\ window' = capture_or_get(window, config.msckf, key)
           /\ retiring' = Overfull(window')
  <2>1. window' = window \/ window' = AtStamp(window, key)
    BY <1>5 DEF capture_or_get, AtStamp, Captured
  <2>2. /\ GoodWindow(window')
        /\ \A i \in ToSet(window'.order) : window'.cameras[i] <= key
    BY <1>1, <2>1, WindowFacts, CaptureGood
  <2>3. /\ window'.cameras \in [ToSet(window'.order) -> Nat] /\ Len(window'.order) \in Nat
    BY <2>2, WindowFields DEF GoodWindow, WindowType
  <2>4. GoodWindow(window)' /\ (\A i \in ToSet(window.order) : window.cameras[i] <= CloneKey(shadow))'
    BY <1>3, <2>2, <2>3
  <2>5. (retiring => Overfull(window))'
    BY <1>5 DEF Overfull
  <2>6. BoundedWindow'
    <3>1. ~ retiring' => ~ (Len(window'.order) > config'.clones)
      BY <1>5 DEF Overfull
    <3> QED
      BY <2>3, <3>1, WindowFacts DEF BoundedWindow
  <2> QED
    BY <1>2, <2>4, <2>5, <2>6 DEF WindowInv
<1> QED
  BY <1>4, <1>5 DEF ProcessVisualPose

LEMMA FeaturesKeepWindow == FrontendInv /\ SubmitFeatures => ShadowType' /\ WindowInv'
<1> SUFFICES ASSUME FrontendInv, SubmitFeatures PROVE ShadowType' /\ WindowInv'
  OBVIOUS
<1> DEFINE key == CloneKey(shadow)
<1>1. PICK fit \in BOOLEAN :
        /\ shadow' = eskf_update_visual_pose(shadow, fit)
        /\ IF ~ (fit /\ config.msckf) THEN UNCHANGED <<window, retiring, stuck>>
           ELSE \E c \in {capture_or_get(window, TRUE, key)} :
                    /\ window' \in WindowsAfterFrame(c, key, batch, config.update)
                    /\ retiring' = Overfull(c)
                    /\ stuck' = FALSE
  BY DEF SubmitFeatures
<1>2. /\ shadow' \in [initialized : BOOLEAN, imu : Nat \union {None}, clock : {0},
                      vision : {None, 0}, depth : {None, 0}]
      /\ key \in Nat /\ CloneKey(shadow') \in Nat /\ key <= CloneKey(shadow')
  <2>1. 0 \in Time
    BY FrontendAssumption DEF Time
  <2> QED
    BY <1>1, <2>1, StampGrows DEF FrontendInv
<1>3. ShadowType' /\ config' = config
  BY <1>2 DEF ShadowType, FrontendInv, SubmitFeatures
<1>4. (CloneKey(shadow))' = CloneKey(shadow')
  BY DEF CloneKey
<1>5. CASE UNCHANGED <<window, retiring, stuck>>
  <2>1. GoodWindow(window)' /\ (\A i \in ToSet(window.order) : window.cameras[i] <= CloneKey(shadow))'
    BY <1>2, <1>4, <1>5, WindowFacts
  <2>2. (retiring => Overfull(window))' /\ BoundedWindow'
    BY <1>3, <1>5 DEF FrontendInv, WindowInv, Overfull, BoundedWindow
  <2> QED
    BY <1>3, <2>1, <2>2 DEF WindowInv
<1>6. ASSUME NEW c, c = capture_or_get(window, TRUE, key),
             window' \in WindowsAfterFrame(c, key, batch, config.update),
             retiring' = Overfull(c)
      PROVE  WindowInv'
  <2>1. c = AtStamp(window, key)
    BY <1>6 DEF capture_or_get, AtStamp, Captured
  <2>2. /\ GoodWindow(c) /\ key \in DOMAIN c.idOf
        /\ \A i \in ToSet(c.order) : c.cameras[i] <= key
    BY <1>2, <2>1, WindowFacts, CaptureGood
  <2>3. GoodWindow(window') /\ window'.order = c.order /\ window'.cameras = c.cameras
    <3>1. window' \in WindowsAfterFrame(c, key, batch, config.update)
      BY <1>6
    <3> QED
      BY <2>2, <3>1, FramesGood
  <2>4. /\ c.cameras \in [ToSet(c.order) -> Nat] /\ Len(c.order) \in Nat
    BY <2>2, WindowFields DEF GoodWindow, WindowType
  <2>5. GoodWindow(window)' /\ (\A i \in ToSet(window.order) : window.cameras[i] <= CloneKey(shadow))'
    BY <1>2, <1>4, <2>2, <2>3, <2>4
  <2>6. (retiring => Overfull(window))'
    BY <1>3, <1>6, <2>3 DEF Overfull
  <2>7. BoundedWindow'
    <3>1. ~ retiring' => ~ (Len(window'.order) > config'.clones)
      BY <1>3, <1>6, <2>3 DEF Overfull
    <3> QED
      BY <1>3, <2>3, <2>4, <3>1, WindowFacts DEF BoundedWindow
  <2> QED
    BY <2>5, <2>6, <2>7 DEF WindowInv
<1> QED
  BY <1>1, <1>3, <1>5, <1>6

LEMMA RetireKeepsWindow == FrontendInv /\ Retire => ShadowType' /\ WindowInv'
<1> SUFFICES ASSUME FrontendInv, Retire PROVE ShadowType' /\ WindowInv'
  OBVIOUS
<1>1. /\ window' \in WindowsAfterEviction(window, config.update)
      /\ stuck' = (Len(window'.order) = Len(window.order))
      /\ retiring' = maybe_retire_more(window, window', config.clones)
      /\ config' = config /\ shadow' = shadow /\ retiring
  BY DEF Retire
<1>2. Len(window.order) > config.clones /\ window.order # <<>>
  BY <1>1, WindowFacts DEF FrontendInv, WindowInv, Overfull
<1>3. /\ GoodWindow(window')
      /\ window'.order = window.order \/ Len(window'.order) = Len(window.order) - 1
      /\ ToSet(window'.order) \subseteq ToSet(window.order)
      /\ \A i \in ToSet(window'.order) : window'.cameras[i] = window.cameras[i]
  BY <1>1, <1>2, WindowFacts, EvictionsGood
<1>4. ShadowType'
  BY <1>1 DEF ShadowType, FrontendInv
<1>5. GoodWindow(window)' /\ (\A i \in ToSet(window.order) : window.cameras[i] <= CloneKey(shadow))'
  BY <1>1, <1>3, WindowFacts DEF CloneKey
<1>6. (retiring => Overfull(window))'
  BY <1>1 DEF Overfull, maybe_retire_more
<1>7. BoundedWindow'
  <2>1. Len(window'.order) \in Nat
    BY <1>3, WindowFacts
  <2>2. CASE Len(window'.order) = Len(window.order)
    BY <1>1, <2>2 DEF BoundedWindow
  <2>3. CASE Len(window'.order) = Len(window.order) - 1
    <3>1. Len(window'.order) < Len(window.order)
      BY <2>1, <2>3, WindowFacts
    <3>2. ~ retiring' => ~ (Len(window'.order) > config'.clones)
      BY <1>1, <3>1 DEF maybe_retire_more
    <3> QED
      BY <1>1, <2>1, <3>2, WindowFacts DEF BoundedWindow
  <2> QED
    BY <1>3, <2>2, <2>3
<1> QED
  BY <1>4, <1>5, <1>6, <1>7 DEF WindowInv

LEMMA ResetKeepsInv ==
    ASSUME FrontendInv, ResetEstimators, ~ retiring', config' \in Configurations
    PROVE  FrontendInv'
<1> USE DEF ResetEstimators
<1>1. ShadowType'
  BY BegunAnew DEF ShadowType
<1>2. DetectorType' /\ EveryZuptBilled'
  BY BegunAnew DEF DetectorType, DetectorForm, EveryZuptBilled
<1>3. TracksNumbered'
  BY BegunAnew DEF TracksNumbered
<1>4. WindowInv'
  <2>1. Len(<<>>) = 0
    OBVIOUS
  <2>2. config'.clones \in Nat
    BY FrontendAssumption
  <2>3. GoodWindow(window') /\ window'.order = <<>> /\ ToSet(window'.order) = {}
    BY BegunAnew
  <2>4. BoundedWindow'
    BY <2>1, <2>2, <2>3 DEF BoundedWindow
  <2> QED
    BY <2>3, <2>4 DEF WindowInv
<1> QED
  BY <1>1, <1>2, <1>3, <1>4 DEF FrontendInv

(* What leaves the window, the loop and the configuration alone keeps the  *)
(* window in order while the filter's stamp grows.                         *)
LEMMA StampKeepsWindow ==
    ASSUME FrontendInv, UNCHANGED <<config, window, retiring, stuck>>,
           shadow' \in [initialized : BOOLEAN, imu : Nat \union {None}, clock : {0},
                        vision : {None, 0}, depth : {None, 0}],
           CloneKey(shadow') \in Nat, CloneKey(shadow) <= CloneKey(shadow')
    PROVE  ShadowType' /\ WindowInv'
<1>1. ShadowType'
  BY DEF ShadowType, FrontendInv
<1>2. (CloneKey(shadow))' = CloneKey(shadow')
  BY DEF CloneKey
<1>3. GoodWindow(window)' /\ (\A i \in ToSet(window.order) : window.cameras[i] <= CloneKey(shadow))'
  BY <1>2, WindowFacts
<1>4. (retiring => Overfull(window))' /\ BoundedWindow'
  BY DEF FrontendInv, WindowInv, Overfull, BoundedWindow
<1> QED
  BY <1>1, <1>3, <1>4 DEF WindowInv

LEMMA ImuKeepsInv ==
    ASSUME FrontendInv, NEW t \in Time, NEW motion \in Motion, HandleImu(t, motion)
    PROVE  /\ FrontendInv'
           /\ ExitCount <= EnterCount /\ detector'.applied > detector.applied
                 => CountOf(detector'.samples, {"quiet", "calm"}) >= ExitCount
<1>1. PICK fitShadow \in BOOLEAN, fitZupt \in BOOLEAN :
        /\ shadow' = eskf_process_imu(shadow, t, fitShadow)
        /\ detector' = detector_after(detector, shadow, shadow', t, motion, config.zupt, fitZupt)
  BY DEF HandleImu
<1>2. ShadowType' /\ WindowInv'
  <2>1. ShadowType /\ UNCHANGED <<config, window, retiring, stuck>>
    BY DEF HandleImu, FrontendInv
  <2>2. /\ shadow' \in [initialized : BOOLEAN, imu : Nat \union {None}, clock : {0},
                        vision : {None, 0}, depth : {None, 0}]
        /\ CloneKey(shadow') \in Nat /\ CloneKey(shadow) <= CloneKey(shadow')
    BY <1>1, <2>1, StampGrows
  <2> QED
    BY <2>1, <2>2, StampKeepsWindow
<1>3. DetectorForm(detector) /\ OpenInterval(detector) = detector.open
  BY DEF FrontendInv, DetectorType, DetectorForm, EveryZuptBilled
<1>4. /\ DetectorForm(detector') /\ OpenInterval(detector') = detector'.open
      /\ ExitCount <= EnterCount /\ detector'.applied > detector.applied
            => CountOf(detector'.samples, {"quiet", "calm"}) >= ExitCount
  BY <1>1, <1>3, DetectorAfter
<1>5. DetectorType' /\ EveryZuptBilled'
  <2>1. (OpenInterval(detector))' = OpenInterval(detector')
    BY DEF OpenInterval
  <2> QED
    BY <1>4, <2>1 DEF DetectorType, DetectorForm, EveryZuptBilled
<1>6. TracksNumbered'
  BY DEF FrontendInv, TracksNumbered, HandleImu
<1> QED
  BY <1>2, <1>4, <1>5, <1>6 DEF FrontendInv

(* What does not concern the detector or the tracks of features.           *)
LEMMA OthersKept ==
    ASSUME FrontendInv, UNCHANGED <<detector, features>>
    PROVE  DetectorType' /\ EveryZuptBilled' /\ TracksNumbered'
  BY DEF FrontendInv, DetectorType, EveryZuptBilled, TracksNumbered

(* Every number given to a new feature is above those given before.        *)
LEMMA TracksAdvance ==
    ASSUME TracksNumbered, NEW carried \in Carriable(features), NEW n \in 0 .. MaxTracks,
           NEW solved, features' = update(features, carried, Fresh(features, n), solved)
    PROVE  /\ TracksNumbered'
           /\ \A i \in DOMAIN features.point \intersect DOMAIN features'.point :
                 features.point[i] # Unknown => features'.point[i] = features.point[i]
<1> DEFINE fresh == Fresh(features, n)
           point == [i \in carried \union fresh |->
                        IF i \in carried /\ features.point[i] # Unknown THEN features.point[i]
                        ELSE solved[i]]
           next == features.next + Cardinality(fresh)
<1>1. /\ features.next \in Nat /\ n \in Nat /\ carried \subseteq DOMAIN features.point
      /\ \A i \in DOMAIN features.point : i \in Nat /\ i < features.next
  BY TracksAssumption DEF TracksNumbered, Carriable
<1>2. next = features.next + n
  BY <1>1, FreshNumbers DEF Fresh
<1>3. \A i \in fresh : i \in Nat /\ i < features.next + n /\ i \notin DOMAIN features.point
  BY <1>1 DEF Fresh
<1>4. features' = [point |-> point, next |-> next]
  BY DEF update
<1>5. \A i \in carried \union fresh : i \in Nat /\ i < next
  BY <1>1, <1>2, <1>3
<1>6. \A i \in DOMAIN features.point \intersect (carried \union fresh) :
         features.point[i] # Unknown => point[i] = features.point[i]
  BY <1>3
<1>7. DOMAIN point = carried \union fresh /\ next \in Nat
  BY <1>1, <1>2
<1> HIDE DEF point, next, fresh
<1>8. features'.point = point /\ features'.next = next
  BY <1>4
<1>9. features' \in [point : {features'.point}, next : Nat]
  BY <1>4, <1>7
<1> QED
  BY <1>5, <1>6, <1>7, <1>8, <1>9 DEF TracksNumbered

(* A step, and what it does with points and updates besides.               *)
StepIsSound ==
    /\ \A i \in DOMAIN features.point \intersect DOMAIN features'.point :
          features.point[i] # Unknown => features'.point[i] = features.point[i]
    /\ ExitCount <= EnterCount /\ detector'.applied > detector.applied
          => CountOf(detector'.samples, {"quiet", "calm"}) >= ExitCount

LEMMA Untouched ==
    ASSUME FrontendInv
    PROVE  /\ UNCHANGED detector => ~ (detector'.applied > detector.applied)
           /\ UNCHANGED features =>
                 \A i \in DOMAIN features.point \intersect DOMAIN features'.point :
                    features.point[i] # Unknown => features'.point[i] = features.point[i]
<1>1. detector.applied \in Nat
  BY DEF FrontendInv, DetectorType
<1> QED
  BY <1>1

LEMMA ResetIsSound ==
    ASSUME FrontendInv, ResetEstimators
    PROVE  StepIsSound
<1>1. features' = reset_tracks /\ detector' = reset_stationary_detector
  BY DEF ResetEstimators
<1>2. DOMAIN features'.point = {}
  BY <1>1, BegunAnew
<1>3. ~ (detector'.applied > detector.applied)
  BY <1>1 DEF reset_stationary_detector, FrontendInv, DetectorType
<1> QED
  BY <1>2, <1>3 DEF StepIsSound

LEMMA NextKeepsInv == FrontendInv /\ [Next]_vars => FrontendInv' /\ StepIsSound
<1> SUFFICES ASSUME FrontendInv, [Next]_vars PROVE FrontendInv' /\ StepIsSound
  OBVIOUS
<1>1. ASSUME NEW t \in Time, NEW motion \in Motion, HandleImu(t, motion)
      PROVE  FrontendInv' /\ StepIsSound
  BY <1>1, ImuKeepsInv, Untouched DEF StepIsSound, HandleImu
<1>2. ASSUME NEW newer \in BOOLEAN, AcceptFrame(newer)
      PROVE  FrontendInv' /\ StepIsSound
  <2>1. /\ Ready /\ config' = config /\ detector' = detector
        /\ \E fitActive, fitShadow \in BOOLEAN : ProcessVisualPose(fitActive, fitShadow)
        /\ \E carried \in Carriable(features), n \in 0 .. MaxTracks :
              \E solved : features' = update(features, carried, Fresh(features, n), solved)
    BY <1>2 DEF AcceptFrame
  <2>2. ShadowType' /\ WindowInv'
    BY <2>1, PoseKeepsWindow
  <2>3. /\ TracksNumbered'
        /\ \A i \in DOMAIN features.point \intersect DOMAIN features'.point :
              features.point[i] # Unknown => features'.point[i] = features.point[i]
    BY <2>1, TracksAdvance DEF FrontendInv
  <2>4. DetectorType' /\ EveryZuptBilled'
    BY <2>1 DEF FrontendInv, DetectorType, EveryZuptBilled
  <2> QED
    BY <2>1, <2>2, <2>3, <2>4, Untouched DEF FrontendInv, StepIsSound
<1>3. ASSUME NEW gray \in BOOLEAN, NEW detections \in BOOLEAN, NEW timed \in BOOLEAN,
             RefuseFrame(gray, detections, timed)
      PROVE  FrontendInv' /\ StepIsSound
  <2>1. /\ Ready /\ config' = config /\ UNCHANGED <<detector, features>>
        /\ \/ \E fitActive, fitShadow \in BOOLEAN : ProcessVisualPose(fitActive, fitShadow)
           \/ UNCHANGED <<shadow, window, retiring, stuck>>
    BY <1>3 DEF RefuseFrame
  <2>2. ShadowType' /\ WindowInv'
    <3>1. CASE UNCHANGED <<shadow, window, retiring, stuck>>
      <4>1. shadow' \in [initialized : BOOLEAN, imu : Nat \union {None}, clock : {0},
                         vision : {None, 0}, depth : {None, 0}]
        BY <3>1 DEF FrontendInv, ShadowType
      <4>2. CloneKey(shadow') \in Nat /\ CloneKey(shadow) <= CloneKey(shadow')
        BY <3>1, WindowFacts
      <4> QED
        BY <2>1, <3>1, <4>1, <4>2, StampKeepsWindow
    <3> QED
      BY <2>1, <3>1, PoseKeepsWindow
  <2> QED
    BY <2>1, <2>2, OthersKept, Untouched DEF FrontendInv, StepIsSound
<1>4. CASE SubmitFeatures
  <2>1. UNCHANGED <<detector, features>>
    BY <1>4 DEF SubmitFeatures
  <2>2. ShadowType' /\ WindowInv'
    BY <1>4, FeaturesKeepWindow
  <2> QED
    BY <2>1, <2>2, OthersKept, Untouched DEF FrontendInv, StepIsSound
<1>5. CASE Retire
  <2>1. UNCHANGED <<detector, features>>
    BY <1>5 DEF Retire
  <2>2. ShadowType' /\ WindowInv'
    BY <1>5, RetireKeepsWindow
  <2> QED
    BY <2>1, <2>2, OthersKept, Untouched DEF FrontendInv, StepIsSound
<1>6. CASE HandleLidar
  <2>1. UNCHANGED <<config, detector, window, features, retiring, stuck>>
    BY <1>6 DEF HandleLidar
  <2>2. PICK fit : shadow' = eskf_update_depth(shadow, config.depth, fit)
    BY <1>6 DEF HandleLidar
  <2>3. 0 \in Time
    BY FrontendAssumption DEF Time
  <2>4. /\ shadow' \in [initialized : BOOLEAN, imu : Nat \union {None}, clock : {0},
                        vision : {None, 0}, depth : {None, 0}]
        /\ CloneKey(shadow') \in Nat /\ CloneKey(shadow) <= CloneKey(shadow')
    BY <2>2, <2>3, StampGrows DEF FrontendInv
  <2>5. ShadowType' /\ WindowInv'
    BY <2>1, <2>4, StampKeepsWindow
  <2> QED
    BY <2>1, <2>5, OthersKept, Untouched DEF FrontendInv, StepIsSound
<1>7. CASE Reset
  <2>1. ResetEstimators /\ ~ retiring' /\ config' = config
    BY <1>7 DEF Reset, Ready
  <2>2. config' \in Configurations
    BY <2>1 DEF FrontendInv, ShadowType
  <2> QED
    BY <2>1, <2>2, ResetKeepsInv, ResetIsSound
<1>8. CASE Reconfigure
  <2>1. ResetEstimators /\ ~ retiring' /\ config' \in Configurations
    BY <1>8 DEF Reconfigure, Ready
  <2> QED
    BY <2>1, ResetKeepsInv, ResetIsSound
<1>9. CASE UNCHANGED vars
  <2>1. UNCHANGED <<config, shadow, detector, window, features, retiring, stuck>>
    BY <1>9 DEF vars
  <2>2. /\ shadow' \in [initialized : BOOLEAN, imu : Nat \union {None}, clock : {0},
                        vision : {None, 0}, depth : {None, 0}]
        /\ CloneKey(shadow') \in Nat /\ CloneKey(shadow) <= CloneKey(shadow')
    BY <2>1, WindowFacts DEF FrontendInv, ShadowType
  <2>3. ShadowType' /\ WindowInv'
    BY <2>1, <2>2, StampKeepsWindow
  <2> QED
    BY <2>1, <2>3, OthersKept, Untouched DEF FrontendInv, StepIsSound
<1> QED
  BY <1>1, <1>2, <1>3, <1>4, <1>5, <1>6, <1>7, <1>8, <1>9 DEF Next

(* The window, the detector and the numbers of the tracks are as           *)
(* FrontendInv says, in every state.                                       *)
THEOREM Sound == Spec => []FrontendInv
<1> QED
  BY InitialInv, NextKeepsInv, PTL DEF Spec

(***************************************************************************)
(* What follows.                                                           *)
(***************************************************************************)

(* The clones of a good window are as many as its stamps.                  *)
LEMMA AsManyStamps ==
    ASSUME NEW w, GoodWindow(w)
    PROVE  Cardinality(DOMAIN w.idOf) = Len(w.order)
<1> DEFINE n == Len(w.order)
           f == [k \in 1 .. n |-> w.cameras[w.order[k]]]
<1>1. /\ w.order \in Seq(Nat) /\ n \in Nat /\ DOMAIN w.order = 1 .. n
      /\ w.cameras \in [ToSet(w.order) -> Nat] /\ Increasing(w.order)
      /\ DOMAIN w.idOf = {w.cameras[i] : i \in ToSet(w.order)}
      /\ \A i \in ToSet(w.order) : w.idOf[w.cameras[i]] = i
  BY WindowFields DEF GoodWindow, WindowType, ClonesInOrder, StampsIndexed
<1>2. ToSet(w.order) = {w.order[k] : k \in 1 .. n}
  BY <1>1 DEF ToSet
<1>3. f \in [1 .. n -> DOMAIN w.idOf]
  BY <1>1, <1>2
<1>4. \A x \in DOMAIN w.idOf : \E k \in 1 .. n : f[k] = x
  BY <1>1, <1>2
<1>5. ASSUME NEW j \in 1 .. n, NEW k \in 1 .. n, f[j] = f[k]
      PROVE  j = k
  <2>1. w.order[j] = w.order[k]
    BY <1>1, <1>2, <1>5
  <2>2. w.order[j] \in Nat /\ w.order[k] \in Nat
    BY <1>1
  <2> QED
    BY <1>1, <2>1, <2>2 DEF Increasing
<1>6. f \in Bijection(1 .. n, DOMAIN w.idOf)
  <2> HIDE DEF f, n
  <2> QED
    BY <1>3, <1>4, <1>5 DEF Bijection, Injection, Surjection, IsInjective
<1>7. IsFiniteSet(1 .. n) /\ Cardinality(1 .. n) = n
  BY <1>1, FS_Interval
<1>8. ExistsBijection(1 .. n, DOMAIN w.idOf)
  BY <1>6 DEF ExistsBijection
<1> QED
  BY <1>7, <1>8, FS_Bijection

(* However frames, failed retirements, resets and reconfigurations come    *)
(* one after the other, the clones, their two indices and the blocks of    *)
(* the covariance (msckf_camera_states_, their map by stamp and the rows   *)
(* of msckf_covariance_) agree, and no two clones have one stamp.          *)
THEOREM ClonesAgree == Spec => []WindowAgrees
<1>1. FrontendInv => WindowAgrees
  <2> SUFFICES ASSUME FrontendInv PROVE WindowAgrees
    OBVIOUS
  <2>1. GoodWindow(window)
    BY WindowFacts
  <2>2. /\ ToSet(window.order) = DOMAIN window.cameras
        /\ window.order \in Seq(Nat)
    BY <2>1, WindowFields DEF GoodWindow
  <2>3. window.blocks = window.order /\ Increasing(window.order)
    BY <2>1 DEF GoodWindow, ClonesInOrder
  <2>4. \A i \in DOMAIN window.cameras : window.idOf[window.cameras[i]] = i
    BY <2>1, <2>2 DEF GoodWindow, StampsIndexed
  <2>5. \A i, j \in DOMAIN window.order :
           i < j => window.cameras[window.order[i]] < window.cameras[window.order[j]]
    <3>1. \A i \in DOMAIN window.order : window.order[i] \in ToSet(window.order)
      BY DEF ToSet
    <3> QED
      BY <2>1, <2>3, <3>1 DEF GoodWindow, ClonesInOrder, Increasing
  <2> QED
    BY <2>1, <2>2, <2>3, <2>4, <2>5, AsManyStamps DEF WindowAgrees
<1> QED
  BY <1>1, Sound, PTL

(* A track never refers to a clone that was retired, so linearizing it     *)
(* never looks for one in vain.                                            *)
THEOREM NoDanglingTrack == Spec => []NoStaleReference
<1>1. FrontendInv => NoStaleReference
  <2> SUFFICES ASSUME FrontendInv PROVE NoStaleReference
    OBVIOUS
  <2>1. GoodWindow(window)
    BY WindowFacts
  <2> QED
    BY <2>1, WindowFields DEF GoodWindow, TracksObserved, NoStaleReference
<1> QED
  BY <1>1, Sound, PTL

(* A correction and the mark that keeps it from being applied twice are    *)
(* taken over together or not at all, also when the retirement they were   *)
(* made for fails afterwards.                                              *)
THEOREM NothingFusedTwice == Spec => []MarkedIffFused
<1>1. FrontendInv => MarkedIffFused
  <2> SUFFICES ASSUME FrontendInv, NEW f \in DOMAIN window.tracks
               PROVE  LET mine == {p[2] : p \in {q \in window.fused : q[1] = f}}
                      IN  /\ window.tracks[f].last # NoId => window.tracks[f].last \in mine
                          /\ \A id \in mine : id > window.tracks[f].last =>
                                  \A o \in window.tracks[f].obs : o > id
    BY DEF MarkedIffFused
  <2> DEFINE mine == {p[2] : p \in {q \in window.fused : q[1] = f}}
             last == window.tracks[f].last
  <2>1. GoodWindow(window)
    BY WindowFacts
  <2>2. /\ ToSet(window.order) \subseteq Nat /\ last \in Nat
        /\ window.tracks[f].obs \subseteq ToSet(window.order)
        /\ \A q \in window.fused : q[2] \in Nat
    BY <2>1, WindowFields DEF GoodWindow, WindowType, TracksObserved, Track
  <2>3. last # NoId => last \in mine
    <3>1. last # NoId => <<f, last>> \in window.fused
      BY <2>1 DEF GoodWindow, MarksCorrect
    <3> QED
      BY <3>1
  <2>4. ASSUME NEW id \in mine, id > last, NEW o \in window.tracks[f].obs
        PROVE  o > id
    <3>1. PICK q \in window.fused : q[1] = f /\ q[2] = id
      OBVIOUS
    <3>2. id \notin ToSet(window.order)
      BY <2>1, <2>2, <2>4, <3>1 DEF GoodWindow, MarksCorrect
    <3>3. id < o
      BY <2>1, <2>2, <3>1, <3>2 DEF GoodWindow, MarksCorrect
    <3> QED
      BY <2>2, <3>1, <3>3
  <2> QED
    BY <2>3, <2>4
<1> QED
  BY <1>1, Sound, PTL

(* Between measurements the window has no more clones than configured,     *)
(* unless the last retirement failed.                                      *)
THEOREM ClonesAreBounded == Spec => []BoundedWindow
<1>1. FrontendInv => BoundedWindow
  BY DEF FrontendInv, WindowInv
<1> QED
  BY <1>1, Sound, PTL

(* The zero-velocity updates of the interval of rest that is open are      *)
(* those the intervals that ended do not account for.                      *)
THEOREM ZuptsAccounted == Spec => []EveryZuptBilled
<1>1. FrontendInv => EveryZuptBilled
  BY DEF FrontendInv
<1> QED
  BY <1>1, Sound, PTL

(* A feature keeps the world point it was given as long as it is followed. *)
THEOREM PointsStay == Spec => PointsArePermanent
<1>1. FrontendInv /\ [Next]_vars =>
        [\A i \in DOMAIN features.point \intersect DOMAIN features'.point :
           features.point[i] # Unknown /\ features'.next >= features.next =>
              features'.point[i] = features.point[i]]_vars
  BY NextKeepsInv DEF StepIsSound
<1> QED
  BY <1>1, Sound, PTL DEF Spec, PointsArePermanent

(* If rest asks for no more calm samples to go on than quiet ones to       *)
(* begin, as the defaults do, a zero-velocity update is applied only with  *)
(* enough calm samples in the window, also at the sample that begins the   *)
(* rest.                                                                   *)
THEOREM ZuptOnlyAtRest == ExitCount <= EnterCount => (Spec => NoZuptInMotion)
<1> SUFFICES ASSUME ExitCount <= EnterCount PROVE Spec => NoZuptInMotion
  OBVIOUS
<1>1. FrontendInv /\ [Next]_vars =>
        [detector'.applied > detector.applied =>
           CountOf(detector'.samples, {"quiet", "calm"}) >= ExitCount]_vars
  BY NextKeepsInv DEF StepIsSound
<1> QED
  BY <1>1, Sound, PTL DEF Spec, NoZuptInMotion
=============================================================================
