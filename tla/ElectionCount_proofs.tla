------------------------ MODULE ElectionCount_proofs ------------------------
(***************************************************************************)
(* For any number of drones with any figures, a count ends on a drone      *)
(* whose score is near the best.                                           *)
(***************************************************************************)
EXTENDS ElectionCount, FiniteSetTheorems

(* What one more peer may cost.                                            *)
LEMMA LossGrows ==
    ASSUME DronesTyped, IInv, NEW d \in Drones, NEW p \in uncounted[d],
           uncounted' = [uncounted EXCEPT ![d] = @ \ {p}]
    PROVE  /\ Loss(d) \in Int
           /\ Loss(d)' = Loss(d) + (TieWindow - 1)
<1> DEFINE S == Drones \ (uncounted[d] \union {d})
           n == Cardinality(S)
<1>1. uncounted'[d] = uncounted[d] \ {p} /\ p \in Drones /\ p # d
  BY DEF IInv, TypeOK, NearBestSoFar
<1>2. Drones \ (uncounted'[d] \union {d}) = S \union {p} /\ p \notin S
  BY <1>1
<1>3. IsFiniteSet(S)
  BY FS_Difference DEF DronesTyped
<1>4. n \in Nat /\ Cardinality(S \union {p}) = n + 1
  BY <1>2, <1>3, FS_CardinalityType, FS_AddElement
<1>5. TieWindow - 1 \in Int
  BY RulesAssumption
<1>6. Loss(d) = (TieWindow - 1) * n /\ Loss(d)' = (TieWindow - 1) * (n + 1)
  BY <1>2, <1>4 DEF Loss
<1> HIDE DEF n
<1>7. ASSUME NEW w \in Int, NEW k \in Int
      PROVE  w * k \in Int /\ w * (k + 1) = w * k + w
  OBVIOUS
<1> QED
  BY <1>4, <1>5, <1>6, <1>7

(* A drone that does not replace the best has no higher score; one that    *)
(* does has a score of at least a window below it.                         *)
LEMMA OutrankedByScore ==
    ASSUME NEW i \in Int, NEW j \in Int, NEW f \in Figures, NEW g \in Figures
    PROVE  /\ f.score \in Int /\ g.score \in Int
           /\ ~Outranks(i, f, j, g) => f.score <= g.score
           /\ Outranks(i, f, j, g) => g.score - f.score <= TieWindow - 1
<1>1. f.score \in Int /\ g.score \in Int /\ TieWindow \in Nat \ {0}
  BY RulesAssumption DEF Figures
<1> QED
  BY <1>1 DEF Outranks, Close

(* One turn of the loop of lines 558-574 costs at most a window.           *)
LEMMA CountKeepsNear ==
    ASSUME DronesTyped, IInv, NEW d \in Drones, CountPeer(d)
    PROVE  IInv'
<1>1. PICK p \in uncounted[d] :
         /\ uncounted' = [uncounted EXCEPT ![d] = @ \ {p}]
         /\ best' = [best EXCEPT ![d] =
                        IF Outranks(p, figures[p], @, figures[@]) THEN p ELSE @]
         /\ figures' = figures
  BY DEF CountPeer
<1>2. p \in Drones /\ best[d] \in Drones /\ TieWindow \in Nat \ {0}
  BY RulesAssumption DEF IInv, TypeOK
<1>3. TypeOK'
  BY <1>1, <1>2 DEF IInv, TypeOK
<1>4. Loss(d) \in Int /\ Loss(d)' = Loss(d) + (TieWindow - 1)
  BY <1>1, LossGrows
<1>5. ASSUME NEW e \in Drones \ uncounted'[d]
      PROVE  figures[e].score - figures[best'[d]].score <= Loss(d)'
  <2>1. /\ e \in Int /\ p \in Int /\ best[d] \in Int
        /\ figures[e] \in Figures /\ figures[p] \in Figures /\ figures[best[d]] \in Figures
    BY <1>2 DEF DronesTyped, IInv, TypeOK
  <2>2. /\ figures[e].score \in Int /\ figures[p].score \in Int
        /\ figures[best[d]].score \in Int
    BY <2>1, OutrankedByScore
  <2>3. e = p \/ figures[e].score - figures[best[d]].score <= Loss(d)
    BY <1>1 DEF IInv, TypeOK, NearBestSoFar
  <2>4. Loss(d) >= 0
    <3>1. Cardinality(Drones \ (uncounted[d] \union {d})) \in Nat
      BY FS_Difference, FS_CardinalityType DEF DronesTyped
    <3>2. ASSUME NEW w \in Nat, NEW k \in Nat
          PROVE  w * k >= 0
      OBVIOUS
    <3>3. TieWindow - 1 \in Nat
      BY <1>2
    <3> QED
      BY <3>1, <3>2, <3>3 DEF Loss
  <2>5. CASE Outranks(p, figures[p], best[d], figures[best[d]])
    <3>1. best'[d] = p
      BY <1>1, <2>5 DEF IInv, TypeOK
    <3>2. figures[best[d]].score - figures[p].score <= TieWindow - 1
      BY <2>1, <2>5, OutrankedByScore
    <3> QED
      BY <1>2, <1>4, <2>2, <2>3, <2>4, <3>1, <3>2
  <2>6. CASE ~Outranks(p, figures[p], best[d], figures[best[d]])
    <3>1. best'[d] = best[d]
      BY <1>1, <2>6 DEF IInv, TypeOK
    <3>2. figures[p].score <= figures[best[d]].score
      BY <2>1, <2>6, OutrankedByScore
    <3> QED
      BY <1>2, <1>4, <2>2, <2>3, <2>4, <3>1, <3>2
  <2> QED
    BY <2>5, <2>6
<1>6. NearBestSoFar'
  <2> SUFFICES ASSUME NEW c \in Drones
               PROVE  /\ c \notin uncounted'[c]
                      /\ \A e \in Drones \ uncounted'[c] :
                             figures[e].score - figures[best'[c]].score <= Loss(c)'
    BY <1>1 DEF NearBestSoFar
  <2>1. CASE c = d
    BY <1>1, <1>5, <2>1 DEF IInv, TypeOK, NearBestSoFar
  <2>2. CASE c # d
    <3>1. uncounted'[c] = uncounted[c] /\ best'[c] = best[c]
      BY <1>1, <2>2 DEF IInv, TypeOK
    <3>2. Loss(c)' = Loss(c)
      BY <3>1 DEF Loss
    <3> QED
      BY <3>1, <3>2 DEF IInv, NearBestSoFar
  <2> QED
    BY <2>1, <2>2
<1> QED
  BY <1>3, <1>6 DEF IInv

(* At the start a drone has looked at itself alone.                        *)
LEMMA CountStartsNear ==
    ASSUME DronesTyped, Init
    PROVE  IInv
<1>1. TypeOK
  BY DEF Init, TypeOK
<1>2. ASSUME NEW d \in Drones, NEW e \in Drones \ uncounted[d]
      PROVE  figures[e].score - figures[best[d]].score <= Loss(d)
  <2>1. e = d /\ best[d] = d
    BY <1>2 DEF Init
  <2>2. figures[d].score \in Int
    BY <1>1, OutrankedByScore DEF DronesTyped, TypeOK
  <2>3. Cardinality(Drones \ (uncounted[d] \union {d})) = 0
    <3>1. Drones \ (uncounted[d] \union {d}) = {}
      BY DEF Init
    <3> QED
      BY <3>1, FS_EmptySet
  <2>4. Loss(d) = 0
    BY <2>3, RulesAssumption DEF Loss
  <2> QED
    BY <2>1, <2>2, <2>4
<1>3. \A d \in Drones : d \notin uncounted[d]
  BY DEF Init
<1> QED
  BY <1>1, <1>2, <1>3 DEF IInv, NearBestSoFar

(* Whatever the figures, however near one another, and whatever the order  *)
(* of the tables, the count of lines 553-575 never ends on a drone whose   *)
(* score is below another's by more than a window for each peer, for any   *)
(* number of drones.                                                       *)
THEOREM CountStaysNear ==
    ASSUME DronesTyped
    PROVE  Spec => []ElectedIsNearBest
<1>1. Init => IInv
  BY CountStartsNear
<1>2. IInv /\ [Next]_vars => IInv'
  <2> SUFFICES ASSUME IInv, [Next]_vars PROVE IInv'
    OBVIOUS
  <2>1. CASE UNCHANGED vars
    BY <2>1 DEF vars, IInv, TypeOK, NearBestSoFar, Loss
  <2>2. CASE Next
    BY <2>2, CountKeepsNear DEF Next
  <2> QED
    BY <2>1, <2>2
<1>3. IInv => ElectedIsNearBest
  BY DEF IInv, TypeOK, NearBestSoFar, ElectedIsNearBest, Counted
<1> QED
  BY <1>1, <1>2, <1>3, PTL DEF Spec
=============================================================================
