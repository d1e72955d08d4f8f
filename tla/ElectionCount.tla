--------------------------- MODULE ElectionCount ---------------------------
(***************************************************************************)
(* The count of an election (V2XMeshNetwork.cpp:553-575) held by every     *)
(* drone of a swarm on the same figures: every table of peers is complete, *)
(* reachable and up to date, so that any disagreement comes from the count *)
(* itself. A drone starts from itself as the best candidate (553-555) and  *)
(* goes through its peers in the order of its std::unordered_map, which is *)
(* an order of its own and unspecified. Figures may lie as near to one     *)
(* another as they like.                                                   *)
(***************************************************************************)
EXTENDS ElectionRules, FiniteSets

CONSTANT Drones     \* identifiers of the drones of the swarm, finitely many integers

VARIABLES
    figures,    \* score and battery of every drone, known to all of them
    uncounted,  \* peers each drone still has to look at
    best        \* best_id of each drone's count

vars == <<figures, uncounted, best>>

TypeOK ==
    /\ figures \in [Drones -> Figures]
    /\ uncounted \in [Drones -> SUBSET Drones]
    /\ best \in [Drones -> Drones]

Init ==
    /\ figures \in [Drones -> Figures]
    /\ uncounted = [d \in Drones |-> Drones \ {d}]
    /\ best = [d \in Drones |-> d]

(* One turn of the loop over peers_ in the count of d.                     *)
CountPeer(d) ==
    \E p \in uncounted[d] :
        /\ uncounted' = [uncounted EXCEPT ![d] = @ \ {p}]
        /\ best' = [best EXCEPT ![d] =
                        IF Outranks(p, figures[p], @, figures[@]) THEN p ELSE @]
        /\ UNCHANGED figures

Next == \E d \in Drones : CountPeer(d)

Spec == Init /\ [][Next]_vars

DronesTyped == Drones \subseteq Int /\ IsFiniteSet(Drones)

-----------------------------------------------------------------------------
Counted(d) == uncounted[d] = {}

(* README.md:1854 gives the election a "deterministic tie break": drones   *)
(* that count the same figures elect the same leader, whatever order they  *)
(* count them in.                                                          *)
SameFiguresSameLeader ==
    \A d, e \in Drones : Counted(d) /\ Counted(e) => best[d] = best[e]

(* How much score the windows of the peers looked at so far may have cost: *)
(* figures in one window are less than TieWindow apart.                    *)
Loss(d) == (TieWindow - 1) * Cardinality(Drones \ (uncounted[d] \union {d}))

(* Each tie may hand the lead to a drone of lower score, and the next tie  *)
(* is measured from there; yet a count never ends on a drone whose score   *)
(* is below that of any other by more than a window for each peer, however *)
(* near to one another the figures are and in whatever order they come.    *)
ElectedIsNearBest ==
    \A d, e \in Drones :
        Counted(d) => figures[e].score - figures[best[d]].score <= Loss(d)

(* The same of the peers a count has looked at so far.                     *)
NearBestSoFar ==
    \A d \in Drones :
        /\ d \notin uncounted[d]
        /\ \A e \in Drones \ uncounted[d] :
               figures[e].score - figures[best[d]].score <= Loss(d)

IInv == TypeOK /\ NearBestSoFar
=============================================================================
