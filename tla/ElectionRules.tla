--------------------------- MODULE ElectionRules ---------------------------
(***************************************************************************)
(* The rule by which V2XMeshNetwork::trigger_election ranks two drones     *)
(* (V2XMeshNetwork.cpp:562-568): the score decides, drones whose scores    *)
(* are within a window of one another are ranked by battery, and drones    *)
(* whose batteries are within it too by identifier. The floating point     *)
(* figures are integers here, in any unit in which the window 1e-4 is the  *)
(* whole number TieWindow.                                                 *)
(***************************************************************************)
EXTENDS Integers, TLAPS

CONSTANTS Scores, Batteries, TieWindow

ASSUME RulesAssumption ==
    /\ Scores \subseteq Int
    /\ Batteries \subseteq Int
    /\ TieWindow \in Nat \ {0}

Figures == [score : Scores, battery : Batteries]

(* std::abs(a - b) < 1e-4f                                                 *)
Close(a, b) == a - b < TieWindow /\ b - a < TieWindow

(* better_score \/ better_battery \/ tie_break: drone i with the figures f *)
(* replaces j with g as the best seen so far.                              *)
Outranks(i, f, j, g) ==
    \/ f.score > g.score
    \/ Close(f.score, g.score) /\ f.battery > g.battery
    \/ Close(f.score, g.score) /\ Close(f.battery, g.battery) /\ i > j

(* No two different figures are within the window of one another.          *)
Separated ==
    /\ \A a, b \in Scores : Close(a, b) => a = b
    /\ \A a, b \in Batteries : Close(a, b) => a = b

-----------------------------------------------------------------------------
(* Figures that are the same are within the window of one another.         *)
LEMMA CloseReflexive ==
    ASSUME NEW a \in Int
    PROVE  Close(a, a)
BY RulesAssumption DEF Close

(* Of two drones with separated figures one outranks the other, and not    *)
(* both do: the rule of lines 562-568 breaks every tie.                    *)
LEMMA OutranksTotal ==
    ASSUME Separated,
           NEW i \in Int, NEW j \in Int, i # j,
           NEW f \in Figures, NEW g \in Figures
    PROVE  Outranks(i, f, j, g) <=> ~Outranks(j, g, i, f)
<1>1. f.score \in Scores /\ g.score \in Scores /\ f.battery \in Batteries /\ g.battery \in Batteries
  BY DEF Figures
<1>2. f.score \in Int /\ g.score \in Int /\ f.battery \in Int /\ g.battery \in Int
  BY <1>1, RulesAssumption
<1>3. /\ Close(f.score, g.score) <=> f.score = g.score
      /\ Close(g.score, f.score) <=> f.score = g.score
      /\ Close(f.battery, g.battery) <=> f.battery = g.battery
      /\ Close(g.battery, f.battery) <=> f.battery = g.battery
  BY <1>1, <1>2, CloseReflexive DEF Separated
<1> QED
  BY <1>2, <1>3 DEF Outranks

(* The rule is transitive on separated figures, so that the best of a scan *)
(* does not depend on the order of the scan.                               *)
LEMMA OutranksTransitive ==
    ASSUME Separated,
           NEW i \in Int, NEW j \in Int, NEW k \in Int,
           NEW f \in Figures, NEW g \in Figures, NEW h \in Figures,
           Outranks(i, f, j, g), Outranks(j, g, k, h)
    PROVE  Outranks(i, f, k, h)
<1>1. /\ f.score \in Scores /\ g.score \in Scores /\ h.score \in Scores
      /\ f.battery \in Batteries /\ g.battery \in Batteries /\ h.battery \in Batteries
  BY DEF Figures
<1>2. /\ f.score \in Int /\ g.score \in Int /\ h.score \in Int
      /\ f.battery \in Int /\ g.battery \in Int /\ h.battery \in Int
  BY <1>1, RulesAssumption
<1>3. /\ Close(f.score, g.score) <=> f.score = g.score
      /\ Close(g.score, h.score) <=> g.score = h.score
      /\ Close(f.score, h.score) <=> f.score = h.score
      /\ Close(f.battery, g.battery) <=> f.battery = g.battery
      /\ Close(g.battery, h.battery) <=> g.battery = h.battery
      /\ Close(f.battery, h.battery) <=> f.battery = h.battery
  BY <1>1, <1>2, CloseReflexive DEF Separated
<1> QED
  BY <1>2, <1>3 DEF Outranks
=============================================================================
