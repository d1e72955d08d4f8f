-------------------------- MODULE MCLeaderElection --------------------------
(***************************************************************************)
(* Instances of LeaderElection for TLC. The local drone has an identifier  *)
(* between those of its two peers, so that it wins some ties and loses     *)
(* others.                                                                 *)
(***************************************************************************)
EXTENDS LeaderElection

Health(score, battery) ==
    [score |-> score, battery |-> battery, fault |-> FALSE, weak |-> score < 2]

Faulty == [score |-> 0, battery |-> 4, fault |-> TRUE, weak |-> TRUE]

Figs == {0, 2, 4}

(* A drone in order, and one too weak to lead.                             *)
StrongAndWeak == {Health(4, 4), [Health(2, 4) EXCEPT !.weak = TRUE]}

(* A drone in order, one that ranks below it, and one with a fault.        *)
SoundWeakAndFaulty == {Health(4, 4), Health(2, 4), Faulty}
=============================================================================
