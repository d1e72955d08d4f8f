----------------------- MODULE MCEstimatorCoordinator -----------------------
(***************************************************************************)
(* Instances of EstimatorCoordinator for TLC. Of two measurements a queue  *)
(* of one drops one, and a queue of two keeps both in order. Three         *)
(* advances of the generation are a start, a reconfiguration that turns    *)
(* the shadow on, and a reset or another of them while measurements are    *)
(* under way.                                                              *)
(***************************************************************************)
EXTENDS EstimatorCoordinator

SmallCapacities == {1, 2}
BothPolicies == {"DropOldest", "DropNewest"}
DropOldestOnly == {"DropOldest"}
=============================================================================
