-------------------------- MODULE MCElectionCount --------------------------
(***************************************************************************)
(* Instances of ElectionCount for TLC: all the figures three drones may    *)
(* have. The window is two units: figures one unit apart are a tie, and    *)
(* figures two units apart are not, though one may lie between them.       *)
(***************************************************************************)
EXTENDS ElectionCount

NearScores == 0 .. 3
NearBatteries == 0 .. 2
=============================================================================
