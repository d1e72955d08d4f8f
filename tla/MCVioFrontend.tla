---------------------------- MODULE MCVioFrontend ----------------------------
(***************************************************************************)
(* Instances of VioFrontend for TLC.  A configuration either retires       *)
(* clones or detects rest, so that the two add up rather than multiply.    *)
(***************************************************************************)
EXTENDS VioFrontend

Clones(n) == [clones |-> n, msckf |-> TRUE, update |-> TRUE, zupt |-> FALSE, depth |-> FALSE,
              horizon |-> n + 1, frames |-> n + 2]
Rest  == [Clones(1) EXCEPT !.msckf = FALSE, !.zupt = TRUE, !.horizon = 5, !.frames = 0]
Depth == [Clones(1) EXCEPT !.msckf = FALSE, !.depth = TRUE, !.horizon = 2, !.frames = 2]

AllConfigurations == {Rest, Clones(1), Clones(2), Depth}
===============================================================================
