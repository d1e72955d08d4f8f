---------------------------- MODULE DecisionEngine ----------------------------
(***************************************************************************)
(* The decision engine: the behaviour it picks in one tick from the        *)
(* battery, the localization, obstacles and what the camera shows.  A      *)
(* command is its mode and whether the operator is asked to look; the      *)
(* velocities each builder computes are left out.  The count of missed     *)
(* targets only turns the search yaw and is left out with it.              *)
(***************************************************************************)
EXTENDS Naturals

BehaviorMode == {"HOLD_POSITION", "SEARCH", "TRACK_TARGET", "AVOID_OBSTACLE", "RETURN_HOME",
                 "EMERGENCY_LAND", "HOVER_AND_SCAN", "SAFE_RETURN_BY_ANCHOR",
                 "LOCALIZATION_DEGRADED", "LOCALIZATION_LOST"}

DecisionCommand == [mode : BehaviorMode, attention : BOOLEAN]

build(mode, attention) == [mode |-> mode, attention |-> attention]

\* What select_primary_detection makes of a frame: no detections, none that passes the
\* confidence gate, or the best one by the class of its label and its score ("critical" and
\* "large" reach critical_obstacle_score, "plain" is in no list or below the track gate).
Focus == {"empty", "gated", "hazard", "target", "critical", "large", "plain"}

\* A follower keeps its slot where a free drone goes on searching.
hold_or_search(ctx) == IF ctx.follower THEN build("HOLD_POSITION", FALSE) ELSE build("SEARCH", FALSE)

LostDecision(ctx) ==
    IF ctx.tdoa >= 550 /\ ctx.anchors > 0 THEN build("SAFE_RETURN_BY_ANCHOR", TRUE)
    ELSE IF ~ ctx.tracking \/ ctx.sync < 450 \/ ~ ctx.relocalized
         THEN build("HOVER_AND_SCAN", ctx.confidence < 300)
    ELSE build("LOCALIZATION_LOST", TRUE)

DegradedDecision(ctx) ==
    IF ~ ctx.tracking \/ ctx.sync < 550
    THEN build("HOVER_AND_SCAN", ctx.confidence < 300)
    ELSE build("LOCALIZATION_DEGRADED", ctx.confidence < 450)

FocusDecision(ctx) ==
    CASE ctx.focus \in {"hazard", "large"} -> build("AVOID_OBSTACLE", TRUE)
      [] ctx.focus = "critical"            -> build("AVOID_OBSTACLE", FALSE)
      [] ctx.focus = "target"              -> build("TRACK_TARGET", FALSE)
      [] OTHER                             -> hold_or_search(ctx)

\* update(): the first case that applies.  A battery reading of zero is taken for no reading.
update(ctx) ==
    IF ctx.battery > 0 /\ ctx.battery <= 8 THEN build("EMERGENCY_LAND", TRUE)
    ELSE IF ctx.lost \/ ctx.confidence <= 220 THEN LostDecision(ctx)
    ELSE IF ctx.battery > 0 /\ ctx.battery <= 18 THEN build("RETURN_HOME", FALSE)
    ELSE IF ctx.degraded \/ ctx.confidence <= 580 THEN DegradedDecision(ctx)
    ELSE IF ctx.obstacle # "none" THEN build("AVOID_OBSTACLE", ctx.obstacle = "touching")
    ELSE IF ctx.caution /\ ctx.follower /\ (~ ctx.frame \/ ctx.focus = "empty")
         THEN build("HOLD_POSITION", FALSE)
    ELSE IF ~ ctx.inference \/ ~ ctx.frame THEN hold_or_search(ctx)
    ELSE FocusDecision(ctx)
===============================================================================
