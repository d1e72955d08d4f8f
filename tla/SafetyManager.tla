---------------------------- MODULE SafetyManager ----------------------------
(***************************************************************************)
(* The local safety manager: the state it reads off one tick, and what it  *)
(* does, as the last writer, to the command the tick ends with.  Speed and *)
(* acceleration limits are left out: they only shorten a vector.           *)
(***************************************************************************)
EXTENDS Naturals

SafetyState == {"NORMAL", "DEGRADED_LOCALIZATION", "LOCALIZATION_LOST", "LINK_LOST",
                "SENSOR_FAULT", "EMERGENCY_LAND", "MOTOR_LOCKED"}

\* Sources that contain "vision" or "vio" (a relocalized pose never gets here).
uses_visual_localization(source) ==
    source \in {"invalid-vio-input", "vio-tdoa-fused", "vision-depth-fused", "vision-inertial"}

\* evaluate(): the first condition that holds, from the gravest down.
evaluate(ctx) ==
    IF ctx.security = "LAND_IMMEDIATELY" THEN "EMERGENCY_LAND"
    ELSE IF ctx.motorLocked THEN "MOTOR_LOCKED"
    ELSE IF \/ ctx.sensorFault \/ ~ ctx.imuAvailable \/ ~ ctx.cameraAvailable
            \/ (ctx.production /\ ctx.lidarRequired /\ ~ ctx.lidarAvailable) THEN "SENSOR_FAULT"
    ELSE IF ctx.link < 120 \/ ctx.sync < 250 THEN "LINK_LOST"
    ELSE IF ctx.lost THEN "LOCALIZATION_LOST"
    ELSE IF ctx.degraded \/ (uses_visual_localization(ctx.source) /\ ctx.confidence < 550)
         THEN "DEGRADED_LOCALIZATION"
    ELSE "NORMAL"

\* faulty: a sensor fault holds position even over an emergency landing
EnforceHoldAlways(state, command) ==
    CASE state \in {"EMERGENCY_LAND", "MOTOR_LOCKED"} -> [mode |-> "EMERGENCY_LAND", attention |-> TRUE]
      [] state \in {"SENSOR_FAULT", "LINK_LOST"}      -> [mode |-> "HOLD_POSITION", attention |-> TRUE]
      [] state = "LOCALIZATION_LOST"                  -> [mode |-> "LOCALIZATION_LOST", attention |-> TRUE]
      [] OTHER                                        -> command

\* The safety manager writes last; only an emergency landing outlasts a hold.
enforce(state, command) ==
    IF state \in {"EMERGENCY_LAND", "MOTOR_LOCKED"} THEN [mode |-> "EMERGENCY_LAND", attention |-> TRUE]
    ELSE IF command.mode = "EMERGENCY_LAND" THEN command
    ELSE IF state \in {"SENSOR_FAULT", "LINK_LOST"} THEN [mode |-> "HOLD_POSITION", attention |-> TRUE]
    ELSE IF state = "LOCALIZATION_LOST" THEN [mode |-> "LOCALIZATION_LOST", attention |-> TRUE]
    ELSE command
===============================================================================
