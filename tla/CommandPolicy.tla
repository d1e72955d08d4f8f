---------------------------- MODULE CommandPolicy ----------------------------
(***************************************************************************)
(* The drone's inbox for commands of swarm peers: which messages are       *)
(* commands, which commands the onboard policy accepts, and what an        *)
(* accepted one does to the decision of the tick.                          *)
(***************************************************************************)
EXTENDS Naturals

\* Messages a peer can send: a type, for FORMATION_CMD its shape, and whether its
\* timestamp is already older than max_command_age_s (3 s) when it is evaluated.
SwarmMessage == [type : {"EMERGENCY_STOP", "FORMATION_CMD", "FORMATION_FREE", "MISSION_SYNC",
                         "POSE_UPDATE"},
                 stale : BOOLEAN]

RemoteCommand == [action : {"HOLD_POSITION", "RETURN_HOME", "EMERGENCY_LAND", "FORMATION_HOLD"},
                  stale : BOOLEAN]
NoCommand == [action |-> "NONE", stale |-> FALSE]

command_from_swarm_message(msg) ==
    CASE msg.type = "EMERGENCY_STOP" -> [action |-> "EMERGENCY_LAND", stale |-> msg.stale]
      [] msg.type = "FORMATION_CMD"  -> [action |-> "FORMATION_HOLD", stale |-> msg.stale]
      [] msg.type = "FORMATION_FREE" -> [action |-> "HOLD_POSITION", stale |-> msg.stale]
      [] msg.type = "MISSION_SYNC"   -> [action |-> "RETURN_HOME", stale |-> msg.stale]
      [] OTHER                       -> NoCommand

\* What a formation command asks of the drone itself.
FormationMargin(healthy, confidence, battery) == healthy /\ confidence >= 350 /\ battery >= 18

\* faulty: the emergency exception moved behind the security state
EmergencyLast(security, in, command) ==
    IF ~ security.remoteAllowed THEN "blocked"
    ELSE IF command.action # "EMERGENCY_LAND" /\ command.stale THEN "freshness"
    ELSE "accepted"

\* faulty: the security state is not asked
WithoutSecurity(security, in, command) ==
    IF command.action # "EMERGENCY_LAND" /\ command.stale THEN "freshness" ELSE "accepted"

\* The reason of the first check that refuses the command, or "accepted".
evaluate_remote_command(security, in, command) ==
    LET retreat   == command.action \in {"RETURN_HOME", "HOLD_POSITION"}
        formation == command.action = "FORMATION_HOLD"
    IN  IF command.action = "EMERGENCY_LAND" THEN "accepted"
        ELSE IF command.stale THEN "freshness"
        ELSE IF in.issuer < (IF in.hardened THEN 700 ELSE 550) THEN "issuer trust"
        ELSE IF in.noFly /\ ~ retreat THEN "mission lock"
        ELSE IF ~ in.geofenceClear /\ ~ retreat THEN "geofence"
        ELSE IF ~ in.consistent /\ formation THEN "swarm consistency"
        ELSE IF ~ in.margin /\ formation THEN "safety margin"
        ELSE IF ~ security.remoteAllowed THEN "blocked"
        ELSE "accepted"

apply_remote_command(command, decision) ==
    CASE command.action \in {"HOLD_POSITION", "FORMATION_HOLD"} ->
             [mode |-> "HOLD_POSITION", attention |-> FALSE]
      [] command.action = "RETURN_HOME"    -> [mode |-> "RETURN_HOME", attention |-> TRUE]
      [] command.action = "EMERGENCY_LAND" -> [mode |-> "EMERGENCY_LAND", attention |-> TRUE]
      [] OTHER                             -> decision
===============================================================================
