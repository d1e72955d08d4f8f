------------------------------ MODULE FlightLoop ------------------------------
(***************************************************************************)
(* The main loop of the drone node.  Three threads meet here: the loop     *)
(* itself, which turns one tick's readings into a command; the receive     *)
(* thread of the mesh, which leaves commands of peers in a mailbox of one  *)
(* place and errors in a string; and the task that publishes telemetry.    *)
(*                                                                         *)
(* A tick has four steps, as far apart as the other threads can tell:      *)
(*   Sense    reads the sensors, the mesh error and the client's status    *)
(*   Decide   assesses security and safety and takes the decision through  *)
(*            its writers: the decision engine, the security failsafe, the *)
(*            peer's command, the safety manager                           *)
(*   Uplink   reaps the publishing task and starts the next one            *)
(*   Report   notes what the client says of itself                         *)
(***************************************************************************)
EXTENDS DroneSecurity, CommandPolicy, DecisionEngine, Localization, TelemetryClient

Safety == INSTANCE SafetyManager

CONSTANTS Profiles,     \* the configurations a node may have been started with
          Readings,     \* what one tick may read of the world
          Rejections,   \* the mesh errors that may occur
          Answers,      \* how a publication may end
          MaxPeerEvents \* bound: commands of peers and rejected frames in a behaviour

(* A hardened node without a swarm secret of its own, or with a placeholder for one, does not
   start (run_main() returns before the loop). *)
ASSUME LoopAssumption ==
    /\ MaxPeerEvents \in Nat
    /\ \A p \in Profiles : p.hardened => p.secure /\ ~ p.placeholder
    /\ \A r \in Readings : r.battery \in Int
    /\ Rejections \subseteq MeshErrors
    /\ Answers \subseteq {"accepted", "transport", "rejected", "identity"}

VARIABLES
    pc,         \* the next step of the main thread
    profile,    \* the configuration
    reading,    \* what Sense has read of the world
    backendOk,  \* what Sense has read of the client
    tick,       \* what Decide has made of it
    home,       \* home_position_ of the decision engine: "unset", "origin" or "away"
    sync,       \* the time synchronization tracker
    monitor,    \* the security monitor
    seenError,  \* last_mesh_security_error of the loop
    meshError,  \* last_error_ of the mesh, written by the receive thread
    pending,    \* pending_remote_command
    client,     \* the telemetry client
    publishing, \* its task: "idle", "running" or "finished"
    events,     \* history: commands and rejected frames that have arrived
    stopOwed,   \* history: an emergency stop arrived since the last decision
    sinceOutage \* history: ticks since the loop last noted a failed publication

vars == <<pc, profile, reading, backendOk, tick, home, sync, monitor, seenError, meshError, pending, client,
          publishing, events, stopOwed, sinceOutage>>

NoOutage == TrustWindow + 1
NoReading == [atOrigin |-> FALSE]
NoTick == [security |-> "none", safety |-> "none", geofenceClear |-> TRUE, uplinkAllowed |-> FALSE,
           decision |-> build("HOLD_POSITION", FALSE), asked |-> "NONE", executed |-> "NONE",
           command |-> build("HOLD_POSITION", FALSE), stopOwed |-> FALSE]

Init ==
    /\ pc = "sense"
    /\ profile \in Profiles
    /\ reading = NoReading /\ backendOk = TRUE
    /\ tick = NoTick
    /\ home = "unset"
    /\ sync = InitSync
    /\ monitor = InitMonitor
    /\ seenError = Quiet /\ meshError = Quiet
    /\ pending = NoCommand
    /\ client = InitClient(profile.backend)
    /\ publishing = "idle"
    /\ events = 0 /\ stopOwed = FALSE /\ sinceOutage = NoOutage

-------------------------------------------------------------------------------
(* What a tick makes of its readings r. *)

EmergencyFault(r) == r.battery < 12 \/ r.motor = "fault" \/ r.link < 120

Observed(r) ==
    LET i == IF profile.imu THEN observe_imu(Later(sync), 0) ELSE sync
    IN  IF profile.camera THEN observe_camera(i, 0) ELSE i

FusionInput(r) == [r EXCEPT !.frame = profile.camera]

geofence_clear(r) == home # "away" \/ ~ r.beyond
no_fly_lock(r)    == profile.noFly \/ (r.crowded /\ r.battery < 20)
issuer_trust == IF profile.secure THEN IF profile.placeholder THEN 450 ELSE 850
                ELSE IF profile.hardened THEN 300 ELSE 650

SecurityInputs(r, s, fused) ==
    [hardened |-> profile.hardened, secure |-> profile.secure,
     placeholder |-> profile.placeholder, lost |-> fused.lost,
     emergency |-> EmergencyFault(r), geofenceClear |-> geofence_clear(r),
     noFly |-> no_fly_lock(r),
     consistent |-> ~ r.peers \/ (s.confidence >= 350 /\ r.link >= 180),
     backendOk |-> backendOk, battery |-> r.battery, link |-> r.link,
     sync |-> s.confidence, confidence |-> fused.confidence, issuer |-> issuer_trust,
     margin |-> FormationMargin(~ EmergencyFault(r) /\ ~ r.hot, fused.confidence, r.battery)]

SafetyContext(r, s, fused, security) ==
    [security |-> security, motorLocked |-> r.motor # "ok", sensorFault |-> r.sensorFault,
     imuAvailable |-> ~ profile.imu \/ r.imuUp, cameraAvailable |-> ~ profile.camera \/ r.cameraUp,
     production |-> profile.production, lidarRequired |-> profile.lidarRequired,
     lidarAvailable |-> r.lidarUp, link |-> r.link, sync |-> s.confidence,
     lost |-> fused.lost, degraded |-> fused.degraded, confidence |-> fused.confidence,
     source |-> fused.source]

DecisionContext(r, s, fused) ==
    [battery |-> r.battery, lost |-> fused.lost, degraded |-> fused.degraded,
     confidence |-> fused.confidence, sync |-> s.confidence,
     tdoa |-> IF r.tdoa.kind = "none" THEN 0 ELSE r.tdoa.confidence, anchors |-> r.visibility,
     tracking |-> profile.camera /\ (r.focus # "empty" \/ fused.confidence >= 550 \/ r.loops),
     relocalized |-> r.loops, obstacle |-> r.obstacle, caution |-> r.caution,
     follower |-> r.follower, frame |-> profile.camera, inference |-> r.inference,
     focus |-> r.focus]

Sense(r) ==
    /\ pc = "sense"
    /\ reading' = r
    /\ backendOk' = ~ Failed(client.status)
    /\ sync' = Observed(r)
    /\ monitor' = decay_failures(IF meshError # Quiet /\ meshError # seenError
                                 THEN note_mesh_security_error(Aged(monitor), meshError)
                                 ELSE Aged(monitor))
    /\ seenError' = IF meshError # Quiet THEN meshError ELSE seenError
    /\ client' = Waited(client)
    /\ sinceOutage' = IF sinceOutage < NoOutage THEN sinceOutage + 1 ELSE sinceOutage
    /\ pc' = "decide"
    /\ UNCHANGED <<profile, tick, home, meshError, pending, publishing, events, stopOwed>>

\* apply_security_failsafe(): the security state rewrites what the engine decided.
apply_security_failsafe(state, decision) ==
    CASE state = "LAND_IMMEDIATELY" -> build("EMERGENCY_LAND", TRUE)
      [] state = "SAFE_RETURN" /\ decision.mode # "EMERGENCY_LAND" -> build("RETURN_HOME", TRUE)
      [] /\ state \in {"ISOLATED_AUTONOMY", "CONTROL_PLANE_UNTRUSTED", "PEER_SPOOF_SUSPECT",
                       "COMMAND_REPLAY_SUSPECT", "AUTH_SUSPECT"}
         /\ decision.mode \notin {"EMERGENCY_LAND", "SAFE_RETURN_BY_ANCHOR", "LOCALIZATION_LOST"}
                                    -> build("HOLD_POSITION", TRUE)
      [] OTHER                      -> decision

\* The command after its first three writers: the engine, the failsafe and the peer.
Steered(state, decision, accepted, command) ==
    IF accepted THEN apply_remote_command(command, apply_security_failsafe(state, decision))
    ELSE apply_security_failsafe(state, decision)

\* faulty: the peer's command is applied after the safety manager
DecidePeerLast ==
    /\ pc = "decide"
    /\ \E s \in {status(sync, reading.anchorOffset)} :
       \E fused \in {fuse(FusionInput(reading), s)} :
       \E in \in {SecurityInputs(reading, s, fused)} :
       \E security \in {evaluate(monitor, in)} :
       \E safety \in {Safety!evaluate(SafetyContext(reading, s, fused, security.state))} :
       \E decision \in {update(DecisionContext(reading, s, fused))} :
       \E reason \in {evaluate_remote_command(security, in, pending)} :
           /\ monitor' = IF pending = NoCommand \/ reason = "accepted" THEN monitor
                         ELSE note_remote_command_rejection(monitor, reason)
           /\ tick' = [security |-> security.state, safety |-> safety, decision |-> decision,
                       geofenceClear |-> in.geofenceClear,
                       uplinkAllowed |-> security.uplinkAllowed, stopOwed |-> stopOwed,
                       asked |-> pending.action,
                       executed |-> IF reason = "accepted" THEN pending.action ELSE "NONE",
                       command |-> 
                           LET guarded == Safety!enforce(safety,
                                              apply_security_failsafe(security.state, decision))
                           IN  IF reason = "accepted" THEN apply_remote_command(pending, guarded)
                               ELSE guarded]
    /\ home' = IF home # "unset" THEN home ELSE IF reading.atOrigin THEN "origin" ELSE "away"
    /\ pending' = NoCommand
    /\ stopOwed' = FALSE
    /\ reading' = NoReading /\ backendOk' = TRUE
    /\ pc' = "uplink"
    /\ UNCHANGED <<profile, sync, seenError, meshError, client, publishing, events, sinceOutage>>

\* The fourth writer is the safety manager.  The mailbox is emptied under its mutex whatever
\* becomes of the command.
Decide ==
    /\ pc = "decide"
    /\ \E s \in {status(sync, reading.anchorOffset)} :
       \E fused \in {fuse(FusionInput(reading), s)} :
       \E in \in {SecurityInputs(reading, s, fused)} :
       \E security \in {evaluate(monitor, in)} :
       \E safety \in {Safety!evaluate(SafetyContext(reading, s, fused, security.state))} :
       \E decision \in {update(DecisionContext(reading, s, fused))} :
       \E reason \in {evaluate_remote_command(security, in, pending)} :
           /\ monitor' = IF pending = NoCommand \/ reason = "accepted" THEN monitor
                         ELSE note_remote_command_rejection(monitor, reason)
           /\ tick' = [security |-> security.state, safety |-> safety, decision |-> decision,
                       geofenceClear |-> in.geofenceClear,
                       uplinkAllowed |-> security.uplinkAllowed, stopOwed |-> stopOwed,
                       asked |-> pending.action,
                       executed |-> IF reason = "accepted" THEN pending.action ELSE "NONE",
                       command |-> Safety!enforce(safety, Steered(security.state, decision,
                                                            reason = "accepted", pending))]
    /\ home' = IF home # "unset" THEN home ELSE IF reading.atOrigin THEN "origin" ELSE "away"
    /\ pending' = NoCommand
    /\ stopOwed' = FALSE
    /\ reading' = NoReading /\ backendOk' = TRUE
    /\ pc' = "uplink"
    /\ UNCHANGED <<profile, sync, seenError, meshError, client, publishing, events, sinceOutage>>

\* faulty: a finished task is not reaped
UplinkUnreaped ==
    /\ pc = "uplink"
    /\ IF tick.uplinkAllowed /\ publishing = "idle" /\ should_publish(client)
       THEN publishing' = "running" /\ client' = Attempting(client)
       ELSE UNCHANGED <<publishing, client>>
    /\ tick' = NoTick
    /\ pc' = "report"
    /\ UNCHANGED <<profile, reading, backendOk, home, sync, monitor, seenError, meshError, pending, events,
                   stopOwed, sinceOutage>>

\* At most one publication is in flight; a finished one is reaped first.  The tick's readings and
\* its command are locals of the loop's body: nothing reads them afterwards.
Uplink ==
    /\ pc = "uplink"
    /\ LET reaped == IF publishing = "finished" THEN "idle" ELSE publishing
       IN  IF tick.uplinkAllowed /\ reaped = "idle" /\ should_publish(client)
           THEN publishing' = "running" /\ client' = Attempting(client)
           ELSE publishing' = reaped /\ UNCHANGED client
    /\ tick' = NoTick
    /\ pc' = "report"
    /\ UNCHANGED <<profile, reading, backendOk, home, sync, monitor, seenError, meshError, pending, events,
                   stopOwed, sinceOutage>>

\* The loop notes the client's status, which the task may have changed since Sense read it.
Report ==
    /\ pc = "report"
    /\ monitor' = IF client.enabled THEN note_control_plane_status(monitor, client.status) ELSE monitor
    /\ sinceOutage' = IF client.enabled /\ Failed(client.status) /\ client.status # monitor.status
                      THEN 0 ELSE sinceOutage
    /\ pc' = "sense"
    /\ UNCHANGED <<profile, reading, backendOk, tick, home, sync, seenError, meshError, pending, client, publishing,
                   events, stopOwed>>

-------------------------------------------------------------------------------
(* The other threads. *)

\* The receive thread hands over a message: a command takes the place of the one before it.
\* A frame that opens clears the error of the mesh.
Receive(msg) ==
    /\ events < MaxPeerEvents
    /\ LET command == command_from_swarm_message(msg)
       IN  /\ events' = IF command # NoCommand THEN events + 1 ELSE events
           /\ pending' = IF command # NoCommand THEN command ELSE pending
           /\ stopOwed' = (stopOwed \/ msg.type = "EMERGENCY_STOP")
    /\ meshError' = IF profile.secure THEN Quiet ELSE meshError
    /\ UNCHANGED <<pc, profile, reading, backendOk, tick, home, sync, monitor, seenError, client, publishing, sinceOutage>>

\* A frame the mesh security refuses.
RejectFrame(error) ==
    /\ profile.secure
    /\ error # meshError /\ events < MaxPeerEvents
    /\ meshError' = error
    /\ events' = events + 1
    /\ UNCHANGED <<pc, profile, reading, backendOk, tick, home, sync, monitor, seenError, pending, client, publishing,
                   stopOwed, sinceOutage>>

\* The publishing task ends with an answer or without one.
FinishPublish(result) ==
    /\ publishing = "running"
    /\ publishing' = "finished"
    /\ client' = mark_result(client, result)
    /\ UNCHANGED <<pc, profile, reading, backendOk, tick, home, sync, monitor, seenError, meshError, pending, events,
                   stopOwed, sinceOutage>>

Loop == (\E r \in Readings : Sense(r)) \/ Decide \/ Uplink \/ Report
Task == \E result \in Answers : FinishPublish(result)
Mesh == (\E msg \in SwarmMessage : Receive(msg)) \/ (\E e \in Rejections : RejectFrame(e))

Next == Loop \/ Task \/ Mesh

\* The steps of the loop in turn.  One of them is always enabled and they alone move pc, so weak
\* fairness of Turn is weak fairness of Loop.
Turn == pc' = [sense |-> "decide", decide |-> "uplink", uplink |-> "report", report |-> "sense"][pc]

\* The loop never blocks on another thread and a publication ends by its timeout.
Spec == Init /\ [][Next]_vars /\ WF_pc(Turn) /\ WF_vars(Task)

-------------------------------------------------------------------------------
(* Properties.  A tick's command is final between Decide and Uplink. *)

Final == pc = "uplink"
PeerSteers == tick.executed \in {"HOLD_POSITION", "RETURN_HOME", "FORMATION_HOLD"}

(* An emergency stop that is still in the mailbox when the tick decides ends in a landing,
   whatever the policy, the security state, the safety state and the decision engine make of
   the tick: three writers come after or around it. *)
StopIsObeyed == Final /\ tick.asked = "EMERGENCY_LAND" => tick.command.mode = "EMERGENCY_LAND"

(* Every emergency stop that arrived since the last decision makes the next command a landing
   (the mailbox has one place and the last writer wins). *)
EveryStopIsObeyed == Final /\ tick.stopOwed => tick.command.mode = "EMERGENCY_LAND"

(* The local safety manager has the last word over decision engine, failsafe and peer: no
   command survives that its state forbids. *)
SafetyHasLastWord ==
    Final => CASE tick.safety \in {"EMERGENCY_LAND", "MOTOR_LOCKED"} ->
                      tick.command.mode = "EMERGENCY_LAND"
               [] tick.safety \in {"SENSOR_FAULT", "LINK_LOST"} ->
                      tick.command.mode \in {"HOLD_POSITION", "EMERGENCY_LAND"}
               [] tick.safety = "LOCALIZATION_LOST" ->
                      tick.command.mode \in {"LOCALIZATION_LOST", "EMERGENCY_LAND"}
               [] OTHER -> TRUE

(* A landing ordered by the decision engine (critical battery) or by a peer is never taken back
   by a milder writer: not by a hold for a faulty sensor, not by a peer's hold. *)
LandingIsNotTakenBack ==
    Final /\ (tick.decision.mode = "EMERGENCY_LAND" \/ tick.executed = "EMERGENCY_LAND"
              \/ tick.security = "LAND_IMMEDIATELY") =>
        tick.command.mode = "EMERGENCY_LAND"

(* For a whole trust window after the loop noted a failed publication no peer steers the drone
   (an emergency stop apart), however the failures, the texts and the ticks fall. *)
OutageSuspendsPeers == Final /\ PeerSteers => sinceOutage > TrustWindow

(* Once the drone has a home away from the origin, a tick that reads it beyond the geofence ends
   in a return, a landing or one of the holds of the safety manager. *)
GeofenceTurnsBack ==
    Final /\ ~ tick.geofenceClear =>
        \/ tick.command.mode \in {"RETURN_HOME", "EMERGENCY_LAND"}
        \/ tick.safety \in {"SENSOR_FAULT", "LINK_LOST", "LOCALIZATION_LOST"}

(* Distrust of peers fades: when nothing more is refused, the replay and authorization failures
   the loop has counted expire, though it goes on looking at the same last mesh error. *)
DistrustFades == <>[](monitor.replay.count = 0 /\ monitor.auth.count = 0)

(* A backend that failed is tried again, unless the drone is landing or another trust loss keeps
   it from deciding: the wait between attempts is bounded and the future is reaped. *)
BackendIsRetried ==
    client.failures > 0 ~> (publishing = "running" \/ tick.security = "LAND_IMMEDIATELY")
===============================================================================
