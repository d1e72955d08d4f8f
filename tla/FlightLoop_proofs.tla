-------------------------- MODULE FlightLoop_proofs --------------------------
(***************************************************************************)
(* Proofs about FlightLoop, for every configuration that may start, every  *)
(* reading of the world, every length of the memory of failures and every  *)
(* interleaving of the loop with the mesh and the publishing task.         *)
(*                                                                         *)
(* The five properties are about the tick between Decide and Uplink.  What *)
(* they need of the past is in IInv: the reading a tick decides on was     *)
(* read by Sense, and a failed publication is remembered as long as the    *)
(* trust window says.                                                      *)
(***************************************************************************)
EXTENDS FlightLoop, TLAPS

(***************************************************************************)
(* The writers of a command, one by one.                                   *)
(***************************************************************************)

(* Peers are listened to only in the two lowest states of the ladder.      *)
LEMMA RemoteAllowed ==
    ASSUME NEW m, NEW in, evaluate(m, in).remoteAllowed
    PROVE  Ladder(m, in) \in {"TRUSTED", "DEGRADED_LINK"}
  BY DEF evaluate, Assessment

LEMMA AssessedState ==
    ASSUME NEW m, NEW in
    PROVE  evaluate(m, in).state = Ladder(m, in)
  BY DEF evaluate, Assessment

(* The policy accepts every emergency stop, and anything else only while   *)
(* the security state listens to peers.                                    *)
LEMMA PolicyAccepts ==
    ASSUME NEW security, NEW in, NEW command
    PROVE  /\ command.action = "EMERGENCY_LAND" =>
                  evaluate_remote_command(security, in, command) = "accepted"
           /\ evaluate_remote_command(security, in, command) = "accepted"
              /\ command.action # "EMERGENCY_LAND" => security.remoteAllowed
<1>1. ASSUME command.action = "EMERGENCY_LAND"
      PROVE  evaluate_remote_command(security, in, command) = "accepted"
  BY <1>1 DEF evaluate_remote_command
<1>2. ASSUME evaluate_remote_command(security, in, command) = "accepted",
             command.action # "EMERGENCY_LAND", ~ security.remoteAllowed
      PROVE  FALSE
  BY <1>2 DEF evaluate_remote_command
<1> QED
  BY <1>1, <1>2

(* The failsafe keeps a landing, and makes one of the gravest state.       *)
LEMMA FailsafeLands ==
    ASSUME NEW state, NEW decision,
           decision.mode = "EMERGENCY_LAND" \/ state = "LAND_IMMEDIATELY"
    PROVE  apply_security_failsafe(state, decision).mode = "EMERGENCY_LAND"
  BY DEF apply_security_failsafe, build

LEMMA FailsafeReturns ==
    ASSUME NEW decision
    PROVE  apply_security_failsafe("SAFE_RETURN", decision).mode
               \in {"RETURN_HOME", "EMERGENCY_LAND"}
  BY DEF apply_security_failsafe, build

(* The safety manager keeps a landing, and otherwise what its state allows. *)
LEMMA EnforceKeepsLanding ==
    ASSUME NEW state, NEW command, command.mode = "EMERGENCY_LAND"
    PROVE  Safety!enforce(state, command).mode = "EMERGENCY_LAND"
  BY DEF Safety!enforce

LEMMA EnforceHasLastWord ==
    ASSUME NEW state, NEW command
    PROVE  LET mode == Safety!enforce(state, command).mode
           IN  /\ state \in {"EMERGENCY_LAND", "MOTOR_LOCKED"} => mode = "EMERGENCY_LAND"
               /\ state \in {"SENSOR_FAULT", "LINK_LOST"} =>
                      mode \in {"HOLD_POSITION", "EMERGENCY_LAND"}
               /\ state = "LOCALIZATION_LOST" => mode \in {"LOCALIZATION_LOST", "EMERGENCY_LAND"}
               /\ state \notin {"EMERGENCY_LAND", "MOTOR_LOCKED", "SENSOR_FAULT", "LINK_LOST",
                                "LOCALIZATION_LOST"} => Safety!enforce(state, command) = command
  BY DEF Safety!enforce

(* The rungs of the ladder the properties depend on.                       *)
LEMMA LadderRungs ==
    ASSUME NEW m, NEW in
    PROVE  /\ in.emergency => Ladder(m, in) = "LAND_IMMEDIATELY"
           /\ ~ in.geofenceClear =>
                  \/ Ladder(m, in) \in {"LAND_IMMEDIATELY", "SAFE_RETURN"}
                  \/ in.hardened /\ (~ in.secure \/ in.placeholder)
           /\ m.plane.count > 0 => Ladder(m, in) \notin {"TRUSTED", "DEGRADED_LINK"}
  BY DEF Ladder

(* The decision engine lands by itself only on a critical battery.         *)
LEMMA EngineLands ==
    ASSUME NEW ctx, update(ctx).mode = "EMERGENCY_LAND"
    PROVE  ctx.battery > 0 /\ ctx.battery <= 8
  BY DEF update, build, LostDecision, DegradedDecision, FocusDecision, hold_or_search

(***************************************************************************)
(* One tick.                                                               *)
(***************************************************************************)

(* What Decide writes, with the names of its intermediate results.         *)
Decided(s, fused, in, reason, safety, decision) ==
    /\ in = SecurityInputs(reading, s, fused)
    /\ decision = update(DecisionContext(reading, s, fused))
    /\ reason = evaluate_remote_command(evaluate(monitor, in), in, pending)
    /\ tick'.security = Ladder(monitor, in)
    /\ tick'.safety = safety
    /\ tick'.decision = decision
    /\ tick'.geofenceClear = in.geofenceClear
    /\ tick'.asked = pending.action
    /\ tick'.executed = IF reason = "accepted" THEN pending.action ELSE "NONE"
    /\ tick'.command = Safety!enforce(safety, Steered(Ladder(monitor, in), decision,
                                                      reason = "accepted", pending))

LEMMA TickDecided ==
    ASSUME Decide
    PROVE  \E s, fused, in, reason, safety, decision :
               Decided(s, fused, in, reason, safety, decision)
<1> DEFINE Result(security, in, safety, decision, reason) ==
        tick' = [security |-> security.state, safety |-> safety, decision |-> decision,
                 geofenceClear |-> in.geofenceClear,
                 uplinkAllowed |-> security.uplinkAllowed, stopOwed |-> stopOwed,
                 asked |-> pending.action,
                 executed |-> IF reason = "accepted" THEN pending.action ELSE "NONE",
                 command |-> Safety!enforce(safety, Steered(security.state, decision,
                                                      reason = "accepted", pending))]
<1>1. PICK s \in {status(sync, reading.anchorOffset)} :
      \E fused \in {fuse(FusionInput(reading), s)} :
      \E in \in {SecurityInputs(reading, s, fused)} :
      \E security \in {evaluate(monitor, in)} :
      \E safety \in {Safety!evaluate(SafetyContext(reading, s, fused, security.state))} :
      \E decision \in {update(DecisionContext(reading, s, fused))} :
      \E reason \in {evaluate_remote_command(security, in, pending)} :
          Result(security, in, safety, decision, reason)
  BY DEF Decide
<1> HIDE DEF Result
<1>2. PICK fused \in {fuse(FusionInput(reading), s)} :
      \E in \in {SecurityInputs(reading, s, fused)} :
      \E security \in {evaluate(monitor, in)} :
      \E safety \in {Safety!evaluate(SafetyContext(reading, s, fused, security.state))} :
      \E decision \in {update(DecisionContext(reading, s, fused))} :
      \E reason \in {evaluate_remote_command(security, in, pending)} :
          Result(security, in, safety, decision, reason)
  BY <1>1
<1>3. PICK in \in {SecurityInputs(reading, s, fused)} :
      \E security \in {evaluate(monitor, in)} :
      \E safety \in {Safety!evaluate(SafetyContext(reading, s, fused, security.state))} :
      \E decision \in {update(DecisionContext(reading, s, fused))} :
      \E reason \in {evaluate_remote_command(security, in, pending)} :
          Result(security, in, safety, decision, reason)
  BY <1>2
<1>4. PICK security \in {evaluate(monitor, in)},
           safety \in {Safety!evaluate(SafetyContext(reading, s, fused, Ladder(monitor, in)))},
           decision \in {update(DecisionContext(reading, s, fused))} :
      \E reason \in {evaluate_remote_command(security, in, pending)} :
          Result(security, in, safety, decision, reason)
  BY <1>3, AssessedState
<1>5. PICK reason \in {evaluate_remote_command(security, in, pending)} :
          Result(security, in, safety, decision, reason)
  BY <1>4
<1>6. Decided(s, fused, in, reason, safety, decision)
  BY <1>3, <1>4, <1>5, AssessedState DEF Result, Decided
<1> QED
  BY <1>6

(* A peer that steers was accepted in one of the two lowest states.        *)
LEMMA AcceptedOnlyWhenTrusted ==
    ASSUME NEW s, NEW fused, NEW in, NEW reason, NEW safety, NEW decision,
           Decided(s, fused, in, reason, safety, decision),
           reason = "accepted", pending.action # "EMERGENCY_LAND"
    PROVE  Ladder(monitor, in) \in {"TRUSTED", "DEGRADED_LINK"}
  BY PolicyAccepts, RemoteAllowed DEF Decided

(* In any other state nothing of a peer but an emergency stop counts.      *)
LEMMA SteeredByFailsafe ==
    ASSUME NEW state, NEW decision, NEW reason, NEW command
    PROVE  /\ reason # "accepted" =>
                  Steered(state, decision, reason = "accepted", command)
                      = apply_security_failsafe(state, decision)
           /\ reason = "accepted" /\ command.action = "EMERGENCY_LAND" =>
                  Steered(state, decision, reason = "accepted", command).mode = "EMERGENCY_LAND"
  BY DEF Steered, apply_remote_command

LEMMA DecideStop ==
    ASSUME Decide
    PROVE  tick'.asked = "EMERGENCY_LAND" => tick'.command.mode = "EMERGENCY_LAND"
<1> PICK s, fused, in, reason, safety, decision :
        Decided(s, fused, in, reason, safety, decision)
  BY TickDecided
<1> SUFFICES ASSUME pending.action = "EMERGENCY_LAND"
             PROVE  tick'.command.mode = "EMERGENCY_LAND"
  BY DEF Decided
<1>1. reason = "accepted"
  BY PolicyAccepts DEF Decided
<1>2. Steered(Ladder(monitor, in), decision, reason = "accepted", pending).mode
          = "EMERGENCY_LAND"
  BY <1>1, SteeredByFailsafe
<1> QED
  BY <1>2, EnforceKeepsLanding DEF Decided

LEMMA DecideLastWord ==
    ASSUME Decide
    PROVE  /\ tick'.safety \in {"EMERGENCY_LAND", "MOTOR_LOCKED"} =>
                  tick'.command.mode = "EMERGENCY_LAND"
           /\ tick'.safety \in {"SENSOR_FAULT", "LINK_LOST"} =>
                  tick'.command.mode \in {"HOLD_POSITION", "EMERGENCY_LAND"}
           /\ tick'.safety = "LOCALIZATION_LOST" =>
                  tick'.command.mode \in {"LOCALIZATION_LOST", "EMERGENCY_LAND"}
<1> PICK s, fused, in, reason, safety, decision :
        Decided(s, fused, in, reason, safety, decision)
  BY TickDecided
<1> QED
  BY EnforceHasLastWord DEF Decided

(* A decision to land for the battery makes the security state the gravest *)
(* one, in which no peer but one that wants a landing too is listened to.  *)
LEMMA LandingIsGravest ==
    ASSUME NEW s, NEW fused, NEW in, NEW reason, NEW safety, NEW decision,
           Decided(s, fused, in, reason, safety, decision),
           reading.battery \in Int, decision.mode = "EMERGENCY_LAND"
    PROVE  Ladder(monitor, in) = "LAND_IMMEDIATELY"
<1>1. reading.battery <= 8
  BY EngineLands DEF Decided, DecisionContext
<1>2. EmergencyFault(reading)
  BY <1>1 DEF EmergencyFault
<1>3. in.emergency = EmergencyFault(reading)
  BY DEF Decided, SecurityInputs
<1> QED
  BY <1>2, <1>3, LadderRungs

LEMMA DecideLanding ==
    ASSUME Decide, reading.battery \in Int,
           \/ tick'.decision.mode = "EMERGENCY_LAND"
           \/ tick'.executed = "EMERGENCY_LAND"
           \/ tick'.security = "LAND_IMMEDIATELY"
    PROVE  tick'.command.mode = "EMERGENCY_LAND"
<1> PICK s, fused, in, reason, safety, decision :
        Decided(s, fused, in, reason, safety, decision)
  BY TickDecided
<1> DEFINE state == Ladder(monitor, in)
           steered == Steered(state, decision, reason = "accepted", pending)
<1> SUFFICES steered.mode = "EMERGENCY_LAND"
  BY EnforceKeepsLanding DEF Decided
<1>1. CASE tick'.executed = "EMERGENCY_LAND"
  <2>1. reason = "accepted" /\ pending.action = "EMERGENCY_LAND"
    BY <1>1 DEF Decided
  <2> QED
    BY <2>1, SteeredByFailsafe
<1>2. CASE state = "LAND_IMMEDIATELY"
  <2>1. CASE reason = "accepted"
    BY <1>2, <2>1, AcceptedOnlyWhenTrusted, SteeredByFailsafe
  <2>2. CASE reason # "accepted"
    BY <1>2, <2>2, SteeredByFailsafe, FailsafeLands
  <2> QED
    BY <2>1, <2>2
<1>3. CASE tick'.decision.mode = "EMERGENCY_LAND"
  <2>1. decision.mode = "EMERGENCY_LAND"
    BY <1>3 DEF Decided
  <2> QED
    BY <1>2, <2>1, LandingIsGravest
<1>4. tick'.security = state
  BY DEF Decided
<1> QED
  BY <1>1, <1>2, <1>3, <1>4

LEMMA DecideGeofence ==
    ASSUME Decide, profile \in Profiles, ~ tick'.geofenceClear
    PROVE  \/ tick'.command.mode \in {"RETURN_HOME", "EMERGENCY_LAND"}
           \/ tick'.safety \in {"SENSOR_FAULT", "LINK_LOST", "LOCALIZATION_LOST"}
<1> PICK s, fused, in, reason, safety, decision :
        Decided(s, fused, in, reason, safety, decision)
  BY TickDecided
<1> DEFINE state == Ladder(monitor, in)
           steered == Steered(state, decision, reason = "accepted", pending)
<1>1. ~ (in.hardened /\ (~ in.secure \/ in.placeholder))
  BY LoopAssumption DEF Decided, SecurityInputs
<1>2. ~ in.geofenceClear
  BY DEF Decided
<1>3. state \in {"LAND_IMMEDIATELY", "SAFE_RETURN"}
  BY <1>1, <1>2, LadderRungs
<1>4. steered.mode \in {"RETURN_HOME", "EMERGENCY_LAND"}
  <2>1. CASE reason = "accepted"
    <3>1. pending.action = "EMERGENCY_LAND"
      BY <1>3, <2>1, AcceptedOnlyWhenTrusted
    <3> QED
      BY <2>1, <3>1, SteeredByFailsafe
  <2>2. CASE reason # "accepted"
    <3>1. steered = apply_security_failsafe(state, decision)
      BY <2>2, SteeredByFailsafe
    <3> QED
      BY <1>3, <3>1, FailsafeLands, FailsafeReturns
  <2> QED
    BY <2>1, <2>2
<1>5. tick'.command = Safety!enforce(safety, steered) /\ tick'.safety = safety
  BY DEF Decided
<1> HIDE DEF steered
<1> QED
  BY <1>4, <1>5, EnforceHasLastWord, EnforceKeepsLanding

LEMMA DecideOutage ==
    ASSUME Decide, monitor.plane.count > 0
    PROVE  tick'.executed \notin {"HOLD_POSITION", "RETURN_HOME", "FORMATION_HOLD"}
<1> PICK s, fused, in, reason, safety, decision :
        Decided(s, fused, in, reason, safety, decision)
  BY TickDecided
<1>1. Ladder(monitor, in) \notin {"TRUSTED", "DEGRADED_LINK"}
  BY LadderRungs
<1>2. reason = "accepted" => pending.action = "EMERGENCY_LAND"
  BY <1>1, AcceptedOnlyWhenTrusted
<1> QED
  BY <1>2 DEF Decided

(***************************************************************************)
(* The memory of a failed publication.                                     *)
(***************************************************************************)
Remembers(m) == "plane" \in DOMAIN m /\ m.plane \in [count : Nat, age : Nat]

(* While the loop has noted a failure within the trust window, the monitor *)
(* still counts it, and takes it for no older than it is.                  *)
OutageRemembered ==
    sinceOutage <= TrustWindow => monitor.plane.count > 0 /\ monitor.plane.age <= sinceOutage

LEMMA AgedPlane ==
    ASSUME NEW m, Remembers(m)
    PROVE  /\ Remembers(Aged(m))
           /\ m.plane.count > 0 => /\ Aged(m).plane.count = m.plane.count
                                   /\ Aged(m).plane.age = m.plane.age + 1
  BY DEF Remembers, Aged, NoFailure

LEMMA MeshErrorKeepsPlane ==
    ASSUME NEW m, Remembers(m), NEW error
    PROVE  /\ Remembers(note_mesh_security_error(m, error))
           /\ note_mesh_security_error(m, error).plane = m.plane
  BY DEF Remembers, note_mesh_security_error

LEMMA RejectionKeepsPlane ==
    ASSUME NEW m, Remembers(m), NEW reason
    PROVE  /\ Remembers(note_remote_command_rejection(m, reason))
           /\ note_remote_command_rejection(m, reason).plane = m.plane
  BY DEF Remembers, note_remote_command_rejection

LEMMA DecayedPlane ==
    ASSUME NEW m, Remembers(m)
    PROVE  /\ Remembers(decay_failures(m))
           /\ m.plane.age <= TrustWindow => decay_failures(m).plane = m.plane
  BY WindowsAssumption DEF Remembers, decay_failures, NoFailure

LEMMA StatusNotesPlane ==
    ASSUME NEW m, Remembers(m), NEW text
    PROVE  /\ Remembers(note_control_plane_status(m, text))
           /\ m.plane.count > 0 =>
                  /\ note_control_plane_status(m, text).plane.count > 0
                  /\ note_control_plane_status(m, text).plane.age <= m.plane.age
           /\ Failed(text) /\ text # m.status =>
                  /\ note_control_plane_status(m, text).plane.count > 0
                  /\ note_control_plane_status(m, text).plane.age = 0
  BY DEF Remembers, note_control_plane_status, Counted, Failed

(***************************************************************************)
(* The inductive invariant.                                                *)
(***************************************************************************)
TickIsProper ==
    /\ StopIsObeyed
    /\ SafetyHasLastWord
    /\ LandingIsNotTakenBack
    /\ OutageSuspendsPeers
    /\ GeofenceTurnsBack

IInv ==
    /\ profile \in Profiles
    /\ pc = "decide" => reading \in Readings
    /\ Remembers(monitor)
    /\ sinceOutage \in Nat
    /\ OutageRemembered
    /\ TickIsProper

LEMMA InitIInv == Init => IInv
<1> SUFFICES ASSUME Init PROVE IInv
  OBVIOUS
<1>1. pc # "uplink" /\ pc # "decide" /\ profile \in Profiles
  BY DEF Init
<1>2. Remembers(monitor)
  BY DEF Init, InitMonitor, NoFailure, Remembers
<1>3. sinceOutage \in Nat /\ OutageRemembered
  BY WindowsAssumption DEF Init, NoOutage, OutageRemembered
<1> QED
  BY <1>1, <1>2, <1>3 DEF IInv, TickIsProper, StopIsObeyed, SafetyHasLastWord,
     LandingIsNotTakenBack, OutageSuspendsPeers, GeofenceTurnsBack, Final

LEMMA SenseKeeps ==
    ASSUME IInv, NEW r \in Readings, Sense(r)
    PROVE  IInv'
<1> DEFINE aged == Aged(monitor)
           noted == IF meshError # Quiet /\ meshError # seenError
                    THEN note_mesh_security_error(aged, meshError) ELSE aged
<1>1. monitor' = decay_failures(noted)
  BY DEF Sense
<1>2. Remembers(aged)
  BY AgedPlane DEF IInv
<1>3. Remembers(noted) /\ noted.plane = aged.plane
  BY <1>2, MeshErrorKeepsPlane
<1>4. Remembers(monitor')
  BY <1>1, <1>3, DecayedPlane
<1>5. sinceOutage' \in Nat
      /\ (sinceOutage' <= TrustWindow =>
             sinceOutage' = sinceOutage + 1 /\ sinceOutage <= TrustWindow)
  BY WindowsAssumption DEF Sense, NoOutage, IInv
<1>6. OutageRemembered'
  <2> SUFFICES ASSUME sinceOutage' <= TrustWindow
               PROVE  monitor'.plane.count > 0 /\ monitor'.plane.age <= sinceOutage'
    BY DEF OutageRemembered
  <2>1. monitor.plane.count > 0 /\ monitor.plane.age <= sinceOutage
    BY <1>5 DEF IInv, OutageRemembered
  <2>2. noted.plane.count > 0 /\ noted.plane.age = monitor.plane.age + 1
    BY <2>1, <1>3, AgedPlane DEF IInv
  <2>3. noted.plane.age <= sinceOutage'
    BY <1>5, <2>1, <2>2 DEF IInv, Remembers
  <2>4. noted.plane.age <= TrustWindow
    BY <2>3, <1>3, <1>5, WindowsAssumption DEF Remembers
  <2>5. monitor'.plane = noted.plane
    BY <1>1, <1>3, <2>4, DecayedPlane
  <2> QED
    BY <2>2, <2>3, <2>5
<1>7. pc' = "decide" /\ reading' \in Readings /\ profile' = profile
  BY DEF Sense
<1> QED
  BY <1>4, <1>5, <1>6, <1>7 DEF IInv, TickIsProper, StopIsObeyed, SafetyHasLastWord,
     LandingIsNotTakenBack, OutageSuspendsPeers, GeofenceTurnsBack, Final

LEMMA DecideKeeps ==
    ASSUME IInv, Decide
    PROVE  IInv'
<1>1. pc = "decide" /\ pc' = "uplink" /\ profile' = profile /\ sinceOutage' = sinceOutage
  BY DEF Decide
<1>2. reading.battery \in Int /\ profile \in Profiles
  BY <1>1, LoopAssumption DEF IInv
<1>3. Remembers(monitor') /\ monitor'.plane = monitor.plane
  <2>1. \E reason : monitor' = IF pending = NoCommand \/ reason = "accepted" THEN monitor
                               ELSE note_remote_command_rejection(monitor, reason)
    BY DEF Decide
  <2> QED
    BY <2>1, RejectionKeepsPlane DEF IInv
<1>4. StopIsObeyed' /\ SafetyHasLastWord'
  BY DecideStop, DecideLastWord DEF StopIsObeyed, SafetyHasLastWord
<1>5. LandingIsNotTakenBack'
  BY <1>2, DecideLanding DEF LandingIsNotTakenBack
<1>6. GeofenceTurnsBack'
  BY <1>2, DecideGeofence DEF GeofenceTurnsBack
<1>7. OutageSuspendsPeers'
  <2> SUFFICES ASSUME PeerSteers' PROVE sinceOutage > TrustWindow
    BY <1>1 DEF OutageSuspendsPeers
  <2>1. ~ (monitor.plane.count > 0)
    BY DecideOutage DEF PeerSteers
  <2> QED
    BY <2>1, WindowsAssumption DEF IInv, OutageRemembered
<1> QED
  BY <1>1, <1>3, <1>4, <1>5, <1>6, <1>7 DEF IInv, OutageRemembered, TickIsProper

LEMMA ReportKeeps ==
    ASSUME IInv, Report
    PROVE  IInv'
<1>1. pc' = "sense" /\ profile' = profile
  BY DEF Report
<1>2. CASE ~ client.enabled
  <2>1. monitor' = monitor /\ sinceOutage' = sinceOutage
    BY <1>2 DEF Report
  <2> QED
    BY <1>1, <2>1 DEF IInv, OutageRemembered, TickIsProper, StopIsObeyed, SafetyHasLastWord,
       LandingIsNotTakenBack, OutageSuspendsPeers, GeofenceTurnsBack, Final
<1>3. CASE client.enabled
  <2>1. monitor' = note_control_plane_status(monitor, client.status)
    BY <1>3 DEF Report
  <2>2. Remembers(monitor')
    BY <2>1, StatusNotesPlane DEF IInv
  <2>3. CASE Failed(client.status) /\ client.status # monitor.status
    <3>1. sinceOutage' = 0
      BY <1>3, <2>3 DEF Report
    <3>2. monitor'.plane.count > 0 /\ monitor'.plane.age = 0
      BY <2>1, <2>3, StatusNotesPlane DEF IInv
    <3> QED
      BY <1>1, <2>2, <3>1, <3>2 DEF IInv, OutageRemembered, TickIsProper, StopIsObeyed,
         SafetyHasLastWord, LandingIsNotTakenBack, OutageSuspendsPeers, GeofenceTurnsBack, Final
  <2>4. CASE ~ (Failed(client.status) /\ client.status # monitor.status)
    <3>1. sinceOutage' = sinceOutage
      BY <2>4 DEF Report
    <3>2. OutageRemembered'
      <4> SUFFICES ASSUME sinceOutage <= TrustWindow
                   PROVE  monitor'.plane.count > 0 /\ monitor'.plane.age <= sinceOutage
        BY <3>1 DEF OutageRemembered
      <4>1. monitor.plane.count > 0 /\ monitor.plane.age <= sinceOutage
        BY DEF IInv, OutageRemembered
      <4>2. monitor'.plane.count > 0 /\ monitor'.plane.age <= monitor.plane.age
        BY <2>1, <4>1, StatusNotesPlane DEF IInv
      <4> QED
        BY <2>2, <4>1, <4>2 DEF IInv, Remembers
    <3> QED
      BY <1>1, <2>2, <3>1, <3>2 DEF IInv, TickIsProper, StopIsObeyed,
         SafetyHasLastWord, LandingIsNotTakenBack, OutageSuspendsPeers, GeofenceTurnsBack, Final
  <2> QED
    BY <2>3, <2>4
<1> QED
  BY <1>2, <1>3

(* The other threads, and what the loop does between Decide and Report,    *)
(* touch nothing the invariant is about.                                   *)
LEMMA OthersKeep ==
    ASSUME IInv,
           UNCHANGED <<profile, reading, monitor, sinceOutage>>,
           \/ UNCHANGED <<pc, tick>>
           \/ pc' = "report"
    PROVE  IInv'
  BY DEF IInv, OutageRemembered, Remembers, TickIsProper, StopIsObeyed, SafetyHasLastWord,
     LandingIsNotTakenBack, OutageSuspendsPeers, GeofenceTurnsBack, Final, PeerSteers

LEMMA StepIInv == IInv /\ [Next]_vars => IInv'
<1> SUFFICES ASSUME IInv, [Next]_vars PROVE IInv'
  OBVIOUS
<1>1. CASE \E r \in Readings : Sense(r)
  BY <1>1, SenseKeeps
<1>2. CASE Decide
  BY <1>2, DecideKeeps
<1>3. CASE Uplink
  BY <1>3, OthersKeep DEF Uplink
<1>4. CASE Report
  BY <1>4, ReportKeeps
<1>5. ASSUME NEW result \in Answers, FinishPublish(result) PROVE IInv'
  BY <1>5, OthersKeep DEF FinishPublish
<1>6. ASSUME NEW msg \in SwarmMessage, Receive(msg) PROVE IInv'
  BY <1>6, OthersKeep DEF Receive
<1>7. ASSUME NEW e \in Rejections, RejectFrame(e) PROVE IInv'
  BY <1>7, OthersKeep DEF RejectFrame
<1>8. CASE UNCHANGED vars
  BY <1>8, OthersKeep DEF vars
<1> QED
  BY <1>1, <1>2, <1>3, <1>4, <1>5, <1>6, <1>7, <1>8 DEF Next, Loop, Task, Mesh

LEMMA AlwaysIInv == Spec => []IInv
  BY InitIInv, StepIInv, PTL DEF Spec

(***************************************************************************)
(* Theorems.                                                               *)
(***************************************************************************)

(* An emergency stop that is in the mailbox when a tick decides makes the  *)
(* tick's command a landing, whatever else the tick has read.              *)
THEOREM StopsAreObeyed == Spec => []StopIsObeyed
<1>1. IInv => StopIsObeyed
  BY DEF IInv, TickIsProper
<1> QED
  BY <1>1, AlwaysIInv, PTL

(* No command survives that the state of the local safety manager forbids. *)
THEOREM SafetyWritesLast == Spec => []SafetyHasLastWord
<1>1. IInv => SafetyHasLastWord
  BY DEF IInv, TickIsProper
<1> QED
  BY <1>1, AlwaysIInv, PTL

(* A landing decided on for the battery, ordered by a peer or by the       *)
(* security state is never taken back by a milder writer.                  *)
THEOREM LandingsStand == Spec => []LandingIsNotTakenBack
<1>1. IInv => LandingIsNotTakenBack
  BY DEF IInv, TickIsProper
<1> QED
  BY <1>1, AlwaysIInv, PTL

(* For a whole trust window after a failed publication was noted no peer   *)
(* steers the drone.                                                       *)
THEOREM OutagesSuspendPeers == Spec => []OutageSuspendsPeers
<1>1. IInv => OutageSuspendsPeers
  BY DEF IInv, TickIsProper
<1> QED
  BY <1>1, AlwaysIInv, PTL

(* A tick that reads the drone beyond its geofence ends in a return, a     *)
(* landing or a hold of the safety manager.                                *)
THEOREM GeofencesTurnBack == Spec => []GeofenceTurnsBack
<1>1. IInv => GeofenceTurnsBack
  BY DEF IInv, TickIsProper
<1> QED
  BY <1>1, AlwaysIInv, PTL
===============================================================================
