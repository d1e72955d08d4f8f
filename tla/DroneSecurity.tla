---------------------------- MODULE DroneSecurity ----------------------------
(***************************************************************************)
(* SecurityRuntimeMonitor: what the node remembers of failures noted by    *)
(* the mesh, by the remote command policy and by the control plane client, *)
(* and the ladder that turns them and the readings of one tick into a      *)
(* security state.  The monitor is a record, the operations return the     *)
(* next one; FlightLoop owns the variable.                                 *)
(*                                                                         *)
(* Time is counted in ticks of the main loop (500 ms).  A failure carries  *)
(* its age in ticks instead of the time it was seen at.  Confidences and   *)
(* qualities are in thousandths.  trust_epoch_, scores, summaries and      *)
(* health flags are left out: they are reported, nothing here reads them.  *)
(***************************************************************************)
EXTENDS Naturals

CONSTANTS AuthWindow,   \* ticks an authorization failure is remembered (90 s)
          TrustWindow   \* ticks the other failures are remembered (120 s)

ASSUME WindowsAssumption == AuthWindow \in Nat \ {0} /\ TrustWindow \in Nat \ {0}

DroneSecurityState ==
    {"TRUSTED", "DEGRADED_LINK", "AUTH_SUSPECT", "PEER_SPOOF_SUSPECT",
     "COMMAND_REPLAY_SUSPECT", "CONTROL_PLANE_UNTRUSTED", "ISOLATED_AUTONOMY",
     "SAFE_RETURN", "LAND_IMMEDIATELY"}

\* A text the sources compare only with the one before it, "" when there is none.
MeshErrors == {"replay rejected", "ledger chain mismatch", "mac mismatch", "signature mismatch"}
Quiet == ""

AuthLimit   == 3
ReplayLimit == 2

\* A counter saturates where the ladder stops telling its values apart.
Failures(limit) == [count : 0 .. limit, age : 0 .. TrustWindow + AuthWindow + 1]
NoFailure       == [count |-> 0, age |-> 0]
Counted(f, limit) == [count |-> IF f.count < limit THEN f.count + 1 ELSE limit, age |-> 0]

Monitor(Status) ==
    [auth : Failures(AuthLimit), replay : Failures(ReplayLimit), spoof : Failures(1),
     plane : Failures(1), identity : BOOLEAN,
     mesh : MeshErrors \union {Quiet}, status : Status]

InitMonitor == [auth |-> NoFailure, replay |-> NoFailure, spoof |-> NoFailure,
                plane |-> NoFailure, identity |-> FALSE,
                mesh |-> Quiet, status |-> [kind |-> "none", level |-> 0]]

\* A mesh error is counted once per change of text, by the words it contains.
note_mesh_security_error(m, error) ==
    IF error = Quiet \/ error = m.mesh THEN m
    ELSE IF error = "replay rejected"
         THEN [m EXCEPT !.mesh = error, !.replay = Counted(@, ReplayLimit)]
    ELSE IF error = "ledger chain mismatch"
         THEN [m EXCEPT !.mesh = error, !.spoof = Counted(@, 1)]
    ELSE [m EXCEPT !.mesh = error, !.auth = Counted(@, AuthLimit)]

\* Rejections count by the word in their reason; several reasons count nowhere.
\* The double count of a critical command is never reached: the policy accepts them all.
note_remote_command_rejection(m, reason) ==
    CASE reason = "freshness"                 -> [m EXCEPT !.replay = Counted(@, ReplayLimit)]
      [] reason \in {"issuer trust", "blocked"} -> [m EXCEPT !.auth = Counted(@, AuthLimit)]
      [] OTHER                                -> m

Failed(status) == status.kind \in {"transport", "rejected", "identity"}

\* A control plane status is looked at once per change of text.
note_control_plane_status(m, status) ==
    IF status.kind = "none" \/ status = m.status THEN m
    ELSE IF ~ Failed(status) THEN [m EXCEPT !.status = status]
    ELSE [m EXCEPT !.status = status, !.plane = Counted(@, 1),
                   !.identity = @ \/ status.kind = "identity"]

\* faulty: a failure of the mesh keeps the age it was counted at
AgedPlaneOnly(m) == [m EXCEPT !.plane = IF @.count = 0 THEN NoFailure ELSE [@ EXCEPT !.age = @ + 1]]

\* One tick passes for every failure that is still counted.
Aged(m) ==
    LET Older(f) == IF f.count = 0 THEN NoFailure ELSE [f EXCEPT !.age = @ + 1]
    IN  [m EXCEPT !.auth = Older(@), !.replay = Older(@), !.spoof = Older(@), !.plane = Older(@)]

\* faulty: expiry one tick early
DecayEarly(m) ==
    LET Kept(f, window) == IF f.age >= window THEN NoFailure ELSE f
    IN  [m EXCEPT !.auth = Kept(@, AuthWindow), !.replay = Kept(@, TrustWindow),
                  !.spoof = Kept(@, TrustWindow), !.plane = Kept(@, TrustWindow),
                  !.identity = @ /\ m.plane.age < TrustWindow]

decay_failures(m) ==
    LET Kept(f, window) == IF f.age > window THEN NoFailure ELSE f
    IN  [m EXCEPT !.auth = Kept(@, AuthWindow), !.replay = Kept(@, TrustWindow),
                  !.spoof = Kept(@, TrustWindow), !.plane = Kept(@, TrustWindow),
                  !.identity = @ /\ m.plane.age <= TrustWindow]

\* The rungs of the ladder, from the gravest down; the first that holds gives the state.
Ladder(m, in) ==
    IF in.emergency \/ in.battery <= 7 \/ in.link < 50 THEN "LAND_IMMEDIATELY"
    ELSE IF in.hardened /\ (~ in.secure \/ in.placeholder) THEN "ISOLATED_AUTONOMY"
    ELSE IF \/ in.noFly \/ ~ in.geofenceClear \/ ~ in.consistent
            \/ in.lost /\ (in.sync < 350 \/ in.link < 180) THEN "SAFE_RETURN"
    ELSE IF m.replay.count >= ReplayLimit \/ (in.hardened /\ in.link < 200) THEN "COMMAND_REPLAY_SUSPECT"
    ELSE IF m.spoof.count > 0 THEN "PEER_SPOOF_SUSPECT"
    ELSE IF \/ m.plane.count > 0
            \/ in.hardened /\ (~ in.backendOk \/ m.identity \/ in.sync < 200) THEN "CONTROL_PLANE_UNTRUSTED"
    ELSE IF m.auth.count >= AuthLimit \/ (in.hardened /\ in.issuer < 450) THEN "AUTH_SUSPECT"
    ELSE IF in.link < 180 \/ in.sync < 450 \/ in.confidence < 350 THEN "DEGRADED_LINK"
    ELSE "TRUSTED"

Assessment(state, hardened) ==
    [state |-> state,
     remoteAllowed |-> state = "TRUSTED" \/ (state = "DEGRADED_LINK" /\ ~ hardened),
     uplinkAllowed |-> state # "LAND_IMMEDIATELY"]

\* evaluate() on a monitor that decay_failures has already brought up to date.
evaluate(m, in) == Assessment(Ladder(m, in), in.hardened)
===============================================================================
