----------------------------- MODULE MCFlightLoop -----------------------------
(* FlightLoop on a few readings: a quiet one, and every one that differs from it in one of the
   deviations below. *)
EXTENDS FlightLoop

Node == [hardened |-> FALSE, secure |-> TRUE, placeholder |-> FALSE, camera |-> TRUE,
         imu |-> FALSE, backend |-> TRUE, noFly |-> FALSE, production |-> FALSE,
         lidarRequired |-> FALSE]

MCProfiles == {Node, [Node EXCEPT !.hardened = TRUE, !.production = TRUE, !.lidarRequired = TRUE]}

Nominal == [battery |-> 80, link |-> 900, motor |-> "ok", hot |-> FALSE, sensorFault |-> FALSE,
            imuUp |-> TRUE, cameraUp |-> TRUE, lidarUp |-> TRUE, vio |-> 950, finite |-> TRUE,
            drift |-> 100, tdoa |-> [kind |-> "none", confidence |-> 0], visibility |-> 900,
            frame |-> TRUE, lidar |-> TRUE, rangefinder |-> FALSE, anchorOffset |-> 0,
            obstacle |-> "none", follower |-> FALSE, peers |-> TRUE, focus |-> "empty",
            inference |-> TRUE, caution |-> FALSE, loops |-> FALSE, beyond |-> FALSE,
            crowded |-> FALSE, atOrigin |-> FALSE]

Deviations == {
    [f \in {"battery"} |-> 18], [f \in {"battery"} |-> 7], [f \in {"link"} |-> 190],
    [f \in {"link"} |-> 150], [f \in {"motor"} |-> "worn"], [f \in {"motor"} |-> "fault"],
    [f \in {"sensorFault"} |-> TRUE], [f \in {"vio"} |-> 200],
    [f \in {"anchorOffset"} |-> 19], [f \in {"beyond"} |-> TRUE], [f \in {"atOrigin"} |-> TRUE]}

Deviated(r, d) == [f \in DOMAIN r |-> IF f \in DOMAIN d THEN d[f] ELSE r[f]]

MCReadings == {Nominal} \union {Deviated(Nominal, d) : d \in Deviations}
MCRejections == {"replay rejected"}
MCAnswers == {"accepted", "transport"}
MCBackoff == <<1, 2>>
===============================================================================
