----------------------------- MODULE MCSecureMesh -----------------------------
(***************************************************************************)
(* One run over several profiles: a profile is chosen in the initial state *)
(* and never changes, so their state spaces add up.                        *)
(***************************************************************************)
EXTENDS SecureMesh

MCLocal == 1
MCPeers == {2, 3}

\* The key store of a node: a shared secret, its own key, and the keys it trusts.
Auth(mode, node) ==
    [mode |-> mode, profile |-> "onboard", allowInSimulation |-> TRUE, allowInBench |-> FALSE,
     epoch |-> 1, skew |-> 1, maxTtl |-> 2, secret |-> "swarm", secretEnv |-> "none",
     nodeKey |-> "key" , node |-> node, trusted |-> (2 :> "key"), revoked |-> {}]

Nodes == {MCLocal} \union MCPeers
Alike(mode) == [n \in Nodes |-> Auth(mode, n)]
Simulated   == [n \in Nodes |-> [Auth("NONE", n) EXCEPT !.profile = "simulation"]]
OneKey      == [n \in Nodes |-> "group"]

Payload == [present |-> TRUE, number |-> "exact", text |-> "plain",
            proposal |-> "none", epoch |-> 0, quorum |-> 0]
Pose == [kind |-> "pose_state", sender |-> 0, seq |-> 0, ts |-> 0, epoch |-> 1, ttl |-> 1,
         source |-> "real", hook |-> Unsigned, payload |-> Payload]
Edge(packet) == [type |-> "edge", packet |-> packet]

\* Nothing happens; the profiles below say what does.
Quiet == [secure |-> FALSE, racing |-> FALSE, faithful |-> FALSE, beats |-> FALSE, files |-> FALSE,
          sends |-> 0, restarts |-> 0, own |-> 0, until |-> 2, ahead |-> 0, senders |-> {2},
          wire |-> "JSON", localWire |-> "JSON", auth |-> Simulated, key |-> OneKey,
          messages |-> {}, proposals |-> {}, views |-> {}]

(* Two threads of a peer race for the chains; frames are lost, repeated and reordered. *)
Racing == [Quiet EXCEPT !.secure = TRUE, !.racing = TRUE, !.sends = 3,
                        !.messages = {[type |-> "election"],
                                      Edge([Pose EXCEPT !.source = "simulation"])}]

(* Keyframes, two of them too large for a datagram, and elections; restarts of either side. *)
Views(n) == [r \in 1 .. n |-> IF r = 1 THEN "a" ELSE "b"]
Chains == [Quiet EXCEPT !.secure = TRUE, !.sends = 3, !.restarts = 1,
                        !.messages = {[type |-> "mission"], [type |-> "heartbeat"],
                                      [type |-> "keyframe", views |-> Views(3)]}]
Faithful == [Chains EXCEPT !.faithful = TRUE, !.sends = 4]

(* Packets of every make, one or two at a time, under every pair of configurations. *)
Packets ==
    {Pose} \union {[Pose EXCEPT !.ttl = t] : t \in {0, 2, 3}}
           \union {[Pose EXCEPT !.epoch = 2], [Pose EXCEPT !.kind = "peer_goodbye"]}
           \union {[Pose EXCEPT !.source = s] : s \in {"simulation", "odd"}}
           \union {[Pose EXCEPT !.payload.number = x] : x \in {"fine", "nonfinite"}}
           \union {[Pose EXCEPT !.payload.text = x] : x \in {"quoted", "wide", "vast"}}
           \union {[Pose EXCEPT !.payload.present = FALSE]}

Changed(auth, node, change) == [auth EXCEPT ![node] = change]
Eddsa == "MONOCYPHER_EDDSA_BLAKE2B"
Hmac  == "PER_NODE_HMAC_SHA256"

AuthPairs ==
    {Alike(mode) : mode \in AuthMode} \union {Simulated}
    \union {[n \in Nodes |-> [Auth("NONE", n) EXCEPT !.profile = "bench", !.allowInBench = TRUE]]}
    \union {Changed(Alike(Eddsa), 1, [Auth(Eddsa, 1) EXCEPT !.revoked = {2}]),
            Changed(Alike(Hmac), 2, [Auth(Hmac, 2) EXCEPT !.revoked = {2}]),
            Changed(Alike(Hmac), 2, [Auth(Hmac, 2) EXCEPT !.nodeKey = "other"]),
            Changed(Alike(Hmac), 2, [Auth(Hmac, 2) EXCEPT !.nodeKey = "weak"]),
            Changed(Alike(Eddsa), 2, [Auth(Eddsa, 2) EXCEPT !.node = 3]),
            Changed(Alike(Eddsa), 1, [Auth(Eddsa, 1) EXCEPT !.trusted = <<>>]),
            Changed(Alike("HMAC_SHA256"), 2,
                    [Auth("HMAC_SHA256", 2) EXCEPT !.secret = "none", !.secretEnv = "swarm"]),
            Changed(Alike("HMAC_SHA256"), 2, [Auth("HMAC_SHA256", 2) EXCEPT !.secret = "none"]),
            Changed(Alike("HMAC_SHA256"), 2, Auth(Hmac, 2)),
            Changed(Alike(Hmac), 1, [Auth("NONE", 1) EXCEPT !.profile = "simulation"])}

PacketProfiles ==
    {[Quiet EXCEPT !.sends = 1, !.auth = auth, !.wire = wires[1], !.localWire = wires[2],
                   !.until = 6, !.ahead = ahead, !.messages = {Edge(p) : p \in Packets}]
     : auth \in AuthPairs, ahead \in {0, 2},
       wires \in {<<"JSON", "JSON">>, <<"CBOR", "CBOR">>, <<"JSON", "CBOR">>, <<"PROTOBUF", "JSON">>}}

(* Votes of two peers that may fall silent, leave and come back. *)
Vote(proposal, epoch) ==
    Edge([Pose EXCEPT !.kind = "consensus_state", !.source = "simulation", !.payload.epoch = epoch,
                      !.payload.proposal = proposal, !.payload.quorum = 2])
Goodbye == Edge([Pose EXCEPT !.kind = "peer_goodbye", !.source = "simulation"])

Votes == [Quiet EXCEPT !.beats = TRUE, !.sends = 2, !.senders = {2, 3},
                       !.messages = {Vote("collective_halt", 1), Vote("collective_halt", 2),
                                     Vote("emergency_reroute", 2), Goodbye},
                       !.proposals = {[proposal |-> "collective_halt", epoch |-> 1, quorum |-> 0]}]

(* Keyframes of Local and of a peer, and a map that is saved and loaded. *)
OwnMap  == [Quiet EXCEPT !.files = TRUE, !.restarts = 1, !.own = 4, !.views = {<<"a">>, <<"a", "b">>}]
PeerMap == [Quiet EXCEPT !.files = TRUE, !.sends = 2, !.own = 1, !.views = {<<"a", "b">>},
                         !.messages = {[type |-> "keyframe", views |-> <<"a">>],
                                       [type |-> "keyframe", views |-> <<"b", "a">>]}]

MCProfiles == PacketProfiles \union {Racing, Chains, Faithful, Votes, OwnMap, PeerMap}
===============================================================================
