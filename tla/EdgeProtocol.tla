----------------------------- MODULE EdgeProtocol -----------------------------
(***************************************************************************)
(* The packets drones exchange and the two ways they travel: JSON, the     *)
(* default, and CBOR.  A packet's payload is reduced to what the two ways  *)
(* treat differently:                                                      *)
(*   number   its floating-point fields: "exact" when four decimals say    *)
(*            all of them, "fine" when they do not, "nonfinite"            *)
(*   text     its strings: "plain", "quoted" when JSON escapes them,       *)
(*            "wide" beyond 512 bytes, "vast" beyond a packet's size       *)
(*   proposal, epoch, quorum   of a vote                                   *)
(***************************************************************************)
EXTENDS Integers

\* The names to_string() gives the enumerations, which the parsers map back.
EdgePacketType == {"heartbeat", "pose_state", "edge_health", "obstacle_digest", "threat_digest",
                   "consensus_state", "emergency_corridor", "peer_goodbye"}
ConsensusProposalType == {"none", "collective_halt", "emergency_reroute"}
EdgeSerializationMode == {"JSON", "CBOR", "PROTOBUF"}

HasNumbers(kind) == kind \in {"heartbeat", "pose_state", "edge_health", "threat_digest",
                              "emergency_corridor"}
HasVectors(kind) == kind \in {"pose_state", "emergency_corridor"}

\* What a parser supplies for the fields it does not find.
Defaults == [present |-> TRUE, number |-> "zero", text |-> "default",
             proposal |-> "none", epoch |-> 0, quorum |-> 0]

EdgePayload == [present : BOOLEAN, number : {"exact", "fine", "nonfinite"},
                text : {"plain", "quoted", "wide", "vast"},
                proposal : ConsensusProposalType, epoch : Nat, quorum : Int]

normalize_edge_source_tag(source) ==
    IF source \in {"real", "simulation", "playback"} THEN source ELSE "unavailable"

\* There is no protobuf encoding: configuring it leaves JSON.
EffectiveMode(mode) == IF mode = "PROTOBUF" THEN "JSON" ELSE mode

Without(payload) == payload.present = FALSE

-------------------------------------------------------------------------------
(* JSON prints numbers with four decimals and escapes strings; the parser finds no number in
   "nan" or "inf", and ends a string at its first quotation mark, escaped or not. *)

format_double(number)  == IF number = "fine" THEN "rounded" ELSE number
extract_number(number) == IF number = "nonfinite" THEN Defaults.number ELSE number
extract_string(text)   == IF text = "quoted" THEN "cut" ELSE text

serialize_edge_packet_json(p) ==
    [mode |-> "JSON",
     packet |-> [p EXCEPT !.source = normalize_edge_source_tag(@),
                          !.payload.number = IF HasNumbers(p.kind) THEN format_double(@) ELSE @]]

\* The fields of a payload are looked up one by one.
extract_payload(payload) ==
    IF Without(payload) THEN Defaults
    ELSE [payload EXCEPT !.number = extract_number(@), !.text = extract_string(@)]

parse_edge_packet_json(wire) ==
    IF wire.mode # "JSON" THEN [ok |-> FALSE]
    ELSE LET p == wire.packet
         IN  [ok |-> TRUE,
              packet |-> [p EXCEPT !.source = normalize_edge_source_tag(@),
                                   !.payload = extract_payload(@)]]

(* CBOR carries doubles and strings as they are; its reader refuses strings beyond 512 bytes. *)

write_cbor_payload(payload) == IF Without(payload) THEN Defaults ELSE payload
read_cbor_payload(payload)  == payload.text \notin {"wide", "vast"}

serialize_edge_packet_cbor(p) ==
    [mode |-> "CBOR", packet |-> [p EXCEPT !.source = normalize_edge_source_tag(@),
                                           !.payload = write_cbor_payload(@)]]

parse_edge_packet_cbor(wire) ==
    IF wire.mode # "CBOR" \/ ~ read_cbor_payload(wire.packet.payload) THEN [ok |-> FALSE]
    ELSE [ok |-> TRUE, packet |-> wire.packet]

serialize_edge_packet(p, mode) ==
    IF mode = "CBOR" THEN serialize_edge_packet_cbor(p) ELSE serialize_edge_packet_json(p)

parse_edge_packet(wire, mode) ==
    IF mode = "CBOR" THEN parse_edge_packet_cbor(wire) ELSE parse_edge_packet_json(wire)

-------------------------------------------------------------------------------
Expired(p, now, skew) == now > p.ts + p.ttl + skew

\* The checks a packet passes before the peer cache takes it.
validate_edge_packet(p, now, skew) ==
    /\ p.payload.text # "vast"
    /\ p.sender # 0
    /\ p.ttl # 0
    /\ ~ Expired(p, now, skew)
    /\ ~ Without(p.payload)
    /\ HasVectors(p.kind) => p.payload.number # "nonfinite"
===============================================================================
