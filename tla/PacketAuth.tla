------------------------------ MODULE PacketAuth ------------------------------
(***************************************************************************)
(* Signing and verification of edge packets.  A signature is the record of *)
(* the algorithm, the key and what was signed: it verifies when all three  *)
(* are those the verifier computes, which is what HMAC-SHA256 and EdDSA    *)
(* promise.  Keys are names; "none" is no key and "weak" one of fewer than *)
(* 32 bytes.                                                               *)
(***************************************************************************)
EXTENDS EdgeProtocol

AuthMode == {"NONE", "HMAC_SHA256", "PER_NODE_HMAC_SHA256", "MONOCYPHER_EDDSA_BLAKE2B",
             "ED25519_PLACEHOLDER", "PQC_HYBRID_PLACEHOLDER"}

Placeholder(mode) == mode \in {"ED25519_PLACEHOLDER", "PQC_HYBRID_PLACEHOLDER"}
PerNode(mode)     == mode \in {"PER_NODE_HMAC_SHA256", "MONOCYPHER_EDDSA_BLAKE2B"}

Unsigned == [alg |-> "unsigned", key |-> "none", over |-> <<>>]
Cleared  == [alg |-> "", key |-> "none", over |-> <<>>]

\* A packet as it is built, not signed yet; of a payload it has none of, no field is ever set.
EdgePeerPacket ==
    {p \in [kind : EdgePacketType, sender : Nat, seq : Nat, ts : Nat, epoch : Nat, ttl : Nat,
            source : STRING, hook : {Unsigned}, payload : EdgePayload] :
        Without(p.payload) => /\ p.payload.proposal = Defaults.proposal
                              /\ p.payload.epoch = Defaults.epoch}

\* What is signed: the packet in CBOR, however it travels, without the field of the signature.
canonical_bytes(p) == serialize_edge_packet_cbor([p EXCEPT !.hook = Cleared])

Signature(alg, key, p) == [alg |-> alg, key |-> key, over |-> <<canonical_bytes(p)>>]

unsigned_allowed_for_profile(p, config) ==
    \/ /\ config.profile = "simulation"
       /\ config.allowInSimulation
       /\ normalize_edge_source_tag(p.source) = "simulation"
    \/ config.profile \in {"bench", "hil"} /\ config.allowInBench

effective_secret(config) == IF config.secret # "none" THEN config.secret ELSE config.secretEnv

-------------------------------------------------------------------------------
(* signPacket(): whether the packet may be sent, and its signature. *)

SigningKey(config) ==
    CASE config.mode = "HMAC_SHA256" -> effective_secret(config)
      [] PerNode(config.mode)        -> config.nodeKey
      [] OTHER                       -> "none"

Signs(p, config) ==
    /\ ~ Placeholder(config.mode)
    /\ PerNode(config.mode) => /\ p.sender \notin config.revoked
                               /\ config.node # 0 /\ p.sender = config.node
    /\ config.mode = "PER_NODE_HMAC_SHA256" => SigningKey(config) # "weak"
    /\ config.mode # "NONE" => SigningKey(config) # "none"

signPacket(p, config) ==
    [p EXCEPT !.hook = IF config.mode = "NONE" THEN Unsigned
                       ELSE Signature(config.mode, SigningKey(config), p)]

-------------------------------------------------------------------------------
(* verifyPacket(), gate by gate.  Replay is left to the peer cache: the mesh passes no watermark. *)

TtlBounded(p, config) == p.ttl # 0 /\ config.maxTtl # 0 /\ p.ttl <= config.maxTtl

\* faulty: the time to live also widens the future bound
InTimeByTtl(p, config, now) ==
    /\ p.ts <= now + config.skew + p.ttl
    /\ now <= p.ts + p.ttl + config.skew

\* The clock skew bounds the future; the time to live extends only the past.
InTime(p, config, now) ==
    /\ p.ts <= now + config.skew
    /\ now <= p.ts + p.ttl + config.skew

validateTrustEpoch(p, config) == p.epoch = config.epoch

VerificationKey(p, config) ==
    IF PerNode(config.mode)
    THEN IF p.sender \in DOMAIN config.trusted THEN config.trusted[p.sender] ELSE "none"
    ELSE effective_secret(config)

KeyUsable(p, config) ==
    /\ VerificationKey(p, config) # "none"
    /\ PerNode(config.mode) => p.sender # 0
    /\ config.mode = "PER_NODE_HMAC_SHA256" => VerificationKey(p, config) # "weak"

verifyPacket(p, config, now) ==
    /\ ~ Placeholder(config.mode)
    /\ TtlBounded(p, config)
    /\ InTime(p, config, now)
    /\ validateTrustEpoch(p, config)
    /\ PerNode(config.mode) => p.sender \notin config.revoked
    /\ IF config.mode = "NONE" THEN unsigned_allowed_for_profile(p, config)
       ELSE /\ KeyUsable(p, config)
            /\ p.hook = Signature(config.mode, VerificationKey(p, config), p)
===============================================================================
