------------------------------ MODULE SecureMesh ------------------------------
(***************************************************************************)
(* The mesh from the threads of a peer that build and seal messages to     *)
(* what one drone, Local, makes of them: recv_loop() opens the frame and   *)
(* hands the message to the edge-packet path (parser, signature, cache,    *)
(* consensus) or to the keyframes; heartbeat_loop() expires what got old.  *)
(*                                                                         *)
(* The threads of a peer share seq_counter_ and the security context       *)
(* without a lock, so where they race a broadcast is four steps.           *)
(* A profile is what the swarm is configured for and what it is busy with. *)
(***************************************************************************)
EXTENDS PacketAuth, SwarmSecurity, EdgeConsensus, KeyframeManager

CONSTANTS Local, Peers, \* the receiving drone and the others: node numbers
          Profiles      \* configurations and traffic

\* The only ledger frames that more than one thread of a drone node seals are those of
\* trigger_election(); formations, missions and stops are ordered by an operator's tools.
OnlyElectionsRace(messages) ==
    \A msg \in messages : is_ledger_message(msg.type) => msg.type = "election"

ASSUME MeshAssumption ==
    /\ Local \in Nat \ {0} /\ Peers \subseteq Nat \ {0, Local}
    /\ \A pr \in Profiles : /\ {pr.secure, pr.racing, pr.faithful, pr.beats, pr.files} \subseteq BOOLEAN
                            /\ {pr.sends, pr.restarts, pr.own, pr.until, pr.ahead} \subseteq Nat
                            /\ pr.senders \subseteq Peers
                            /\ pr.racing => OnlyElectionsRace(pr.messages)
                            /\ \A msg \in pr.messages :
                                  /\ msg.type = "edge" => msg.packet \in EdgePeerPacket
                                  /\ msg.type = "keyframe" => msg.views \in Seq(Descriptors)
                            /\ pr.views \subseteq Seq(Descriptors)
                            /\ \A p \in Peers \union {Local} :
                                  /\ pr.auth[p].mode \in AuthMode
                                  /\ {pr.auth[p].skew, pr.auth[p].maxTtl} \subseteq Nat
                            /\ \A v \in pr.proposals : v.epoch \in Nat /\ v.quorum \in Int

VARIABLES
    profile,  \* the profile
    now,      \* the clock
    tx,       \* per peer: seq_counter_, the chains it seals with, last_edge_sequence_, keyframe number, boot
    thread,   \* per peer and thread: how far a racing broadcast is
    electing, \* per peer: election_ongoing_
    sealed,   \* the frames in the order they were sealed; a frame's digest is its place here
    air,      \* the digests of the frames handed to the radio
    heard,    \* how many of these a faithful link has delivered
    rx,       \* per peer: peer_state_ of Local's security context
    accepted, \* history: the digests of the frames opened since Local started
    cache,    \* per peer: what the cache and the replay window keep
    recv,     \* the receive thread: between an admitted vote and its observation
    beat,     \* the heartbeat thread: what it expires next
    votes,    \* edge_consensus_
    map,      \* the keyframe manager
    file,     \* the saved map
    restarts  \* bound: restarts so far

vars == <<profile, now, tx, thread, electing, sealed, air, heard, rx, accepted, cache, recv, beat, votes, map,
          file, restarts>>

Threads == {"main", "beat"}
Idle == [at |-> "idle"]

FreshSender(boot) == [seq |-> 0, chain |-> NoPeerState, edge |-> 0, kf |-> 0, boot |-> boot]
UnknownPeer == [known |-> FALSE, stale |-> FALSE, age |-> "new", seen |-> {}]

Init ==
    /\ profile \in Profiles
    /\ now = 2
    /\ tx = [p \in Peers |-> FreshSender(0)]
    /\ thread = [p \in Peers |-> [t \in Threads |-> Idle]]
    /\ electing = [p \in Peers |-> FALSE]
    /\ sealed = <<>> /\ air = <<>> /\ heard = 0
    /\ rx = [p \in Peers |-> NoPeerState]
    /\ accepted = {}
    /\ cache = [p \in Peers |-> UnknownPeer]
    /\ recv = Idle /\ beat = "cache"
    /\ votes = InitConsensus
    /\ map = InitMap /\ file = NoFile
    /\ restarts = 0

-------------------------------------------------------------------------------
(* A peer's side: what it sends, and how. *)

\* The packet its builder makes of a template: it reads its own clock, which may be ahead, and
\* takes the next edge number.
Built(p, template) ==
    [template EXCEPT !.sender = p, !.seq = tx[p].edge + 1, !.ts = now + profile.ahead]

Keyframe(p, views) ==
    encode_keyframe([NewKeyframe(tx[p].kf, p, views) EXCEPT !.points = [r \in 1 .. Len(views) |-> r]])

\* The message broadcast() is given.
Message(p, msg) ==
    CASE msg.type = "edge" ->
            LET packet == Built(p, msg.packet)
            IN  [built |-> packet,
                 wire |-> serialize_edge_packet(signPacket(packet, profile.auth[p]), EffectiveMode(profile.wire))]
      [] msg.type = "keyframe" -> [payload |-> Keyframe(p, msg.views)]
      [] OTHER -> [empty |-> TRUE]

\* broadcast_edge_packet() gives up on a packet that cannot be signed.
Refuses(p, msg) == msg.type = "edge" /\ ~ Signs(Built(p, msg.packet), profile.auth[p])

\* The size is looked at when the frame is already sealed.
Datagram(msg, body) == msg.type = "keyframe" => Fits(body.payload)

Used(state, msg) ==
    [state EXCEPT !.edge = IF msg.type = "edge" THEN @ + 1 ELSE @,
                  !.kf = IF msg.type = "keyframe" THEN @ + 1 ELSE @]

Frame(p, header, msg) ==
    [header |-> header, boot |-> tx[p].boot, type |-> msg.type, body |-> Message(p, msg)]

\* What the peer's security context remembers of a frame it has sealed.
Chained(chain, header, digest) == IF profile.secure THEN Sealed(chain, header, digest) ELSE chain

AfterSending(state, msg, header, digest) ==
    [Used(state, msg) EXCEPT !.seq = state.seq + 1, !.chain = Chained(state.chain, header, digest)]

\* Bound: frames sealed.
MaySend(p) == p \in profile.senders /\ Len(sealed) < profile.sends

\* A peer one of whose threads sends: the broadcast is not disturbed.
Broadcast(p, msg) ==
    /\ ~ profile.racing /\ MaySend(p)
    /\ ~ Refuses(p, msg)
    /\ LET digest == Len(sealed) + 1
       IN  \E header \in {build_header(tx[p].chain, p, tx[p].seq + 1, msg.type, profile.key[p])} :
           \E frame \in {Frame(p, header, msg)} :
              /\ sealed' = Append(sealed, frame)
              /\ tx' = [tx EXCEPT ![p] = AfterSending(@, msg, header, digest)]
              /\ \E sent \in {Datagram(msg, frame.body)} \union (IF profile.faithful THEN {} ELSE {FALSE}) :
                    air' = IF sent THEN Append(air, digest) ELSE air
    /\ UNCHANGED <<profile, now, thread, electing, heard, rx, accepted, cache, recv, beat, votes, map, file, restarts>>

\* The edge number of a packet that is not signed is used up all the same.
SkipUnsigned(p, msg) ==
    /\ MaySend(p) /\ tx[p].edge < profile.sends
    /\ Refuses(p, msg)
    /\ tx' = [tx EXCEPT ![p] = Used(@, msg)]
    /\ UNCHANGED <<profile, now, thread, electing, sealed, air, heard, rx, accepted, cache, recv, beat, votes, map,
                   file, restarts>>

(* Where threads race: ++seq_counter_ loads and stores, seal() reads the chains and writes them.
   Packets are built by one of the threads alone, so it is the same when as they are sealed. *)

\* trigger_election() returns at once when an election is under way.
LoadSeq(p, t, msg) ==
    /\ profile.racing /\ MaySend(p)
    /\ thread[p][t] = Idle
    /\ ~ Refuses(p, msg)
    /\ msg.type = "election" => ~ electing[p]
    /\ electing' = [electing EXCEPT ![p] = @ \/ msg.type = "election"]
    /\ thread' = [thread EXCEPT ![p][t] = [at |-> "loaded", msg |-> msg, seq |-> tx[p].seq + 1]]
    /\ UNCHANGED <<profile, now, tx, sealed, air, heard, rx, accepted, cache, recv, beat, votes, map, file, restarts>>

StoreSeq(p, t) ==
    /\ thread[p][t].at = "loaded"
    /\ tx' = [tx EXCEPT ![p].seq = thread[p][t].seq]
    /\ thread' = [thread EXCEPT ![p][t].at = "numbered"]
    /\ UNCHANGED <<profile, now, electing, sealed, air, heard, rx, accepted, cache, recv, beat, votes, map, file,
                   restarts>>

ReadChain(p, t) ==
    /\ thread[p][t].at = "numbered"
    /\ LET op == thread[p][t]
       IN  thread' = [thread EXCEPT ![p][t] = [at |-> "reading", msg |-> op.msg,
                            header |-> build_header(tx[p].chain, p, op.seq, op.msg.type, profile.key[p])]]
    /\ UNCHANGED <<profile, now, tx, electing, sealed, air, heard, rx, accepted, cache, recv, beat, votes, map, file,
                   restarts>>

FinishSeal(p, t) ==
    /\ thread[p][t].at = "reading"
    /\ LET op == thread[p][t]
           digest == Len(sealed) + 1
       IN  /\ \E frame \in {Frame(p, op.header, op.msg)} :
                 /\ sealed' = Append(sealed, frame)
                 /\ \E sent \in {Datagram(op.msg, frame.body), FALSE} :
                       air' = IF sent THEN Append(air, digest) ELSE air
           /\ tx' = [tx EXCEPT ![p] = [Used(@, op.msg) EXCEPT
                                         !.chain = Chained(tx[p].chain, op.header, digest)]]
           /\ electing' = [electing EXCEPT ![p] = @ /\ op.msg.type # "election"]
    /\ thread' = [thread EXCEPT ![p][t] = Idle]
    /\ UNCHANGED <<profile, now, heard, rx, accepted, cache, recv, beat, votes, map, file, restarts>>

\* All it counts with is lost; frames it sent may still be under way.
RestartPeer(p) ==
    /\ restarts < profile.restarts
    /\ restarts' = restarts + 1
    /\ tx' = [tx EXCEPT ![p] = FreshSender(@.boot + 1)]
    /\ thread' = [thread EXCEPT ![p] = [t \in Threads |-> Idle]]
    /\ electing' = [electing EXCEPT ![p] = FALSE]
    /\ UNCHANGED <<profile, now, sealed, air, heard, rx, accepted, cache, recv, beat, votes, map, file>>

-------------------------------------------------------------------------------
(* Local's side. *)

\* The peers here are neither disconnected nor faulty by their own account.
Fresh    == {p \in Peers : cache[p].known /\ ~ cache[p].stale}
Isolated == /\ \E p \in Peers : cache[p].known
            /\ \A p \in Peers : cache[p].known => cache[p].stale

\* What the receive path has judged of an edge packet when it reaches the cache.
Parsed(frame) == parse_edge_packet(frame.body.wire, EffectiveMode(profile.localWire))
Verified(frame) ==
    LET parsed == Parsed(frame)
    IN  /\ parsed.ok
        /\ parsed.packet.sender = frame.header.src
        /\ verifyPacket(parsed.packet, profile.auth[Local], now)

\* The cache admits a valid packet whose number it has not seen.
Admits(packet) ==
    /\ validate_edge_packet(packet, now, profile.auth[Local].skew)
    /\ packet.seq \notin cache[packet.sender].seen

\* A packet behind a later one of its sender is admitted, but does not refresh the entry.
Late(packet) == \E later \in cache[packet.sender].seen : later > packet.seq

handle_edge_packet(frame) ==
    IF Verified(frame) /\ Admits(Parsed(frame).packet)
    THEN LET packet == Parsed(frame).packet
         IN  /\ cache' = [cache EXCEPT ![packet.sender] =
                            IF Late(packet) THEN [@ EXCEPT !.seen = @ \union {packet.seq}]
                            ELSE [known |-> TRUE, stale |-> packet.kind = "peer_goodbye", age |-> "new",
                                  seen |-> @.seen \union {packet.seq}]]
             /\ recv' = IF packet.kind = "consensus_state"
                        THEN [at |-> "lookup", sender |-> packet.sender, vote |-> packet.payload] ELSE Idle
    ELSE UNCHANGED <<cache, recv>>

\* recv_loop() takes the frame at place i of the air: any of those sent, again and in any order,
\* unless the link is faithful.
Receive(i) ==
    /\ recv = Idle
    /\ IF profile.faithful THEN i = heard + 1 ELSE TRUE
    /\ heard' = IF profile.faithful THEN heard + 1 ELSE heard
    /\ \E frame \in {sealed[air[i]]} :
         LET src == frame.header.src
             opened == profile.secure => Opens(rx[src], frame.header, profile.key[Local])
         IN  /\ rx' = IF profile.secure /\ opened
                      THEN [rx EXCEPT ![src] = Opened(@, frame.header, air[i])] ELSE rx
             /\ accepted' = IF profile.secure /\ opened THEN accepted \union {air[i]} ELSE accepted
             /\ IF opened /\ frame.type = "edge" THEN handle_edge_packet(frame)
                ELSE UNCHANGED <<cache, recv>>
             /\ IF opened /\ frame.type = "keyframe"
                THEN map' \in on_remote_keyframe(map, src, frame.body.payload)
                ELSE UNCHANGED map
    /\ UNCHANGED <<profile, now, tx, thread, electing, sealed, air, beat, votes, file, restarts>>

\* observe_packet() of the consensus asks the cache before it takes its own mutex.
LookUp ==
    /\ recv.at = "lookup"
    /\ recv' = IF recv.sender \in Fresh THEN [recv EXCEPT !.at = "observe"] ELSE Idle
    /\ UNCHANGED <<profile, now, tx, thread, electing, sealed, air, heard, rx, accepted, cache, beat, votes, map,
                   file, restarts>>

Observe ==
    /\ recv.at = "observe"
    /\ votes' = observe_packet(votes, recv.sender, recv.vote, Isolated)
    /\ recv' = Idle
    /\ UNCHANGED <<profile, now, tx, thread, electing, sealed, air, heard, rx, accepted, cache, beat, map, file,
                   restarts>>

\* expire_stale_peers(), first half: an old entry is stale, an expired one is gone.
ExpireCache ==
    /\ profile.beats /\ beat = "cache"
    /\ cache' = [p \in Peers |-> IF cache[p].age = "gone" THEN UnknownPeer
                                 ELSE [cache[p] EXCEPT !.stale = cache[p].age = "old"]]
    /\ beat' = "votes"
    /\ UNCHANGED <<profile, now, tx, thread, electing, sealed, air, heard, rx, accepted, recv, votes, map, file,
                   restarts>>

\* Second half.
ExpireVotes ==
    /\ beat = "votes"
    /\ votes' = expire(votes, Local, Fresh, Isolated)
    /\ beat' = "cache"
    /\ UNCHANGED <<profile, now, tx, thread, electing, sealed, air, heard, rx, accepted, cache, recv, map, file,
                   restarts>>

Propose(proposal, epoch, quorum) ==
    /\ profile.beats
    /\ votes' = propose(votes, Local, proposal, epoch, quorum)
    /\ UNCHANGED <<profile, now, tx, thread, electing, sealed, air, heard, rx, accepted, cache, recv, beat, map, file,
                   restarts>>

SetOverride(enabled) ==
    /\ profile.beats
    /\ votes' = set_local_safety_override(votes, enabled)
    /\ UNCHANGED <<profile, now, tx, thread, electing, sealed, air, heard, rx, accepted, cache, recv, beat, map, file,
                   restarts>>

AddFrame(views, moved) ==
    /\ map.kfNext < profile.own
    /\ should_create_keyframe(map, views, moved)
    /\ map' \in try_add_frame(map, Local, views)
    /\ UNCHANGED <<profile, now, tx, thread, electing, sealed, air, heard, rx, accepted, cache, recv, beat, votes,
                   file, restarts>>

Save ==
    /\ profile.files
    /\ file' = save_map(map)
    /\ UNCHANGED <<profile, now, tx, thread, electing, sealed, air, heard, rx, accepted, cache, recv, beat, votes,
                   map, restarts>>

Load ==
    /\ file.saved
    /\ map' = load_map(map, file)
    /\ UNCHANGED <<profile, now, tx, thread, electing, sealed, air, heard, rx, accepted, cache, recv, beat, votes,
                   file, restarts>>

\* Everything Local keeps in memory is lost; the saved map stays.
RestartLocal ==
    /\ restarts < profile.restarts
    /\ restarts' = restarts + 1
    /\ rx' = [p \in Peers |-> NoPeerState]
    /\ accepted' = {}
    /\ cache' = [p \in Peers |-> UnknownPeer]
    /\ recv' = Idle /\ beat' = "cache"
    /\ votes' = InitConsensus
    /\ map' = InitMap
    /\ UNCHANGED <<profile, now, tx, thread, electing, sealed, air, heard, file>>

Tick ==
    /\ now < profile.until
    /\ now' = now + 1
    /\ UNCHANGED <<profile, tx, thread, electing, sealed, air, heard, rx, accepted, cache, recv, beat, votes, map,
                   file, restarts>>

\* A peer that is not heard of gets old: past the stale timeout, then past the expiry of entries.
GrowOld(p) ==
    /\ profile.beats /\ cache[p].known
    /\ \/ cache[p].age = "new" /\ cache' = [cache EXCEPT ![p].age = "old"]
       \/ cache[p].age = "old" /\ cache' = [cache EXCEPT ![p].age = "gone"]
    /\ UNCHANGED <<profile, now, tx, thread, electing, sealed, air, heard, rx, accepted, recv, beat, votes, map, file,
                   restarts>>

-------------------------------------------------------------------------------
PeerSteps ==
    \E p \in Peers :
        \/ \E msg \in profile.messages : Broadcast(p, msg) \/ SkipUnsigned(p, msg)
        \/ \E t \in Threads : \/ \E msg \in profile.messages : LoadSeq(p, t, msg)
                              \/ StoreSeq(p, t) \/ ReadChain(p, t) \/ FinishSeal(p, t)
        \/ RestartPeer(p)
        \/ GrowOld(p)

LocalSteps ==
    \/ \E i \in 1 .. Len(air) : Receive(i)
    \/ LookUp \/ Observe
    \/ ExpireCache \/ ExpireVotes
    \/ \E v \in profile.proposals : Propose(v.proposal, v.epoch, v.quorum)
    \/ \E enabled \in BOOLEAN : SetOverride(enabled)
    \/ \E views \in profile.views, moved \in BOOLEAN : AddFrame(views, moved)
    \/ Save \/ Load
    \/ RestartLocal
    \/ Tick

Next == PeerSteps \/ LocalSteps

\* heartbeat_loop() is a loop; messages and frames may stop coming.
Fairness == WF_vars(ExpireCache \/ ExpireVotes)

Spec == Init /\ [][Next]_vars /\ Fairness

-------------------------------------------------------------------------------
(* What the receive path may be relied on. *)

\* No order to the swarm is skipped: of the frames a peer seals as ledger frames (elections,
\* formations, missions, stops), one that Local opens is preceded by all the peer sealed before
\* it since it started, however the peer's threads interleave (OnlyElectionsRace) and whatever
\* the radio loses, repeats or reorders.
LedgerIsComplete ==
    \A late \in accepted, early \in 1 .. Len(sealed) :
        ( /\ early < late
          /\ sealed[early].header.src = sealed[late].header.src
          /\ sealed[early].boot = sealed[late].boot
          /\ sealed[early].header.ledger /\ sealed[late].header.ledger ) => early \in accepted

\* What a packet says, apart from its signature.
Content(p) == [p EXCEPT !.hook = Cleared, !.source = normalize_edge_source_tag(@),
                        !.payload = IF Without(@) THEN Defaults ELSE @]

\* The sender is one that Local's operator accepts.
Trusted(p) ==
    LET theirs == profile.auth[p.sender]
        ours   == profile.auth[Local]
    IN  CASE ours.mode = "NONE" -> unsigned_allowed_for_profile(p, ours)
          [] ours.mode = "HMAC_SHA256" -> /\ theirs.mode = ours.mode
                                          /\ effective_secret(theirs) = effective_secret(ours)
          [] PerNode(ours.mode) -> /\ theirs.mode = ours.mode
                                   /\ p.sender \notin ours.revoked
                                   /\ p.sender \in DOMAIN ours.trusted
                                   /\ theirs.nodeKey = ours.trusted[p.sender]
          [] OTHER -> FALSE

\* It is of this epoch, and its lifetime, which Local bounds, has begun and has not ended.
Alive(p) ==
    LET ours == profile.auth[Local]
    IN  /\ p.epoch = ours.epoch
        /\ p.ttl \in 1 .. ours.maxTtl
        /\ now \in (IF p.ts > ours.skew THEN p.ts - ours.skew ELSE 0) .. p.ts + p.ttl + ours.skew

\* Signing, the two encodings and verification agree end to end: Local takes a packet exactly when
\* it was built by a trusted sender, is alive and arrives saying what was built.  (An unsigned
\* packet need not arrive as it was built.)
VerifiedIffGenuine ==
    \A d \in ToSet(air) :
        LET frame == sealed[d]
        IN  frame.type = "edge" =>
            ( Verified(frame) <=>
              /\ Parsed(frame).ok
              /\ Trusted(frame.body.built) /\ Alive(frame.body.built)
              /\ \/ profile.auth[Local].mode = "NONE"
                 \/ Content(Parsed(frame).packet) = Content(frame.body.built) )

\* A peer has sent its vote for this proposal, with this epoch.
Announced(p, vote) ==
    \E d \in 1 .. Len(sealed) :
        /\ sealed[d].header.src = p /\ sealed[d].type = "edge"
        /\ sealed[d].body.built.kind = "consensus_state"
        /\ sealed[d].body.built.payload.epoch = vote.epoch
        /\ sealed[d].body.built.payload.proposal = vote.proposal

\* The support a collective action rests on is real: every supporter but Local has announced
\* the proposal in force with its epoch, and a met quorum is one of so many such drones.
SupportersSupport ==
    /\ \A p \in votes.supporters \ {Local} : Announced(p, votes)
    /\ should_apply_collective_action(votes) => Cardinality(votes.supporters) >= DefaultQuorum

\* Numbers stay unique and associations stay right whatever a drone maps, hears, saves and
\* loads in whatever order: a readable row of a keyframe names a point of the map with its view,
\* no two keyframes have one identity, and no number in use will be given out again.
MapIsConsistent ==
    /\ \A kf \in Frames(map) : \A r \in DOMAIN kf.points :
         kf.views[r] # Noise => /\ kf.points[r] \in DOMAIN map.points
                                /\ map.points[kf.points[r]] = kf.views[r]
    /\ \A frames \in {map.local, map.remote} : \A i, j \in DOMAIN frames :
         i # j => make_global_keyframe_id(frames[i]) # make_global_keyframe_id(frames[j])
    /\ \A kf \in ToSet(map.local) : kf.id < map.kfNext
    /\ \A i \in DOMAIN map.points : i < map.mpNext

Silent(p) == ~ cache[p].known \/ cache[p].age # "new"

\* A drone that is not heard of any more does not hold a quorum up: it loses its vote for good,
\* even if its last vote was being counted when it got old.
SilentPeersLoseTheirVote ==
    \A p \in Peers : <>[](profile.beats /\ Silent(p)) => <>[](p \notin votes.supporters)

-------------------------------------------------------------------------------
(* The inductive invariant behind VerifiedIffGenuine and SupportersSupport. *)

\* What an edge frame of p carries: a packet of p, which signs it, encoded as the swarm is told.
EdgeFormed(p, body) ==
    /\ body.built \in EdgePeerPacket /\ body.built.sender = p
    /\ Signs(body.built, profile.auth[p])
    /\ body.wire = serialize_edge_packet(signPacket(body.built, profile.auth[p]),
                                         EffectiveMode(profile.wire))

PacketsFormed ==
    \A d \in 1 .. Len(sealed) :
        sealed[d].type = "edge" => EdgeFormed(sealed[d].header.src, sealed[d].body)

ThreadsSign ==
    \A p \in Peers, t \in Threads : thread[p][t] # Idle => ~ Refuses(p, thread[p][t].msg)

\* A vote on its way from the cache to the consensus, and every one counted there, was sent.
VoteAnnounced ==
    recv # Idle => /\ recv = [at |-> recv.at, sender |-> recv.sender, vote |-> recv.vote]
                   /\ recv.vote.epoch \in Nat /\ recv.vote.quorum \in Int
                   /\ Announced(recv.sender, recv.vote)

VotesCounted ==
    /\ votes = [proposal |-> votes.proposal, epoch |-> votes.epoch, quorum |-> votes.quorum,
                supporters |-> votes.supporters, met |-> votes.met, state |-> votes.state,
                override |-> votes.override]
    /\ {votes.epoch, votes.quorum} \subseteq Nat
    /\ IsFiniteSet(votes.supporters)
    /\ \A p \in votes.supporters \ {Local} : Announced(p, votes)
    /\ votes.met => Cardinality(votes.supporters) >= DefaultQuorum

SupportInv == now \in Nat /\ PacketsFormed /\ ThreadsSign /\ VoteAnnounced /\ VotesCounted

\* The one behind MapIsConsistent, and what a frame with a keyframe carries.
KeyframesFormed ==
    \A d \in 1 .. Len(sealed) : sealed[d].type = "keyframe" => RowsFormed(sealed[d].body.payload)

MapInv == KeyframesFormed /\ MapFormed(map) /\ FileFormed(file)
===============================================================================
