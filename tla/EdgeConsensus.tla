---------------------------- MODULE EdgeConsensus ----------------------------
(***************************************************************************)
(* EdgeConsensusManager: one proposal, the epoch it belongs to and the     *)
(* drones that support it.  What it reads of the peer cache comes in as    *)
(* arguments: the peers that are known and not stale, and the two views    *)
(* the cache derives from them.                                            *)
(***************************************************************************)
EXTENDS Naturals, FiniteSets

CONSTANTS DefaultQuorum \* default_quorum_

ASSUME QuorumAssumption == DefaultQuorum \in Nat \ {0}

\* No proposal gets by with less than the default.
Needed(quorum) == IF quorum >= DefaultQuorum THEN quorum ELSE DefaultQuorum

InitConsensus == [proposal |-> "none", epoch |-> 0, quorum |-> 0, supporters |-> {},
                  met |-> FALSE, state |-> "single_node", override |-> FALSE]

set_local_safety_override(c, enabled) == [c EXCEPT !.override = enabled]

propose(c, local, proposal, epoch, quorum) ==
    LET needed == Needed(quorum)
    IN  [c EXCEPT !.proposal = proposal, !.epoch = epoch, !.quorum = needed,
                  !.supporters = {local}, !.met = 1 >= needed,
                  !.state = IF 1 >= needed THEN "quorum_met" ELSE "quorum_pending"]

Counted(c) == [c EXCEPT !.met = Cardinality(c.supporters) >= Needed(c.quorum)]

\* faulty: the supporters of the proposal before are kept
AdoptedWithSupporters(c, vote) ==
    IF vote.epoch > c.epoch
    THEN [c EXCEPT !.proposal = vote.proposal, !.epoch = vote.epoch,
                   !.quorum = Needed(vote.quorum)]
    ELSE c

\* A vote of a later epoch replaces the proposal and starts its support anew.
Adopted(c, vote) ==
    IF vote.epoch > c.epoch
    THEN [c EXCEPT !.proposal = vote.proposal, !.epoch = vote.epoch,
                   !.quorum = Needed(vote.quorum), !.supporters = {}]
    ELSE c

Supported(c, sender, vote) ==
    IF vote.epoch = c.epoch /\ vote.proposal = c.proposal
    THEN [c EXCEPT !.supporters = @ \union {sender}] ELSE c

\* observe_packet(), once its sender was found in the cache and fresh.
observe_packet(c, sender, vote, isolated) ==
    LET counted == Counted(Supported(Adopted(c, vote), sender, vote))
    IN  [counted EXCEPT !.state = IF counted.met THEN "quorum_met"
                                  ELSE IF isolated THEN "split_swarm_recovery"
                                  ELSE "quorum_pending"]

\* faulty: support is not withdrawn
RemainingAll(c, local, fresh) == c.supporters

Remaining(c, local, fresh) == c.supporters \intersect (fresh \union {local})

expire(c, local, fresh, isolated) ==
    LET counted == Counted([c EXCEPT !.supporters = Remaining(c, local, fresh)])
    IN  [counted EXCEPT !.state = IF isolated THEN "split_swarm_recovery"
                                  ELSE IF fresh = {} THEN "isolated"
                                  ELSE IF counted.met THEN "quorum_met"
                                  ELSE "quorum_pending"]

should_apply_collective_action(c) == ~ c.override /\ c.proposal # "none" /\ c.met
===============================================================================
