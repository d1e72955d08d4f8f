--------------------------- MODULE LeaderElection ---------------------------
(***************************************************************************)
(* The leader election of V2XMeshNetwork on one drone, Local: its three    *)
(* threads (the main thread, which holds the first election and publishes  *)
(* the drone's health, recv_loop and heartbeat_loop) interleave at every   *)
(* access to the table of peers, which peers_mutex_ guards, and to the     *)
(* atomics role_, leader_id_ and election_ongoing_.                        *)
(*                                                                         *)
(* The other drones are the environment: any of them may be heard with any *)
(* health at any time, and may fall silent, so that lost, delayed and      *)
(* reordered messages are all included. Time is not modelled: a peer may   *)
(* be found stale at any pass of expire_stale_peers, and the 500 ms sleep  *)
(* of an election lasts as long as it likes.                               *)
(***************************************************************************)
EXTENDS ElectionRules

CONSTANTS
    Local,          \* local_id_
    Peers,          \* the other drones that may be heard
    Healths,        \* figures a drone may have: score and battery, fault for
                    \* emergency_fault, weak for should_force_re_election
    FullBattery     \* battery_pct of a peer whose battery was never heard

NoLeader == 0       \* initial value of leader_id_

Threads == {"main", "recv", "beat"}

(* Edge packets by what they tell the table of peers.                      *)
EdgeKinds == {"heartbeat", "goodbye", "other"}

(* A fault makes the score zero (compute_leadership_score, 1203-1205) and  *)
(* is itself a reason to re-elect (1215).                                  *)
ASSUME ElectionAssumption ==
    /\ Local \in Int \ {0} /\ Peers \subseteq Int \ {0, Local}
    /\ Healths \subseteq [score : Scores, battery : Batteries, fault : BOOLEAN, weak : BOOLEAN]
    /\ \A h \in Healths : h.fault => h.score = 0 /\ h.weak
    /\ 0 \in Scores /\ FullBattery \in Batteries /\ Healths # {}

VARIABLES
    role,       \* role_
    leader,     \* leader_id_
    ongoing,    \* election_ongoing_
    health,     \* local_health_
    peers,      \* peers_: what is known of every peer, or Unheard
    at,         \* where each thread is
    tally,      \* locals of trigger_election in each thread
    candidate   \* locals of handle_election in the receive thread

vars == <<role, leader, ongoing, health, peers, at, tally, candidate>>

Unheard == [heard |-> FALSE, reachable |-> FALSE, silent |-> FALSE, score |-> 0,
            battery |-> FullBattery, fault |-> FALSE]

(* peers_[id] on first use: PeerInfo with its default members. A peer is   *)
(* silent from the pass that finds it stale to its next message.           *)
Created == [Unheard EXCEPT !.heard = TRUE, !.reachable = TRUE]

(* The entry of a peer a message updates.                                  *)
Entry(p) == IF peers[p].heard THEN peers[p] ELSE Created

PeerInfo == [heard : BOOLEAN, reachable : BOOLEAN, silent : BOOLEAN, score : Scores,
             battery : Batteries, fault : BOOLEAN]

(* The locals of a thread that holds no election.                          *)
NoTally == [health |-> CHOOSE h \in Healths : TRUE, uncounted |-> {}, best |-> Local]

NoCandidate == [id |-> NoLeader, score |-> 0]

(* The steps of trigger_election between the two stores of                 *)
(* election_ongoing_.                                                      *)
ElectionSteps == {"announce", "count", "counting", "storeRole", "storeLeader", "finish"}

Steps ==
    {"trigger", "serve", "receive", "judge", "stepDown", "follow", "beat", "lost", "demote"}
        \union ElectionSteps

(* Where a thread goes on after trigger_election.                          *)
Home == [main |-> "serve", recv |-> "receive", beat |-> "beat"]

TypeOK ==
    /\ role \in {"CANDIDATE", "FOLLOWER", "LEADER"}
    /\ leader \in Peers \union {Local, NoLeader}
    /\ ongoing \in BOOLEAN
    /\ health \in Healths
    /\ peers \in [Peers -> PeerInfo]
    /\ at \in [Threads -> Steps]
    /\ tally \in [Threads -> [health : Healths, uncounted : SUBSET Peers,
                              best : Peers \union {Local}]]
    /\ candidate \in [id : Peers \union {NoLeader}, score : Scores]

Init ==
    /\ role = "CANDIDATE"
    /\ leader = NoLeader
    /\ ongoing = FALSE
    /\ health \in Healths
    /\ peers = [p \in Peers |-> Unheard]
    /\ at = [main |-> "trigger", recv |-> "receive", beat |-> "beat"]
    /\ tally = [t \in Threads |-> NoTally]
    /\ candidate = NoCandidate

Goto(t, step) == at' = [at EXCEPT ![t] = step]

(* peers_mutex_ is free: no thread is in the loop of a count.              *)
PeersFree == \A t \in Threads : at[t] # "counting"

-----------------------------------------------------------------------------
(* trigger_election (537-588), in any thread.                              *)

(* Faulty variant: the flag is read and then stored, not exchanged.        *)
EnterUnchecked(t) == \* faulty
    /\ at[t] = "trigger"
    /\ ongoing' = TRUE
    /\ tally' = [tally EXCEPT ![t].health = health]
    /\ Goto(t, "announce")
    /\ UNCHANGED <<role, leader, health, peers, candidate>>

(* election_ongoing_.exchange(true): the call returns if an election is    *)
(* under way; otherwise the local health is read.                          *)
Enter(t) ==
    /\ at[t] = "trigger"
    /\ IF ongoing
       THEN Goto(t, Home[t]) /\ UNCHANGED <<ongoing, tally>>
       ELSE /\ ongoing' = TRUE
            /\ tally' = [tally EXCEPT ![t].health = health]
            /\ Goto(t, "announce")
    /\ UNCHANGED <<role, leader, health, peers, candidate>>

(* The health that was read is written back, with its score, and the       *)
(* LEADER_ELECT message goes out; the thread sleeps.                       *)
Announce(t) ==
    /\ at[t] = "announce"
    /\ health' = tally[t].health
    /\ Goto(t, "count")
    /\ UNCHANGED <<role, leader, ongoing, peers, tally, candidate>>

(* Faulty variant: peers that can no longer be reached are counted.        *)
StartCountOfAll(t) == \* faulty
    /\ at[t] = "count" /\ PeersFree
    /\ tally' = [tally EXCEPT ![t].uncounted = {p \in Peers : peers[p].heard},
                            ![t].best = Local]
    /\ Goto(t, "counting")
    /\ UNCHANGED <<role, leader, ongoing, health, peers, candidate>>

(* The lock is taken; the local drone is the best so far, the peers that   *)
(* can be reached are to be looked at.                                     *)
StartCount(t) ==
    /\ at[t] = "count" /\ PeersFree
    /\ tally' = [tally EXCEPT ![t].uncounted = {p \in Peers : peers[p].reachable},
                            ![t].best = Local]
    /\ Goto(t, "counting")
    /\ UNCHANGED <<role, leader, ongoing, health, peers, candidate>>

(* The figures a count goes by: its own copy for the local drone, the      *)
(* table for the others.                                                   *)
Reckoned(t, id) ==
    IF id = Local
    THEN [score |-> tally[t].health.score, battery |-> tally[t].health.battery]
    ELSE [score |-> peers[id].score, battery |-> peers[id].battery]

(* One turn of the loop over peers_, in the order of the hash table.       *)
CountPeer(t) ==
    /\ at[t] = "counting"
    /\ \E p \in tally[t].uncounted :
           LET b == tally[t].best
           IN  tally' = [tally EXCEPT
                            ![t].uncounted = @ \ {p},
                            ![t].best = IF Outranks(p, Reckoned(t, p), b, Reckoned(t, b))
                                        THEN p ELSE b]
    /\ UNCHANGED <<role, leader, ongoing, health, peers, at, candidate>>

(* The lock is released.                                                   *)
EndCount(t) ==
    /\ at[t] = "counting" /\ tally[t].uncounted = {}
    /\ Goto(t, "storeRole")
    /\ UNCHANGED <<role, leader, ongoing, health, peers, tally, candidate>>

StoreRole(t) ==
    /\ at[t] = "storeRole"
    /\ role' = IF tally[t].best = Local THEN "LEADER" ELSE "FOLLOWER"
    /\ Goto(t, "storeLeader")
    /\ UNCHANGED <<leader, ongoing, health, peers, tally, candidate>>

StoreLeader(t) ==
    /\ at[t] = "storeLeader"
    /\ leader' = tally[t].best
    /\ Goto(t, "finish")
    /\ UNCHANGED <<role, ongoing, health, peers, tally, candidate>>

(* Faulty variant: the flag is left set.                                   *)
FinishSilently(t) == \* faulty
    /\ at[t] = "finish"
    /\ tally' = [tally EXCEPT ![t] = NoTally]
    /\ Goto(t, Home[t])
    /\ UNCHANGED <<role, leader, ongoing, health, peers, candidate>>

(* election_ongoing_.store(false), and back to the caller.                 *)
Finish(t) ==
    /\ at[t] = "finish"
    /\ ongoing' = FALSE
    /\ tally' = [tally EXCEPT ![t] = NoTally]
    /\ Goto(t, Home[t])
    /\ UNCHANGED <<role, leader, health, peers, candidate>>

HoldElection(t) ==
    \/ Enter(t) \/ Announce(t) \/ StartCount(t) \/ CountPeer(t) \/ EndCount(t)
    \/ StoreRole(t) \/ StoreLeader(t) \/ Finish(t)

-----------------------------------------------------------------------------
(* The main thread: set_local_health (main.cpp:1258), and trigger_election *)
(* again when the dashboard asks for it through the Python bridge.         *)

SetLocalHealth(h) ==
    /\ at["main"] = "serve"
    /\ health' = h
    /\ UNCHANGED <<role, leader, ongoing, peers, at, tally, candidate>>

TriggerAgain ==
    /\ at["main"] = "serve"
    /\ Goto("main", "trigger")
    /\ UNCHANGED <<role, leader, ongoing, health, peers, tally, candidate>>

-----------------------------------------------------------------------------
(* The receive thread.                                                     *)

(* handle_heartbeat (466-513): a heartbeat of p, which calls itself leader *)
(* or does not. The leader it names is stored under the lock.              *)
HandleHeartbeat(p, h, leads) ==
    /\ at["recv"] = "receive" /\ PeersFree
    /\ peers' = [peers EXCEPT ![p] =
                    [heard |-> TRUE, reachable |-> TRUE, silent |-> FALSE,
                     score |-> h.score, battery |-> h.battery, fault |-> h.fault]]
    /\ leader' = IF leads THEN p ELSE leader
    /\ Goto("recv", IF leads /\ h.weak THEN "trigger" ELSE "receive")
    /\ UNCHANGED <<role, ongoing, health, tally, candidate>>

(* handle_edge_packet (702-744), of an admitted packet: what the cache     *)
(* knows of the sender is copied, its score stays as it was. The cache     *)
(* shows a sender stale after its goodbye; batteries come in heartbeats.   *)
HandleEdgePacket(p, h, kind) ==
    /\ at["recv"] = "receive" /\ PeersFree
    /\ peers' = [peers EXCEPT ![p] =
                    [Entry(p) EXCEPT !.reachable = kind # "goodbye",
                                     !.silent = FALSE,
                                     !.battery = IF kind = "heartbeat" THEN h.battery ELSE @,
                                     !.fault = h.fault]]
    /\ UNCHANGED <<role, leader, ongoing, health, at, tally, candidate>>

(* handle_election (590-608): the announcement of p is entered.            *)
HandleElection(p, score) ==
    /\ at["recv"] = "receive" /\ PeersFree
    /\ peers' = [peers EXCEPT ![p] = [Entry(p) EXCEPT !.reachable = TRUE, !.silent = FALSE,
                                                     !.score = score]]
    /\ candidate' = [id |-> p, score |-> score]
    /\ Goto("recv", "judge")
    /\ UNCHANGED <<role, leader, ongoing, health, tally>>

(* remote_wins, without a look at the batteries, and role_ (610-614).      *)
Judge ==
    /\ at["recv"] = "judge"
    /\ LET remoteWins == \/ candidate.score > health.score
                         \/ Close(candidate.score, health.score) /\ candidate.id > Local
       IN  IF remoteWins /\ role = "LEADER"
           THEN Goto("recv", "stepDown") /\ UNCHANGED candidate
           ELSE Goto("recv", "receive") /\ candidate' = NoCandidate
    /\ UNCHANGED <<role, leader, ongoing, health, peers, tally>>

StepDown ==
    /\ at["recv"] = "stepDown"
    /\ role' = "FOLLOWER"
    /\ Goto("recv", "follow")
    /\ UNCHANGED <<leader, ongoing, health, peers, tally, candidate>>

Follow ==
    /\ at["recv"] = "follow"
    /\ leader' = candidate.id
    /\ candidate' = NoCandidate
    /\ Goto("recv", "receive")
    /\ UNCHANGED <<role, ongoing, health, peers, tally>>

Receive ==
    \E p \in Peers, h \in Healths :
        \/ \E leads \in BOOLEAN : HandleHeartbeat(p, h, leads)
        \/ \E kind \in EdgeKinds : HandleEdgePacket(p, h, kind)
        \/ HandleElection(p, h.score)

-----------------------------------------------------------------------------
(* The heartbeat thread: expire_stale_peers (752-783).                     *)

(* Faulty variant: peers already known to be unreachable are passed over.  *)
ExpireNewly(stale) == \* faulty
    /\ at["beat"] = "beat" /\ PeersFree
    /\ {p \in Peers : peers[p].silent} \subseteq stale
    /\ stale \subseteq {p \in Peers : peers[p].heard}
    /\ peers' = [p \in Peers |->
                    IF p \in stale THEN [peers[p] EXCEPT !.reachable = FALSE, !.silent = TRUE]
                    ELSE peers[p]]
    /\ Goto("beat", IF \E p \in stale : peers[p].reachable /\ leader = p THEN "lost" ELSE "beat")
    /\ UNCHANGED <<role, leader, ongoing, health, tally, candidate>>

(* A pass finds the peers in stale silent, among them those the last found *)
(* silent and that sent nothing since.                                     *)
Expire(stale) ==
    /\ at["beat"] = "beat" /\ PeersFree
    /\ {p \in Peers : peers[p].silent} \subseteq stale
    /\ stale \subseteq {p \in Peers : peers[p].heard}
    /\ peers' = [p \in Peers |->
                    IF p \in stale THEN [peers[p] EXCEPT !.reachable = FALSE, !.silent = TRUE]
                    ELSE peers[p]]
    /\ Goto("beat", IF leader \in stale THEN "lost" ELSE "beat")
    /\ UNCHANGED <<role, leader, ongoing, health, tally, candidate>>

ClearLeader ==
    /\ at["beat"] = "lost"
    /\ leader' = NoLeader
    /\ Goto("beat", "demote")
    /\ UNCHANGED <<role, ongoing, health, peers, tally, candidate>>

Demote ==
    /\ at["beat"] = "demote"
    /\ role' = "CANDIDATE"
    /\ Goto("beat", "trigger")
    /\ UNCHANGED <<leader, ongoing, health, peers, tally, candidate>>

Beat == (\E stale \in SUBSET Peers : Expire(stale)) \/ ClearLeader \/ Demote

-----------------------------------------------------------------------------
Next ==
    \/ \E t \in Threads : HoldElection(t)
    \/ \E h \in Healths : SetLocalHealth(h)
    \/ TriggerAgain
    \/ Receive
    \/ Judge \/ StepDown \/ Follow
    \/ Beat

(* The threads run: an election that was begun goes on, and heartbeat_loop *)
(* comes round. Nothing need ever be received.                             *)
Fairness ==
    /\ \A t \in Threads : WF_vars(HoldElection(t))
    /\ WF_vars(Judge \/ StepDown \/ Follow)
    /\ WF_vars(Beat)

Spec == Init /\ [][Next]_vars /\ Fairness

-----------------------------------------------------------------------------
InElection(t) == at[t] \in ElectionSteps

(* At most one thread of a drone holds an election, and the flag says      *)
(* whether one does (538, 587): three threads may call trigger_election at *)
(* once.                                                                   *)
OneElectionAtATime ==
    /\ \A t, u \in Threads : InElection(t) /\ InElection(u) => t = u
    /\ ongoing <=> \E t \in Threads : InElection(t)

(* When the loop of a count ends (558-574), the drone it elects is Local   *)
(* or a peer within reach, and no peer within reach outranks it: with      *)
(* separated figures no order of the table and no message in between makes *)
(* the count miss the best.                                                *)
WinnerIsBest ==
    \A t \in Threads : at[t] = "counting" /\ tally[t].uncounted = {} =>
        LET w == tally[t].best
        IN  /\ w # Local => peers[w].reachable
            /\ \A c \in {Local} \union {p \in Peers : peers[p].reachable} :
                   c # w => Outranks(w, Reckoned(t, w), c, Reckoned(t, c))

(* What a count has looked at so far: Local and the peers within reach     *)
(* that are no longer to be counted. The best of them is known, and the    *)
(* table does not change under the count.                                  *)
Looked(t) == {Local} \union {p \in Peers : peers[p].reachable /\ p \notin tally[t].uncounted}

BestSoFar(t) ==
    /\ tally[t].uncounted \subseteq {p \in Peers : peers[p].reachable}
    /\ tally[t].best \in Looked(t)
    /\ \A c \in Looked(t) :
           c # tally[t].best =>
               Outranks(tally[t].best, Reckoned(t, tally[t].best), c, Reckoned(t, c))

BestOfLooked == \A t \in Threads : at[t] = "counting" => BestSoFar(t)

IInv == TypeOK /\ OneElectionAtATime /\ BestOfLooked

(* README.md:1396 says that "Emergency-fault nodes receive zero score". A  *)
(* drone known to have a fault is then never elected over a local drone    *)
(* whose score is not zero.                                                *)
FaultyNeverElected ==
    \A t \in Threads : at[t] = "counting" /\ tally[t].uncounted = {} =>
        LET w == tally[t].best
        IN  w # Local /\ peers[w].fault => Close(tally[t].health.score, 0)

(* Every election ends, whoever else calls for one meanwhile (537-588).    *)
ElectionEnds == ongoing ~> ~ongoing

(* A drone does not go on following a peer that fell silent (752-783),     *)
(* even when the result of an election that counted it as present is       *)
(* stored after the pass that found it silent.                             *)
LostLeaderAbandoned ==
    \A p \in Peers :
        (leader = p /\ peers[p].silent) ~> (leader # p \/ ~peers[p].silent)
=============================================================================
