----------------------- MODULE LeaderElection_proofs -----------------------
(***************************************************************************)
(* The threads of one drone never hold two elections at once, and the      *)
(* count of an election finds the best of the drones within reach: for any *)
(* number of peers, any healths and any messages.                          *)
(***************************************************************************)
EXTENDS LeaderElection

(* The figures a count goes by are figures.                                *)
LEMMA ReckonedFigures ==
    ASSUME TypeOK, NEW t \in Threads, NEW id \in Peers \union {Local}
    PROVE  Reckoned(t, id) \in Figures
<1>1. tally[t].health.score \in Scores /\ tally[t].health.battery \in Batteries
  <2>1. tally[t].health \in Healths
    BY DEF TypeOK
  <2> QED
    BY <2>1, ElectionAssumption
<1>2. ASSUME id # Local
      PROVE  peers[id].score \in Scores /\ peers[id].battery \in Batteries
  BY <1>2 DEF TypeOK, PeerInfo
<1> QED
  BY <1>1, <1>2 DEF Reckoned, Figures

(* The initial states satisfy the invariant.                               *)
LEMMA InitInvariant == Init => IInv
<1> SUFFICES ASSUME Init PROVE IInv
  OBVIOUS
<1>1. (CHOOSE h \in Healths : TRUE) \in Healths
  BY ElectionAssumption
<1>2. TypeOK
  <2>1. at \in [Threads -> Steps]
    BY DEF Init, Threads, Steps
  <2>2. Unheard \in PeerInfo
    BY ElectionAssumption DEF Unheard, PeerInfo
  <2>3. NoTally \in [health : Healths, uncounted : SUBSET Peers, best : Peers \union {Local}]
    BY <1>1 DEF NoTally
  <2>4. NoCandidate \in [id : Peers \union {NoLeader}, score : Scores]
    BY ElectionAssumption DEF NoCandidate
  <2> QED
    BY <2>1, <2>2, <2>3, <2>4 DEF Init, TypeOK
<1>3. OneElectionAtATime /\ BestOfLooked
  BY DEF Init, OneElectionAtATime, InElection, BestOfLooked, Threads, ElectionSteps
<1> QED
  BY <1>2, <1>3 DEF IInv

(* Every step keeps the types.                                             *)
LEMMA TypesPreserved == TypeOK /\ [Next]_vars => TypeOK'
<1> SUFFICES ASSUME TypeOK, [Next]_vars PROVE TypeOK'
  OBVIOUS
<1> USE DEF TypeOK, Goto
<1>0. /\ ElectionSteps \subseteq Steps
      /\ \A t \in Threads : Home[t] \in Steps
      /\ {"trigger", "serve", "receive", "judge", "stepDown", "follow", "beat", "lost", "demote"}
            \subseteq Steps
  BY DEF Steps, ElectionSteps, Home, Threads
<1>1. (CHOOSE h \in Healths : TRUE) \in Healths
  BY ElectionAssumption
<1>2. \A h \in Healths : h.score \in Scores /\ h.battery \in Batteries /\ h.fault \in BOOLEAN
  BY ElectionAssumption
<1>3. \A p \in Peers : Entry(p) \in PeerInfo
  BY ElectionAssumption DEF Entry, Created, Unheard, PeerInfo
<1>4. "main" \in Threads /\ "recv" \in Threads /\ "beat" \in Threads
  BY DEF Threads
<1>5. CASE UNCHANGED vars
  BY <1>5 DEF vars
<1>6. ASSUME NEW t \in Threads, HoldElection(t)
      PROVE  TypeOK'
  <2>1. CASE Enter(t)
    <3>1. at' \in [Threads -> Steps]
      BY <2>1, <1>0 DEF Enter, ElectionSteps
    <3>2. tally' \in [Threads -> [health : Healths, uncounted : SUBSET Peers,
                                 best : Peers \union {Local}]]
      <4>1. CASE tally' = tally
        BY <4>1
      <4>2. CASE tally' = [tally EXCEPT ![t].health = health]
        BY <4>2
      <4> QED
        BY <2>1, <4>1, <4>2 DEF Enter
    <3>3. ongoing' \in BOOLEAN
      BY <2>1 DEF Enter
    <3> QED
      BY <2>1, <3>1, <3>2, <3>3 DEF Enter
  <2>2. CASE Announce(t)
    BY <2>2, <1>0 DEF Announce, ElectionSteps
  <2>3. CASE StartCount(t)
    BY <2>3, <1>0 DEF StartCount, ElectionSteps
  <2>4. CASE CountPeer(t)
    <3>1. PICK p \in tally[t].uncounted :
             tally' = [tally EXCEPT
                         ![t].uncounted = @ \ {p},
                         ![t].best = IF Outranks(p, Reckoned(t, p), tally[t].best,
                                                 Reckoned(t, tally[t].best))
                                     THEN p ELSE tally[t].best]
      BY <2>4 DEF CountPeer
    <3>2. p \in Peers
      OBVIOUS
    <3>3. tally' \in [Threads -> [health : Healths, uncounted : SUBSET Peers,
                                 best : Peers \union {Local}]]
      BY <3>1, <3>2
    <3> QED
      BY <2>4, <3>3 DEF CountPeer
  <2>5. CASE EndCount(t)
    BY <2>5, <1>0 DEF EndCount, ElectionSteps
  <2>6. CASE StoreRole(t)
    BY <2>6, <1>0 DEF StoreRole, ElectionSteps
  <2>7. CASE StoreLeader(t)
    <3>1. tally[t].best \in Peers \union {Local}
      OBVIOUS
    <3>2. leader' \in Peers \union {Local, NoLeader}
      BY <2>7, <3>1 DEF StoreLeader
    <3>3. at' \in [Threads -> Steps]
      BY <2>7, <1>0 DEF StoreLeader, ElectionSteps
    <3> QED
      BY <2>7, <3>2, <3>3 DEF StoreLeader
  <2>8. CASE Finish(t)
    BY <2>8, <1>0, <1>1 DEF Finish, NoTally
  <2> QED
    BY <1>6, <2>1, <2>2, <2>3, <2>4, <2>5, <2>6, <2>7, <2>8 DEF HoldElection
<1>7. ASSUME NEW h \in Healths, SetLocalHealth(h)
      PROVE  TypeOK'
  BY <1>7 DEF SetLocalHealth
<1>8. CASE TriggerAgain
  BY <1>8, <1>0, <1>4 DEF TriggerAgain
<1>9. CASE Receive
  <2>1. PICK p \in Peers, h \in Healths :
           \/ \E leads \in BOOLEAN : HandleHeartbeat(p, h, leads)
           \/ \E kind \in EdgeKinds : HandleEdgePacket(p, h, kind)
           \/ HandleElection(p, h.score)
    BY <1>9 DEF Receive
  <2>2. ASSUME NEW leads \in BOOLEAN, HandleHeartbeat(p, h, leads)
        PROVE  TypeOK'
    BY <2>2, <1>0, <1>2, <1>4 DEF HandleHeartbeat, PeerInfo
  <2>3. ASSUME NEW kind \in EdgeKinds, HandleEdgePacket(p, h, kind)
        PROVE  TypeOK'
    <3>1. Entry(p) \in PeerInfo /\ h.battery \in Batteries /\ h.fault \in BOOLEAN
      BY <1>2, <1>3
    <3>2. (IF kind = "heartbeat" THEN h.battery ELSE Entry(p).battery) \in Batteries
      BY <3>1 DEF PeerInfo
    <3> QED
      BY <2>3, <3>1, <3>2 DEF HandleEdgePacket, PeerInfo
  <2>4. CASE HandleElection(p, h.score)
    BY <2>4, <1>0, <1>2, <1>3, <1>4 DEF HandleElection, PeerInfo
  <2> QED
    BY <2>1, <2>2, <2>3, <2>4
<1>10. CASE Judge
  BY <1>10, <1>0, <1>4, ElectionAssumption DEF Judge, NoCandidate
<1>11. CASE StepDown
  BY <1>11, <1>0, <1>4 DEF StepDown
<1>12. CASE Follow
  BY <1>12, <1>0, <1>4, ElectionAssumption DEF Follow, NoCandidate
<1>13. ASSUME NEW stale \in SUBSET Peers, Expire(stale)
       PROVE  TypeOK'
  BY <1>13, <1>0, <1>4 DEF Expire, PeerInfo
<1>14. CASE ClearLeader
  BY <1>14, <1>0, <1>4 DEF ClearLeader
<1>15. CASE Demote
  BY <1>15, <1>0, <1>4 DEF Demote
<1> QED
  BY <1>5, <1>6, <1>7, <1>8, <1>9, <1>10, <1>11, <1>12, <1>13, <1>14, <1>15 DEF Next, Beat

(* Every step keeps elections apart: only the thread that finds the flag   *)
(* clear goes in, and the one that went in clears it.                      *)
LEMMA ExclusionPreserved == TypeOK /\ OneElectionAtATime /\ [Next]_vars => OneElectionAtATime'
<1> SUFFICES ASSUME TypeOK, OneElectionAtATime, [Next]_vars PROVE OneElectionAtATime'
  OBVIOUS
<1>0. /\ \A t \in Threads : Home[t] \notin ElectionSteps
      /\ "announce" \in ElectionSteps /\ "count" \in ElectionSteps
      /\ "counting" \in ElectionSteps /\ "storeRole" \in ElectionSteps
      /\ "storeLeader" \in ElectionSteps /\ "finish" \in ElectionSteps
      /\ "trigger" \notin ElectionSteps /\ "serve" \notin ElectionSteps
      /\ "receive" \notin ElectionSteps /\ "judge" \notin ElectionSteps
      /\ "stepDown" \notin ElectionSteps /\ "follow" \notin ElectionSteps
      /\ "beat" \notin ElectionSteps /\ "lost" \notin ElectionSteps
      /\ "demote" \notin ElectionSteps
      /\ "main" \in Threads /\ "recv" \in Threads /\ "beat" \in Threads
  BY DEF ElectionSteps, Home, Threads
<1>1. ASSUME UNCHANGED at, UNCHANGED ongoing
      PROVE  OneElectionAtATime'
  BY <1>1 DEF OneElectionAtATime, InElection
<1>2. ASSUME NEW t \in Threads, NEW step, at' = [at EXCEPT ![t] = step], UNCHANGED ongoing,
             step \in ElectionSteps <=> at[t] \in ElectionSteps
      PROVE  OneElectionAtATime'
  <2>1. \A u \in Threads : InElection(u)' <=> InElection(u)
    BY <1>2 DEF InElection, TypeOK
  <2> QED
    BY <1>2, <2>1 DEF OneElectionAtATime
<1>3. ASSUME NEW t \in Threads, HoldElection(t)
      PROVE  OneElectionAtATime'
  <2>1. CASE Enter(t)
    <3>1. CASE ongoing
      BY <2>1, <3>1, <1>0, <1>2 DEF Enter, Goto
    <3>2. CASE ~ongoing
      <4>1. \A u \in Threads : ~InElection(u)
        BY <3>2 DEF OneElectionAtATime
      <4>2. \A u \in Threads : InElection(u)' <=> u = t
        BY <2>1, <3>2, <4>1, <1>0 DEF Enter, Goto, InElection, TypeOK
      <4>3. ongoing' = TRUE
        BY <2>1, <3>2 DEF Enter
      <4> QED
        BY <4>2, <4>3 DEF OneElectionAtATime
    <3> QED
      BY <3>1, <3>2
  <2>2. CASE Announce(t)
    BY <2>2, <1>0, <1>2 DEF Announce, Goto
  <2>3. CASE StartCount(t)
    BY <2>3, <1>0, <1>2 DEF StartCount, Goto
  <2>4. CASE CountPeer(t)
    BY <2>4, <1>1 DEF CountPeer
  <2>5. CASE EndCount(t)
    BY <2>5, <1>0, <1>2 DEF EndCount, Goto
  <2>6. CASE StoreRole(t)
    BY <2>6, <1>0, <1>2 DEF StoreRole, Goto
  <2>7. CASE StoreLeader(t)
    BY <2>7, <1>0, <1>2 DEF StoreLeader, Goto
  <2>8. CASE Finish(t)
    <3>1. \A u \in Threads : InElection(u) => u = t
      BY <2>8, <1>0 DEF Finish, OneElectionAtATime, InElection
    <3>2. \A u \in Threads : ~InElection(u)'
      BY <2>8, <3>1, <1>0 DEF Finish, Goto, InElection, TypeOK
    <3>3. ongoing' = FALSE
      BY <2>8 DEF Finish
    <3> QED
      BY <3>2, <3>3 DEF OneElectionAtATime
  <2> QED
    BY <1>3, <2>1, <2>2, <2>3, <2>4, <2>5, <2>6, <2>7, <2>8 DEF HoldElection
<1>4. ASSUME NEW h \in Healths, SetLocalHealth(h)
      PROVE  OneElectionAtATime'
  BY <1>4, <1>1 DEF SetLocalHealth
<1>5. CASE TriggerAgain
  BY <1>5, <1>0, <1>2 DEF TriggerAgain, Goto
<1>6. CASE Receive
  <2>1. PICK p \in Peers, h \in Healths :
           \/ \E leads \in BOOLEAN : HandleHeartbeat(p, h, leads)
           \/ \E kind \in EdgeKinds : HandleEdgePacket(p, h, kind)
           \/ HandleElection(p, h.score)
    BY <1>6 DEF Receive
  <2>2. ASSUME NEW leads \in BOOLEAN, HandleHeartbeat(p, h, leads)
        PROVE  OneElectionAtATime'
    BY <2>2, <1>0, <1>2 DEF HandleHeartbeat, Goto
  <2>3. ASSUME NEW kind \in EdgeKinds, HandleEdgePacket(p, h, kind)
        PROVE  OneElectionAtATime'
    BY <2>3, <1>1 DEF HandleEdgePacket
  <2>4. CASE HandleElection(p, h.score)
    BY <2>4, <1>0, <1>2 DEF HandleElection, Goto
  <2> QED
    BY <2>1, <2>2, <2>3, <2>4
<1>7. CASE Judge
  BY <1>7, <1>0, <1>2 DEF Judge, Goto
<1>8. CASE StepDown
  BY <1>8, <1>0, <1>2 DEF StepDown, Goto
<1>9. CASE Follow
  BY <1>9, <1>0, <1>2 DEF Follow, Goto
<1>10. ASSUME NEW stale \in SUBSET Peers, Expire(stale)
       PROVE  OneElectionAtATime'
  BY <1>10, <1>0, <1>2 DEF Expire, Goto
<1>11. CASE ClearLeader
  BY <1>11, <1>0, <1>2 DEF ClearLeader, Goto
<1>12. CASE Demote
  BY <1>12, <1>0, <1>2 DEF Demote, Goto
<1>13. CASE UNCHANGED vars
  BY <1>13, <1>1 DEF vars
<1> QED
  BY <1>3, <1>4, <1>5, <1>6, <1>7, <1>8, <1>9, <1>10, <1>11, <1>12, <1>13 DEF Next, Beat

(* Every step keeps the best of a count: the table does not change under   *)
(* it, and each turn of its loop compares one peer more.                   *)
LEMMA BestPreserved ==
    ASSUME Separated
    PROVE  TypeOK /\ BestOfLooked /\ [Next]_vars => BestOfLooked'
<1> SUFFICES ASSUME TypeOK, BestOfLooked, [Next]_vars PROVE BestOfLooked'
  OBVIOUS
<1>0. /\ \A t \in Threads : Home[t] # "counting"
      /\ "main" \in Threads /\ "recv" \in Threads /\ "beat" \in Threads
  BY DEF Home, Threads
<1>1. ASSUME UNCHANGED peers,
             \A t \in Threads : at'[t] = "counting" => at[t] = "counting" /\ tally'[t] = tally[t]
      PROVE  BestOfLooked'
  BY <1>1 DEF BestOfLooked, BestSoFar, Looked, Reckoned
<1>2. ASSUME PeersFree,
             \A t \in Threads : at'[t] = "counting" => at[t] = "counting"
      PROVE  BestOfLooked'
  BY <1>2 DEF BestOfLooked, PeersFree
<1>3. ASSUME NEW t \in Threads, HoldElection(t)
      PROVE  BestOfLooked'
  <2>1. CASE Enter(t)
    BY <2>1, <1>0, <1>1 DEF Enter, Goto, TypeOK
  <2>2. CASE Announce(t)
    BY <2>2, <1>0, <1>1 DEF Announce, Goto, TypeOK
  <2>3. CASE StartCount(t)
    <3>1. /\ tally'[t].uncounted = {p \in Peers : peers[p].reachable}
          /\ tally'[t].best = Local
          /\ \A u \in Threads : at'[u] = "counting" => u = t
          /\ peers' = peers
      BY <2>3 DEF StartCount, Goto, PeersFree, TypeOK
    <3> QED
      BY <3>1 DEF BestOfLooked, BestSoFar, Looked
  <2>4. CASE CountPeer(t)
    <3> DEFINE b == tally[t].best
    <3>1. PICK p \in tally[t].uncounted :
             tally' = [tally EXCEPT
                         ![t].uncounted = @ \ {p},
                         ![t].best = IF Outranks(p, Reckoned(t, p), b, Reckoned(t, b))
                                     THEN p ELSE b]
      BY <2>4 DEF CountPeer
    <3>2. /\ at[t] = "counting" /\ at' = at /\ peers' = peers
          /\ tally'[t].uncounted = tally[t].uncounted \ {p}
          /\ tally'[t].best = IF Outranks(p, Reckoned(t, p), b, Reckoned(t, b)) THEN p ELSE b
          /\ tally'[t].health = tally[t].health
          /\ \A u \in Threads : u # t => tally'[u] = tally[u]
      BY <2>4, <3>1 DEF CountPeer, TypeOK
    <3>3. /\ p \in Peers /\ peers[p].reachable
          /\ b \in Looked(t) /\ b # p
      <4>1. p \in Peers /\ peers[p].reachable /\ b \in Looked(t)
        BY <3>2 DEF BestOfLooked, BestSoFar
      <4>2. p \notin Looked(t)
        BY <4>1, ElectionAssumption DEF Looked
      <4> QED
        BY <4>1, <4>2
    <3>4. Looked(t)' = Looked(t) \union {p}
      BY <3>2, <3>3 DEF Looked
    <3>5. \A id : Reckoned(t, id)' = Reckoned(t, id)
      BY <3>2 DEF Reckoned
    <3>6. tally'[t].best \in Looked(t)'
      BY <3>2, <3>3, <3>4
    <3>7. ASSUME NEW c \in Looked(t)', c # tally'[t].best
          PROVE  Outranks(tally'[t].best, Reckoned(t, tally'[t].best), c, Reckoned(t, c))
      <4>1. c \in Peers \union {Local} /\ b \in Peers \union {Local}
        BY <3>3, <3>4, <3>7 DEF Looked
      <4>2. c \in Int /\ p \in Int /\ b \in Int
        BY <4>1, <3>3, ElectionAssumption
      <4>3. Reckoned(t, c) \in Figures /\ Reckoned(t, p) \in Figures /\ Reckoned(t, b) \in Figures
        BY <4>1, <3>3, ReckonedFigures
      <4>4. c = p \/ c = b \/ Outranks(b, Reckoned(t, b), c, Reckoned(t, c))
        BY <3>2, <3>4, <3>7 DEF BestOfLooked, BestSoFar
      <4>5. CASE Outranks(p, Reckoned(t, p), b, Reckoned(t, b))
        <5>1. tally'[t].best = p
          BY <4>5, <3>2
        <5> HIDE DEF b
        <5> QED
          BY <5>1, <4>2, <4>3, <4>4, <4>5, <3>7, OutranksTransitive
      <4>6. CASE ~Outranks(p, Reckoned(t, p), b, Reckoned(t, b))
        <5>1. tally'[t].best = b
          BY <4>6, <3>2
        <5> HIDE DEF b
        <5>2. Outranks(b, Reckoned(t, b), p, Reckoned(t, p))
          BY <4>2, <4>3, <4>6, <3>3, OutranksTotal
        <5> QED
          BY <5>1, <5>2, <4>4, <3>7
      <4> QED
        BY <4>5, <4>6
    <3>8. tally'[t].uncounted \subseteq {q \in Peers : peers'[q].reachable}
      BY <3>2 DEF BestOfLooked, BestSoFar
    <3> SUFFICES ASSUME NEW u \in Threads, at'[u] = "counting"
                 PROVE  BestSoFar(u)'
      BY DEF BestOfLooked
    <3>9. CASE u = t
      <4>1. Reckoned(t, tally[t].best)' = Reckoned(t, tally'[t].best)
        BY <3>2 DEF Reckoned
      <4> QED
        BY <3>9, <4>1, <3>5, <3>6, <3>7, <3>8 DEF BestSoFar
    <3>10. CASE u # t
      <4>1. tally'[u] = tally[u] /\ at[u] = "counting"
        BY <3>2, <3>10
      <4> QED
        BY <3>2, <4>1 DEF BestOfLooked, BestSoFar, Looked, Reckoned
    <3> QED
      BY <3>9, <3>10
  <2>5. CASE EndCount(t)
    BY <2>5, <1>0, <1>1 DEF EndCount, Goto, TypeOK
  <2>6. CASE StoreRole(t)
    BY <2>6, <1>0, <1>1 DEF StoreRole, Goto, TypeOK
  <2>7. CASE StoreLeader(t)
    BY <2>7, <1>0, <1>1 DEF StoreLeader, Goto, TypeOK
  <2>8. CASE Finish(t)
    BY <2>8, <1>0, <1>1 DEF Finish, Goto, TypeOK
  <2> QED
    BY <1>3, <2>1, <2>2, <2>3, <2>4, <2>5, <2>6, <2>7, <2>8 DEF HoldElection
<1>4. ASSUME NEW h \in Healths, SetLocalHealth(h)
      PROVE  BestOfLooked'
  BY <1>4, <1>1 DEF SetLocalHealth
<1>5. CASE TriggerAgain
  BY <1>5, <1>0, <1>1 DEF TriggerAgain, Goto, TypeOK
<1>6. CASE Receive
  <2>1. PICK p \in Peers, h \in Healths :
           \/ \E leads \in BOOLEAN : HandleHeartbeat(p, h, leads)
           \/ \E kind \in EdgeKinds : HandleEdgePacket(p, h, kind)
           \/ HandleElection(p, h.score)
    BY <1>6 DEF Receive
  <2>2. ASSUME NEW leads \in BOOLEAN, HandleHeartbeat(p, h, leads)
        PROVE  BestOfLooked'
    BY <2>2, <1>0, <1>2 DEF HandleHeartbeat, Goto, TypeOK
  <2>3. ASSUME NEW kind \in EdgeKinds, HandleEdgePacket(p, h, kind)
        PROVE  BestOfLooked'
    BY <2>3, <1>2 DEF HandleEdgePacket
  <2>4. CASE HandleElection(p, h.score)
    BY <2>4, <1>0, <1>2 DEF HandleElection, Goto, TypeOK
  <2> QED
    BY <2>1, <2>2, <2>3, <2>4
<1>7. CASE Judge
  BY <1>7, <1>0, <1>1 DEF Judge, Goto, TypeOK
<1>8. CASE StepDown
  BY <1>8, <1>0, <1>1 DEF StepDown, Goto, TypeOK
<1>9. CASE Follow
  BY <1>9, <1>0, <1>1 DEF Follow, Goto, TypeOK
<1>10. ASSUME NEW stale \in SUBSET Peers, Expire(stale)
       PROVE  BestOfLooked'
  BY <1>10, <1>0, <1>2 DEF Expire, Goto, TypeOK
<1>11. CASE ClearLeader
  BY <1>11, <1>0, <1>1 DEF ClearLeader, Goto, TypeOK
<1>12. CASE Demote
  BY <1>12, <1>0, <1>1 DEF Demote, Goto, TypeOK
<1>13. CASE UNCHANGED vars
  BY <1>13, <1>1 DEF vars
<1> QED
  BY <1>3, <1>4, <1>5, <1>6, <1>7, <1>8, <1>9, <1>10, <1>11, <1>12, <1>13 DEF Next, Beat

(* No two threads of a drone are inside trigger_election at once, and      *)
(* election_ongoing_ says whether one is (V2XMeshNetwork.cpp:538, 587).    *)
THEOREM ElectionsExclude == Spec => []OneElectionAtATime
<1>1. Init => TypeOK /\ OneElectionAtATime
  BY InitInvariant DEF IInv
<1>2. TypeOK /\ OneElectionAtATime /\ [Next]_vars => (TypeOK /\ OneElectionAtATime)'
  BY TypesPreserved, ExclusionPreserved
<1> QED
  BY <1>1, <1>2, PTL DEF Spec

(* With separated figures the count of an election ends with the one drone *)
(* that outranks all the others within reach (558-574), whatever the other *)
(* threads do and in whatever order the table is gone through.             *)
THEOREM CountFindsBest ==
    ASSUME Separated
    PROVE  Spec => []WinnerIsBest
<1>1. TypeOK /\ BestOfLooked => WinnerIsBest
  BY DEF BestOfLooked, BestSoFar, Looked, WinnerIsBest
<1>2. Init => TypeOK /\ BestOfLooked
  BY InitInvariant DEF IInv
<1>3. TypeOK /\ BestOfLooked /\ [Next]_vars => (TypeOK /\ BestOfLooked)'
  BY TypesPreserved, BestPreserved
<1> QED
  BY <1>1, <1>2, <1>3, PTL DEF Spec
=============================================================================
