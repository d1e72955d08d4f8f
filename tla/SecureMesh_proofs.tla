-------------------------- MODULE SecureMesh_proofs --------------------------
(***************************************************************************)
(* Proofs about SecureMesh, for any number of peers, frames and restarts,  *)
(* any configuration and traffic, and any losses, repetitions and          *)
(* reorderings of the radio.                                               *)
(*                                                                         *)
(* No ledger frame is skipped: a sender's chain always names its last      *)
(* ledger frame since it started (a thread that has read the chain and not *)
(* yet written it holds the sender's only election), so each ledger frame  *)
(* names the one before it; Local's chain names a frame it has opened; and *)
(* it opens a ledger frame only if the two names agree.                    *)
(*                                                                         *)
(* Verification: every packet on the air is one that its sender built and  *)
(* signed, and signing, encoding, parsing and verifying agree about it.    *)
(*                                                                         *)
(* Support: a vote is of a packet on the air from the moment it is taken   *)
(* off the air until its support ends.                                     *)
(*                                                                         *)
(* Map: what comes into the map, from the camera, a peer or the file, is   *)
(* formed as what is there, and its numbers are below the next ones.       *)
(***************************************************************************)
EXTENDS SecureMesh, SequenceTheorems, FiniteSetTheorems, WellFoundedInduction, TLAPS

(***************************************************************************)
(* Types, as far as the argument needs them.                               *)
(***************************************************************************)
Chain  == [seq : Nat, last : Nat, ledger : Nat]
Sender == [seq : Nat, chain : Chain, edge : Nat, kf : Nat, boot : Nat]
Header == [src : Peers, seq : Nat, key : {profile.key[p] : p \in Peers}, ledger : BOOLEAN,
           past : Nat, chain : Nat]
Loaded  == [at : {"loaded", "numbered"}, msg : profile.messages, seq : Nat]
Reading == [at : {"reading"}, msg : profile.messages, header : Header]
Op      == {Idle} \union Loaded \union Reading

FramesTyped ==
    /\ \E S : sealed \in Seq(S)
    /\ \A d \in 1 .. Len(sealed) : sealed[d].header \in Header /\ sealed[d].boot \in Nat

Typed ==
    /\ profile \in Profiles
    /\ tx \in [Peers -> Sender]
    /\ thread \in [Peers -> [Threads -> Op]]
    /\ electing \in [Peers -> BOOLEAN]
    /\ FramesTyped
    /\ air \in Seq(Nat) /\ \A i \in 1 .. Len(air) : air[i] \in 1 .. Len(sealed)
    /\ rx \in [Peers -> Chain]
    /\ accepted \subseteq 1 .. Len(sealed)

(***************************************************************************)
(* The chains.                                                             *)
(***************************************************************************)
LedgerFrame(frames, d, p, boot) ==
    frames[d].header.ledger /\ frames[d].header.src = p /\ frames[d].boot = boot

(* c is the last ledger frame of p since boot before frame n, or 0.        *)
LastBefore(frames, c, p, boot, n) ==
    /\ c \in 0 .. n - 1
    /\ c # 0 => LedgerFrame(frames, c, p, boot)
    /\ \A d \in c + 1 .. n - 1 : ~ LedgerFrame(frames, d, p, boot)

BootsAreOld == \A d \in 1 .. Len(sealed) : sealed[d].boot <= tx[sealed[d].header.src].boot

SendersChain ==
    profile.secure =>
        \A p \in Peers : LastBefore(sealed, tx[p].chain.ledger, p, tx[p].boot, Len(sealed) + 1)

FramesChain ==
    profile.secure =>
        \A d \in 1 .. Len(sealed) : sealed[d].header.ledger =>
            LastBefore(sealed, sealed[d].header.chain, sealed[d].header.src, sealed[d].boot, d)

LocalsChain ==
    \A p \in Peers : rx[p].ledger # 0 =>
        /\ rx[p].ledger \in accepted
        /\ sealed[rx[p].ledger].header.ledger
        /\ sealed[rx[p].ledger].header.src = p

(* An election is broadcast by one thread at a time, and a thread that has *)
(* read the chains for it has read what they still say.                    *)
Elects(p, t) == thread[p][t] # Idle /\ thread[p][t].msg.type = "election"

ThreadsExclude ==
    \A p \in Peers, t \in Threads :
        /\ thread[p][t] # Idle => profile.racing
        /\ Elects(p, t) => electing[p]
        /\ \A u \in Threads : Elects(p, t) /\ Elects(p, u) => t = u

ReadingsHold ==
    \A p \in Peers, t \in Threads : thread[p][t] \in Reading =>
        /\ thread[p][t].header.src = p
        /\ thread[p][t].header.ledger <=> is_ledger_message(thread[p][t].msg.type)
        /\ thread[p][t].header.ledger => thread[p][t].header.chain = tx[p].chain.ledger

OpensOnlySealed == ~ profile.secure => accepted = {}

Chains ==
    /\ BootsAreOld /\ SendersChain /\ FramesChain /\ LocalsChain
    /\ OpensOnlySealed
    /\ LedgerIsComplete

IInv == Typed /\ Chains /\ ThreadsExclude /\ ReadingsHold

(***************************************************************************)
(* Sequences and records.                                                  *)
(***************************************************************************)
LEMMA Appended ==
    ASSUME NEW s, \E S : s \in Seq(S), NEW e
    PROVE  /\ \E S : Append(s, e) \in Seq(S)
           /\ Len(s) \in Nat /\ Len(Append(s, e)) = Len(s) + 1
           /\ \A i \in 1 .. Len(s) : Append(s, e)[i] = s[i]
           /\ Append(s, e)[Len(s) + 1] = e
<1>1. PICK S : s \in Seq(S)
  OBVIOUS
<1>2. s \in Seq(S \union {e})
  BY <1>1, SeqMonotonic
<1>3. e \in S \union {e}
  OBVIOUS
<1> QED
  BY <1>2, <1>3, AppendProperties, LenProperties

(* What build_header() makes of typed chains is a header.                  *)
LEMMA HeaderType ==
    ASSUME NEW p \in Peers, NEW state \in Chain, NEW seq \in Nat, NEW type,
           NEW h, h = build_header(state, p, seq, type, profile.key[p])
    PROVE  /\ h \in Header
           /\ h.src = p
           /\ h.ledger <=> is_ledger_message(type)
           /\ h.ledger => h.chain = state.ledger
<1>1. is_ledger_message(type) \in BOOLEAN
  BY DEF is_ledger_message
<1>2. (IF is_ledger_message(type) THEN state.ledger ELSE 0) \in Nat
  BY DEF Chain
<1>3. h = [src |-> p, seq |-> seq, key |-> profile.key[p], ledger |-> is_ledger_message(type),
           past |-> state.last, chain |-> IF is_ledger_message(type) THEN state.ledger ELSE 0]
  BY DEF build_header
<1>4. state.last \in Nat
  BY DEF Chain
<1> QED
  BY <1>1, <1>2, <1>3, <1>4 DEF Header

(* A chain stays a chain when a frame is sealed.                           *)
LEMMA ChainedType ==
    ASSUME NEW chain \in Chain, NEW h \in Header, NEW digest \in Nat
    PROVE  /\ Chained(chain, h, digest) \in Chain
           /\ Chained(chain, h, digest).ledger =
                  IF profile.secure /\ h.ledger THEN digest ELSE chain.ledger
  BY DEF Chained, Sealed, Chain, Header

(* What a sender counts with keeps its type.                               *)
LEMMA UsedType ==
    ASSUME NEW state \in Sender, NEW msg
    PROVE  /\ Used(state, msg) \in Sender
           /\ Used(state, msg).seq = state.seq
           /\ Used(state, msg).chain = state.chain
           /\ Used(state, msg).boot = state.boot
<1>1. state.edge \in Nat /\ state.kf \in Nat
  BY DEF Sender
<1> DEFINE e == IF msg.type = "edge" THEN state.edge + 1 ELSE state.edge
           k == IF msg.type = "keyframe" THEN state.kf + 1 ELSE state.kf
<1>2. e \in Nat /\ k \in Nat
  BY <1>1
<1>3. Used(state, msg) = [state EXCEPT !.edge = e, !.kf = k]
  BY <1>1 DEF Used, Sender
<1> HIDE DEF e, k
<1> QED
  BY <1>2, <1>3 DEF Sender

(***************************************************************************)
(* A frame is sealed.                                                      *)
(***************************************************************************)
LEMMA SealKeepsChains ==
    ASSUME Typed, Chains, NEW p \in Peers, NEW frame,
           sealed' = Append(sealed, frame),
           frame.header \in Header, frame.header.src = p, frame.boot = tx[p].boot,
           frame.header.ledger => frame.header.chain = tx[p].chain.ledger,
           tx' \in [Peers -> Sender],
           \A q \in Peers : tx'[q].boot = tx[q].boot /\ (q # p => tx'[q] = tx[q]),
           tx'[p].chain.ledger = IF profile.secure /\ frame.header.ledger THEN Len(sealed) + 1
                                 ELSE tx[p].chain.ledger,
           UNCHANGED <<profile, rx, accepted>>
    PROVE  FramesTyped' /\ Chains' /\ Len(sealed') = Len(sealed) + 1
<1> DEFINE n == Len(sealed)
<1>0. \E S : sealed \in Seq(S)
  BY DEF Typed, FramesTyped
<1>1. /\ n \in Nat /\ Len(sealed') = n + 1
      /\ \A d \in 1 .. n : sealed'[d] = sealed[d]
      /\ sealed'[n + 1] = frame
      /\ \E S : sealed' \in Seq(S)
  <2>1. /\ \E S : Append(sealed, frame) \in Seq(S)
        /\ Len(sealed) \in Nat /\ Len(Append(sealed, frame)) = Len(sealed) + 1
        /\ \A i \in 1 .. Len(sealed) : Append(sealed, frame)[i] = sealed[i]
        /\ Append(sealed, frame)[Len(sealed) + 1] = frame
    BY <1>0, Appended
  <2> QED
    BY <2>1
<1> HIDE DEF n
<1>2. \A q \in Peers : tx[q].boot \in Nat /\ tx[q].chain.ledger \in Nat
  BY DEF Typed, Sender, Chain
<1>3. \A d \in 1 .. n + 1 : d \in 1 .. n \/ d = n + 1
  BY <1>1
<1>4. \A d \in 1 .. n : sealed[d].header \in Header /\ sealed[d].boot \in Nat
  BY DEF Typed, FramesTyped, n
<1>5. FramesTyped'
  BY <1>1, <1>2, <1>3, <1>4 DEF FramesTyped, Header
<1>6. \A d \in 1 .. n, q \in Peers, b \in Nat : LedgerFrame(sealed', d, q, b) <=> LedgerFrame(sealed, d, q, b)
  BY <1>1 DEF LedgerFrame
<1>7. \A q \in Peers, b \in Nat :
          LedgerFrame(sealed', n + 1, q, b) <=> frame.header.ledger /\ q = p /\ b = tx[p].boot
  BY <1>1 DEF LedgerFrame
<1>8. ASSUME NEW c, NEW q \in Peers, NEW b \in Nat, NEW k \in 1 .. n + 1, LastBefore(sealed, c, q, b, k)
      PROVE  LastBefore(sealed', c, q, b, k)
  <2>1. c \in 0 .. k - 1 /\ (c # 0 => c \in 1 .. n)
    BY <1>1, <1>8 DEF LastBefore
  <2>2. \A d \in c + 1 .. k - 1 : d \in 1 .. n
    BY <1>1, <2>1
  <2> QED
    BY <1>6, <1>8, <2>1, <2>2 DEF LastBefore
<1>9. BootsAreOld'
  <2> SUFFICES ASSUME NEW d \in 1 .. n + 1
               PROVE  sealed'[d].boot <= tx'[sealed'[d].header.src].boot
    BY <1>1 DEF BootsAreOld
  <2>1. CASE d = n + 1
    BY <1>1, <1>2, <2>1
  <2>2. CASE d \in 1 .. n
    <3>1. sealed[d].boot <= tx[sealed[d].header.src].boot /\ sealed[d].header.src \in Peers
      BY <1>4, <2>2 DEF Chains, BootsAreOld, n, Header
    <3> QED
      BY <1>1, <2>2, <3>1
  <2> QED
    BY <1>3, <2>1, <2>2
<1>10. SendersChain'
  <2> SUFFICES ASSUME profile.secure, NEW q \in Peers
               PROVE  LastBefore(sealed', tx'[q].chain.ledger, q, tx'[q].boot, n + 2)
    BY <1>1 DEF SendersChain
  <2>1. LastBefore(sealed, tx[q].chain.ledger, q, tx[q].boot, n + 1)
    BY DEF Chains, SendersChain, n
  <2>2. LastBefore(sealed', tx[q].chain.ledger, q, tx[q].boot, n + 1)
    BY <1>1, <1>2, <1>8, <2>1
  <2>3. CASE frame.header.ledger /\ q = p
    <3>1. tx'[q].chain.ledger = n + 1
      BY <2>3 DEF n
    <3>2. LedgerFrame(sealed', n + 1, q, tx'[q].boot)
      BY <1>2, <1>7, <2>3
    <3>3. n + 1 \in 0 .. n + 2 - 1 /\ n + 1 + 1 .. n + 2 - 1 = {}
      BY <1>1
    <3> QED
      BY <1>1, <3>1, <3>2, <3>3 DEF LastBefore
  <2>4. CASE ~ (frame.header.ledger /\ q = p)
    <3>1. tx'[q].chain.ledger = tx[q].chain.ledger /\ tx'[q].boot = tx[q].boot
      BY <2>4
    <3>2. ~ LedgerFrame(sealed', n + 1, q, tx[q].boot)
      BY <1>2, <1>7, <2>4
    <3>3. \A c \in 0 .. n : \A d \in c + 1 .. n + 2 - 1 : d \in c + 1 .. n + 1 - 1 \/ d = n + 1
      BY <1>1
    <3>4. \A c \in 0 .. n + 1 - 1 : c \in 0 .. n + 2 - 1 /\ c \in 0 .. n
      BY <1>1
    <3> QED
      BY <1>1, <2>2, <3>1, <3>2, <3>3, <3>4 DEF LastBefore
  <2> QED
    BY <2>3, <2>4
<1>11. FramesChain'
  <2> SUFFICES ASSUME profile.secure, NEW d \in 1 .. n + 1, sealed'[d].header.ledger
               PROVE  LastBefore(sealed', sealed'[d].header.chain, sealed'[d].header.src,
                                 sealed'[d].boot, d)
    BY <1>1 DEF FramesChain
  <2>1. CASE d = n + 1
    <3>1. LastBefore(sealed, tx[p].chain.ledger, p, tx[p].boot, n + 1)
      BY DEF Chains, SendersChain, n
    <3>2. LastBefore(sealed', tx[p].chain.ledger, p, tx[p].boot, n + 1)
      BY <1>1, <1>2, <1>8, <3>1
    <3> QED
      BY <1>1, <2>1, <3>2 DEF LastBefore, LedgerFrame
  <2>2. CASE d \in 1 .. n
    <3>1. LastBefore(sealed, sealed[d].header.chain, sealed[d].header.src, sealed[d].boot, d)
      BY <1>1, <2>2 DEF Chains, FramesChain, n
    <3>2. sealed[d].header.src \in Peers /\ sealed[d].boot \in Nat
      BY <1>4, <2>2 DEF Header
    <3>3. LastBefore(sealed', sealed[d].header.chain, sealed[d].header.src, sealed[d].boot, d)
      BY <1>8, <3>1, <3>2
    <3> QED
      BY <1>1, <2>2, <3>3 DEF LastBefore, LedgerFrame
  <2> QED
    BY <1>3, <2>1, <2>2
<1>12. \A d \in accepted : d \in 1 .. n
  BY DEF Typed, n
<1>13. LocalsChain'
  BY <1>1, <1>12 DEF Chains, LocalsChain
<1>14. LedgerIsComplete'
  <2> SUFFICES ASSUME NEW late \in accepted, NEW early \in 1 .. n + 1, early < late,
                      sealed'[early].header.src = sealed'[late].header.src,
                      sealed'[early].boot = sealed'[late].boot,
                      sealed'[early].header.ledger, sealed'[late].header.ledger
               PROVE  early \in accepted
    BY <1>1 DEF LedgerIsComplete
  <2>1. late \in 1 .. n /\ early \in 1 .. n
    BY <1>1, <1>12
  <2>2. sealed'[early] = sealed[early] /\ sealed'[late] = sealed[late]
    BY <1>1, <2>1
  <2> QED
    BY <2>1, <2>2 DEF Chains, LedgerIsComplete, n
<1>15. OpensOnlySealed'
  BY DEF Chains, OpensOnlySealed
<1> QED
  BY <1>1, <1>5, <1>9, <1>10, <1>11, <1>13, <1>14, <1>15 DEF Chains, n

(* What goes to the radio is the frame just sealed, or nothing.            *)
LEMMA AirKept ==
    ASSUME Typed, Len(sealed') = Len(sealed) + 1, Len(sealed) \in Nat,
           air' = air \/ air' = Append(air, Len(sealed) + 1)
    PROVE  air' \in Seq(Nat) /\ \A i \in 1 .. Len(air') : air'[i] \in 1 .. Len(sealed')
<1>1. air \in Seq(Nat) /\ \A i \in 1 .. Len(air) : air[i] \in 1 .. Len(sealed)
  BY DEF Typed
<1>2. \A i \in 1 .. Len(air) : air[i] \in 1 .. Len(sealed')
  BY <1>1
<1>3. CASE air' = air
  BY <1>1, <1>2, <1>3
<1>4. CASE air' = Append(air, Len(sealed) + 1)
  <2>1. /\ Append(air, Len(sealed) + 1) \in Seq(Nat)
        /\ Len(Append(air, Len(sealed) + 1)) = Len(air) + 1
        /\ \A i \in 1 .. Len(air) : Append(air, Len(sealed) + 1)[i] = air[i]
        /\ Append(air, Len(sealed) + 1)[Len(air) + 1] = Len(sealed) + 1
    BY <1>1, AppendProperties
  <2>2. Len(air) \in Nat
    BY <1>1, LenProperties
  <2>3. \A i \in 1 .. Len(air) + 1 : i \in 1 .. Len(air) \/ i = Len(air) + 1
    BY <2>2
  <2> QED
    BY <1>2, <1>4, <2>1, <2>3
<1> QED
  BY <1>3, <1>4

LEMMA SealedLen == ASSUME Typed PROVE Len(sealed) \in Nat
<1>1. PICK S : sealed \in Seq(S)
  BY DEF Typed, FramesTyped
<1> QED
  BY <1>1, LenProperties

(* A frame's parts.                                                        *)
LEMMA FrameParts ==
    ASSUME NEW p, NEW header, NEW msg
    PROVE  /\ Frame(p, header, msg).header = header
           /\ Frame(p, header, msg).boot = tx[p].boot
  BY DEF Frame

LEMMA BroadcastKeeps ==
    ASSUME IInv, NEW p \in Peers, NEW msg \in profile.messages, Broadcast(p, msg)
    PROVE  IInv'
<1> DEFINE n == Len(sealed)
           header == build_header(tx[p].chain, p, tx[p].seq + 1, msg.type, profile.key[p])
           state == AfterSending(tx[p], msg, header, n + 1)
<1>1. /\ sealed' = Append(sealed, Frame(p, header, msg))
      /\ tx' = [tx EXCEPT ![p] = state]
      /\ air' = air \/ air' = Append(air, n + 1)
      /\ UNCHANGED <<profile, thread, electing, rx, accepted>>
      /\ ~ profile.racing
  <2>1. \E h \in {header} : \E frame \in {Frame(p, h, msg)} :
           /\ sealed' = Append(sealed, frame)
           /\ tx' = [tx EXCEPT ![p] = AfterSending(@, msg, h, n + 1)]
           /\ \E sent \in {Datagram(msg, frame.body)}
                          \union (IF profile.faithful THEN {} ELSE {FALSE}) :
                 air' = IF sent THEN Append(air, n + 1) ELSE air
    BY DEF Broadcast
  <2>2. /\ sealed' = Append(sealed, Frame(p, header, msg))
        /\ tx' = [tx EXCEPT ![p] = state]
        /\ \E sent : air' = IF sent THEN Append(air, n + 1) ELSE air
    BY <2>1
  <2> HIDE DEF n, header, state
  <2>3. UNCHANGED <<profile, thread, electing, rx, accepted>> /\ ~ profile.racing
    BY DEF Broadcast
  <2> QED
    BY <2>2, <2>3
<1>2. tx[p] \in Sender /\ tx[p].chain \in Chain /\ tx[p].seq + 1 \in Nat
      /\ n \in Nat /\ n + 1 \in Nat
  BY SealedLen DEF IInv, Typed, Sender
<1>0. header = build_header(tx[p].chain, p, tx[p].seq + 1, msg.type, profile.key[p])
  OBVIOUS
<1> HIDE DEF header
<1>3. /\ header \in Header /\ header.src = p
      /\ header.ledger => header.chain = tx[p].chain.ledger
  <2>1. PICK seq \in Nat :
            header = build_header(tx[p].chain, p, seq, msg.type, profile.key[p])
    BY <1>0, <1>2
  <2> HIDE DEF state
  <2>2. tx[p].chain \in Chain
    BY <1>2
  <2>3. header.src = p
    BY <2>1, <2>2, HeaderType
  <2>4. header \in Header
    BY <2>1, <2>2, HeaderType
  <2>5. header.ledger => header.chain = tx[p].chain.ledger
    BY <2>1, <2>2, HeaderType
  <2> QED
    BY <2>3, <2>4, <2>5
<1>4. /\ Chained(tx[p].chain, header, n + 1) \in Chain
      /\ Chained(tx[p].chain, header, n + 1).ledger =
            IF profile.secure /\ header.ledger THEN n + 1 ELSE tx[p].chain.ledger
  BY <1>2, <1>3, ChainedType
<1>5. /\ state \in Sender /\ state.boot = tx[p].boot
      /\ state.chain = Chained(tx[p].chain, header, n + 1)
  BY <1>2, <1>4, UsedType DEF AfterSending, Sender
<1> HIDE DEF state
<1>6. tx' \in [Peers -> Sender] /\ tx'[p] = state /\ \A q \in Peers : q # p => tx'[q] = tx[q]
  BY <1>1, <1>5 DEF IInv, Typed
<1>7. \A q \in Peers : tx'[q].boot = tx[q].boot
  BY <1>5, <1>6
<1>8. tx'[p].chain.ledger = IF profile.secure /\ header.ledger THEN n + 1
                            ELSE tx[p].chain.ledger
  BY <1>4, <1>5, <1>6
<1>9. FramesTyped' /\ Chains' /\ Len(sealed') = n + 1
  BY <1>1, <1>3, <1>6, <1>7, <1>8, FrameParts, SealKeepsChains DEF IInv
<1>10. Typed'
  <2>1. air' \in Seq(Nat) /\ \A i \in 1 .. Len(air') : air'[i] \in 1 .. Len(sealed')
    BY <1>1, <1>2, <1>9, AirKept DEF IInv
  <2>2. accepted' \subseteq 1 .. Len(sealed')
    BY <1>1, <1>2, <1>9 DEF IInv, Typed
  <2>3. thread' \in [Peers -> [Threads -> Op]]'
    BY <1>1 DEF IInv, Typed, Op, Loaded, Reading, Header
  <2> QED
    BY <1>1, <1>6, <1>9, <2>1, <2>2, <2>3 DEF IInv, Typed
<1>11. \A q \in Peers, t \in Threads : thread[q][t] = Idle
  BY <1>1 DEF IInv, ThreadsExclude
<1>12. Idle \notin Reading'
  BY DEF Idle, Reading
<1>13. ThreadsExclude' /\ ReadingsHold'
  BY <1>1, <1>11, <1>12 DEF IInv, ThreadsExclude, ReadingsHold, Elects
<1> QED
  BY <1>9, <1>10, <1>13 DEF IInv

(***************************************************************************)
(* The other steps of a peer.                                              *)
(***************************************************************************)

(* The chains hold as long as the frames and what the ends keep of their   *)
(* ledger chains are left alone.                                           *)
LEMMA ChainsKept ==
    ASSUME Typed, Chains, UNCHANGED <<profile, sealed, rx, accepted>>,
           \A q \in Peers : tx'[q].chain.ledger = tx[q].chain.ledger /\ tx'[q].boot = tx[q].boot
    PROVE  Chains'
<1>1. \A d \in 1 .. Len(sealed) : sealed[d].header.src \in Peers
  BY DEF Typed, FramesTyped, Header
<1>2. BootsAreOld'
  BY <1>1 DEF Chains, BootsAreOld
<1>3. SendersChain'
  BY DEF Chains, SendersChain
<1>4. FramesChain' /\ LocalsChain' /\ OpensOnlySealed' /\ LedgerIsComplete'
  BY DEF Chains, FramesChain, LocalsChain, OpensOnlySealed, LedgerIsComplete
<1> QED
  BY <1>2, <1>3, <1>4 DEF Chains

(* A type that does not mention what changed.                              *)
LEMMA SameTypes ==
    ASSUME UNCHANGED profile
    PROVE  Op' = Op /\ Header' = Header /\ Loaded' = Loaded /\ Reading' = Reading
  BY DEF Op, Header, Loaded, Reading

LEMMA SkipKeeps ==
    ASSUME IInv, NEW p \in Peers, NEW msg \in profile.messages, SkipUnsigned(p, msg)
    PROVE  IInv'
<1> DEFINE state == Used(tx[p], msg)
<1>1. /\ tx' = [tx EXCEPT ![p] = state]
      /\ UNCHANGED <<profile, thread, electing, sealed, air, rx, accepted>>
  BY DEF SkipUnsigned
<1>2. state \in Sender /\ state.chain = tx[p].chain /\ state.boot = tx[p].boot
  BY UsedType DEF IInv, Typed
<1> HIDE DEF state
<1>3. tx' \in [Peers -> Sender]
  BY <1>1, <1>2 DEF IInv, Typed
<1>4. \A q \in Peers : tx'[q].chain.ledger = tx[q].chain.ledger /\ tx'[q].boot = tx[q].boot
  BY <1>1, <1>2 DEF IInv, Typed
<1>5. Chains'
  BY <1>1, <1>4, ChainsKept DEF IInv
<1>6. Typed'
  BY <1>1, <1>3, SameTypes DEF IInv, Typed, FramesTyped
<1>7. ThreadsExclude' /\ ReadingsHold'
  BY <1>1, <1>4, SameTypes DEF IInv, ThreadsExclude, ReadingsHold, Elects
<1> QED
  BY <1>5, <1>6, <1>7 DEF IInv

(* One thread of one peer takes a step.                                    *)
LEMMA ThreadMoves ==
    ASSUME thread \in [Peers -> [Threads -> Op]], NEW p \in Peers, NEW t \in Threads,
           NEW op \in Op, thread' = [thread EXCEPT ![p][t] = op]
    PROVE  /\ thread' \in [Peers -> [Threads -> Op]]
           /\ thread'[p][t] = op
           /\ \A q \in Peers, u \in Threads :
                  q # p \/ u # t => thread'[q][u] = thread[q][u]
  OBVIOUS

LEMMA OpParts ==
    /\ Idle \in Op /\ Idle \notin Loaded /\ Idle \notin Reading
    /\ \A op \in Loaded : /\ op \in Op /\ op # Idle /\ op \notin Reading
                          /\ op.msg \in profile.messages /\ op.seq \in Nat
    /\ \A op \in Reading : /\ op \in Op /\ op # Idle /\ op.msg \in profile.messages
                           /\ op.header \in Header
    /\ \A op \in Op : op.at \in {"loaded", "numbered"} => op \in Loaded
    /\ \A op \in Op : op.at = "reading" => op \in Reading
  BY DEF Op, Idle, Loaded, Reading

LEMMA LoadKeeps ==
    ASSUME IInv, NEW p \in Peers, NEW t \in Threads, NEW msg \in profile.messages,
           LoadSeq(p, t, msg)
    PROVE  IInv'
<1> DEFINE op == [at |-> "loaded", msg |-> msg, seq |-> tx[p].seq + 1]
<1>1. /\ thread' = [thread EXCEPT ![p][t] = op]
      /\ thread[p][t] = Idle
      /\ profile.racing
      /\ msg.type = "election" => ~ electing[p]
      /\ electing' = [electing EXCEPT ![p] = @ \/ msg.type = "election"]
      /\ UNCHANGED <<profile, tx, sealed, air, rx, accepted>>
  BY DEF LoadSeq
<1>2. op \in Loaded /\ op.msg = msg
  BY DEF Loaded, IInv, Typed, Sender
<1> HIDE DEF op
<1>3. /\ thread' \in [Peers -> [Threads -> Op]]
      /\ thread'[p][t] = op
      /\ \A q \in Peers, u \in Threads : q # p \/ u # t => thread'[q][u] = thread[q][u]
  BY <1>1, <1>2, OpParts, ThreadMoves DEF IInv, Typed
<1>4. /\ electing' \in [Peers -> BOOLEAN]
      /\ \A q \in Peers : electing[q] => electing'[q]
      /\ msg.type = "election" => electing'[p]
  BY <1>1 DEF IInv, Typed
<1>5. Typed'
  BY <1>1, <1>3, <1>4, SameTypes DEF IInv, Typed, FramesTyped
<1>6. Chains'
  BY <1>1, ChainsKept DEF IInv
<1>7. ThreadsExclude'
  <2> SUFFICES ASSUME NEW q \in Peers, NEW u \in Threads
               PROVE  /\ thread'[q][u] # Idle => profile.racing
                      /\ Elects(q, u)' => electing'[q]
                      /\ \A v \in Threads : Elects(q, u)' /\ Elects(q, v)' => u = v
    BY <1>1 DEF ThreadsExclude
  <2>1. \A v \in Threads : Elects(q, v)' => \/ Elects(q, v) /\ (q # p \/ v # t)
                                            \/ q = p /\ v = t /\ msg.type = "election"
    BY <1>1, <1>2, <1>3 DEF Elects
  <2> QED
    BY <1>1, <1>4, <2>1 DEF IInv, ThreadsExclude
<1>8. ReadingsHold'
  <2>1. \A q \in Peers, u \in Threads :
            thread'[q][u] \in Reading' => thread'[q][u] = thread[q][u] /\ thread[q][u] \in Reading
    BY <1>1, <1>2, <1>3, OpParts, SameTypes
  <2> QED
    BY <1>1, <2>1 DEF IInv, ReadingsHold
<1> QED
  BY <1>5, <1>6, <1>7, <1>8 DEF IInv

(* A thread that goes on with what it sends, short of sealing it.          *)
LEMMA AdvanceKeepsThreads ==
    ASSUME IInv, NEW p \in Peers, NEW t \in Threads, NEW op,
           thread[p][t] \in Loaded, op \in Op \ {Idle}, op.msg = thread[p][t].msg,
           thread' = [thread EXCEPT ![p][t] = op],
           UNCHANGED <<profile, electing>>
    PROVE  /\ thread' \in [Peers -> [Threads -> Op]]
           /\ thread'[p][t] = op
           /\ \A q \in Peers, u \in Threads : q # p \/ u # t => thread'[q][u] = thread[q][u]
           /\ ThreadsExclude'
<1>1. /\ thread' \in [Peers -> [Threads -> Op]]
      /\ thread'[p][t] = op
      /\ \A q \in Peers, u \in Threads : q # p \/ u # t => thread'[q][u] = thread[q][u]
  BY ThreadMoves DEF IInv, Typed
<1>2. thread[p][t] # Idle
  BY OpParts
<1>3. \A q \in Peers, u \in Threads : Elects(q, u)' => Elects(q, u)
  BY <1>1, <1>2 DEF Elects
<1> QED
  BY <1>1, <1>2, <1>3 DEF IInv, ThreadsExclude

LEMMA StoreKeeps ==
    ASSUME IInv, NEW p \in Peers, NEW t \in Threads, StoreSeq(p, t)
    PROVE  IInv'
<1> DEFINE op == [thread[p][t] EXCEPT !.at = "numbered"]
<1>1. /\ thread[p][t].at = "loaded"
      /\ tx' = [tx EXCEPT ![p].seq = thread[p][t].seq]
      /\ UNCHANGED <<profile, electing, sealed, air, rx, accepted>>
  BY DEF StoreSeq
<1>2. thread[p][t] \in Loaded
  BY <1>1, OpParts DEF IInv, Typed
<1>3. op \in Loaded /\ op.msg = thread[p][t].msg
  BY <1>2 DEF Loaded
<1>4. thread' = [thread EXCEPT ![p][t] = op]
  BY DEF StoreSeq, IInv, Typed
<1> HIDE DEF op
<1>5. op \in Op \ {Idle} /\ op \notin Reading
  BY <1>3, OpParts
<1>6. /\ thread' \in [Peers -> [Threads -> Op]]
      /\ thread'[p][t] = op
      /\ \A q \in Peers, u \in Threads : q # p \/ u # t => thread'[q][u] = thread[q][u]
      /\ ThreadsExclude'
  BY <1>1, <1>2, <1>3, <1>4, <1>5, AdvanceKeepsThreads
<1>7. tx' \in [Peers -> Sender]
      /\ \A q \in Peers : tx'[q].chain.ledger = tx[q].chain.ledger /\ tx'[q].boot = tx[q].boot
  <2>1. thread[p][t].seq \in Nat
    BY <1>2, OpParts
  <2>2. [tx[p] EXCEPT !.seq = thread[p][t].seq] \in Sender
        /\ [tx[p] EXCEPT !.seq = thread[p][t].seq].chain = tx[p].chain
        /\ [tx[p] EXCEPT !.seq = thread[p][t].seq].boot = tx[p].boot
    BY <2>1 DEF IInv, Typed, Sender
  <2>3. tx' = [tx EXCEPT ![p] = [tx[p] EXCEPT !.seq = thread[p][t].seq]]
    BY <1>1 DEF IInv, Typed
  <2> QED
    BY <2>2, <2>3 DEF IInv, Typed
<1>8. Typed'
  BY <1>1, <1>6, <1>7, SameTypes DEF IInv, Typed, FramesTyped
<1>9. Chains'
  BY <1>1, <1>7, ChainsKept DEF IInv
<1>10. ReadingsHold'
  <2>1. \A q \in Peers, u \in Threads :
            thread'[q][u] \in Reading' => thread'[q][u] = thread[q][u] /\ thread[q][u] \in Reading
    BY <1>1, <1>5, <1>6, SameTypes
  <2> QED
    BY <1>7, <2>1 DEF IInv, ReadingsHold
<1> QED
  BY <1>6, <1>8, <1>9, <1>10 DEF IInv

LEMMA ReadKeeps ==
    ASSUME IInv, NEW p \in Peers, NEW t \in Threads, ReadChain(p, t)
    PROVE  IInv'
<1> DEFINE h == build_header(tx[p].chain, p, thread[p][t].seq, thread[p][t].msg.type,
                             profile.key[p])
           op == [at |-> "reading", msg |-> thread[p][t].msg, header |-> h]
<1>1. /\ thread[p][t].at = "numbered"
      /\ thread' = [thread EXCEPT ![p][t] = op]
      /\ UNCHANGED <<profile, tx, electing, sealed, air, rx, accepted>>
  BY DEF ReadChain
<1>2. thread[p][t] \in Loaded
  BY <1>1, OpParts DEF IInv, Typed
<1>3. tx[p].chain \in Chain /\ thread[p][t].seq \in Nat
  BY <1>2, OpParts DEF IInv, Typed, Sender
<1>4. /\ h \in Header /\ h.src = p
      /\ h.ledger <=> is_ledger_message(thread[p][t].msg.type)
      /\ h.ledger => h.chain = tx[p].chain.ledger
  <2>1. PICK g : g = h
    OBVIOUS
  <2>2. g = build_header(tx[p].chain, p, thread[p][t].seq, thread[p][t].msg.type, profile.key[p])
    BY <2>1
  <2> HIDE DEF h
  <2>3. g \in Header
    BY <1>3, <2>2, HeaderType
  <2>4. g.src = p
    BY <1>3, <2>2, HeaderType
  <2>5. g.ledger <=> is_ledger_message(thread[p][t].msg.type)
    BY <1>3, <2>2, HeaderType
  <2>6. g.ledger => g.chain = tx[p].chain.ledger
    BY <1>3, <2>2, HeaderType
  <2> QED
    BY <2>1, <2>3, <2>4, <2>5, <2>6
<1> HIDE DEF h
<1>5. op \in Reading /\ op.msg = thread[p][t].msg /\ op.header = h
  BY <1>2, <1>4, OpParts DEF Reading
<1> HIDE DEF op
<1>6. op \in Op \ {Idle}
  BY <1>5, OpParts
<1>7. /\ thread' \in [Peers -> [Threads -> Op]]
      /\ thread'[p][t] = op
      /\ \A q \in Peers, u \in Threads : q # p \/ u # t => thread'[q][u] = thread[q][u]
      /\ ThreadsExclude'
  BY <1>1, <1>2, <1>5, <1>6, AdvanceKeepsThreads
<1>8. Typed'
  BY <1>1, <1>7, SameTypes DEF IInv, Typed, FramesTyped
<1>9. Chains'
  BY <1>1, ChainsKept DEF IInv
<1>10. ReadingsHold'
  <2> SUFFICES ASSUME NEW q \in Peers, NEW u \in Threads, thread'[q][u] \in Reading
               PROVE  /\ thread'[q][u].header.src = q
                      /\ thread'[q][u].header.ledger
                             <=> is_ledger_message(thread'[q][u].msg.type)
                      /\ thread'[q][u].header.ledger =>
                             thread'[q][u].header.chain = tx[q].chain.ledger
    BY <1>1, SameTypes DEF ReadingsHold
  <2>1. CASE q = p /\ u = t
    BY <1>4, <1>5, <1>7, <2>1
  <2>2. CASE ~ (q = p /\ u = t)
    BY <1>7, <2>2 DEF IInv, ReadingsHold
  <2> QED
    BY <2>1, <2>2
<1> QED
  BY <1>7, <1>8, <1>9, <1>10 DEF IInv

(* Where threads race, whoever seals a ledger frame elects.                *)
LEMMA RacersElect ==
    ASSUME IInv, NEW p \in Peers, NEW t \in Threads, thread[p][t] \in Reading,
           thread[p][t].header.ledger
    PROVE  Elects(p, t)
<1>1. thread[p][t] # Idle /\ thread[p][t].msg \in profile.messages
  BY OpParts
<1>2. profile.racing /\ profile \in Profiles
  BY <1>1 DEF IInv, ThreadsExclude, Typed
<1>3. OnlyElectionsRace(profile.messages)
  BY <1>2, MeshAssumption
<1>4. is_ledger_message(thread[p][t].msg.type)
  BY DEF IInv, ReadingsHold
<1> QED
  BY <1>1, <1>3, <1>4 DEF OnlyElectionsRace, Elects

LEMMA SealKeeps ==
    ASSUME IInv, NEW p \in Peers, NEW t \in Threads, FinishSeal(p, t)
    PROVE  IInv'
<1> DEFINE op == thread[p][t]
           n == Len(sealed)
           chain == Chained(tx[p].chain, op.header, n + 1)
<1>1. /\ op.at = "reading"
      /\ sealed' = Append(sealed, Frame(p, op.header, op.msg))
      /\ tx' = [tx EXCEPT ![p] = [Used(@, op.msg) EXCEPT !.chain = chain]]
      /\ air' = air \/ air' = Append(air, n + 1)
      /\ electing' = [electing EXCEPT ![p] = @ /\ op.msg.type # "election"]
      /\ thread' = [thread EXCEPT ![p][t] = Idle]
      /\ UNCHANGED <<profile, rx, accepted>>
  <2>1. \E sent \in {Datagram(op.msg, Frame(p, op.header, op.msg).body), FALSE} :
           air' = IF sent THEN Append(air, n + 1) ELSE air
    BY DEF FinishSeal
  <2>2. air' = air \/ air' = Append(air, n + 1)
    BY <2>1
  <2>3. op.at = "reading" /\ sealed' = Append(sealed, Frame(p, op.header, op.msg))
    BY DEF FinishSeal
  <2> QED
    BY <2>2, <2>3 DEF FinishSeal
<1>2. op \in Reading /\ op # Idle /\ op.msg \in profile.messages /\ op.header \in Header
  BY <1>1, OpParts DEF IInv, Typed
<1>3. /\ op.header.src = p
      /\ op.header.ledger => op.header.chain = tx[p].chain.ledger
  BY <1>2 DEF IInv, ReadingsHold
<1>4. n \in Nat
  BY SealedLen DEF IInv
<1>5. tx[p] \in Sender /\ tx[p].chain \in Chain
  BY DEF IInv, Typed, Sender
<1>6. /\ chain \in Chain
      /\ chain.ledger = IF profile.secure /\ op.header.ledger THEN n + 1 ELSE tx[p].chain.ledger
  <2>1. PICK header, digest : header = op.header /\ digest = n + 1
    OBVIOUS
  <2>2. header \in Header /\ digest \in Nat
    BY <1>2, <1>4, <2>1
  <2>3. chain = Chained(tx[p].chain, header, digest)
    BY <2>1
  <2> HIDE DEF chain
  <2>4. chain \in Chain
    BY <1>5, <2>2, <2>3, ChainedType
  <2>5. chain.ledger = IF profile.secure /\ header.ledger THEN digest ELSE tx[p].chain.ledger
    BY <1>5, <2>2, <2>3, ChainedType
  <2> QED
    BY <2>1, <2>4, <2>5
<1> DEFINE used == Used(tx[p], op.msg)
           state == [used EXCEPT !.chain = chain]
<1>7. tx' = [tx EXCEPT ![p] = state]
  BY <1>1 DEF IInv, Typed
<1> HIDE DEF chain
<1>8. state \in Sender /\ state.chain = chain /\ state.boot = tx[p].boot
  <2>1. used \in Sender /\ used.boot = tx[p].boot
    BY <1>5, UsedType
  <2> HIDE DEF used
  <2> QED
    BY <1>6, <2>1 DEF Sender
<1>9. tx' = [tx EXCEPT ![p] = state]
  BY <1>7
<1> HIDE DEF state
<1>10. /\ tx' \in [Peers -> Sender]
       /\ tx'[p] = state
       /\ \A q \in Peers : tx'[q].boot = tx[q].boot /\ (q # p => tx'[q] = tx[q])
  BY <1>8, <1>9 DEF IInv, Typed
<1>11. FramesTyped' /\ Chains' /\ Len(sealed') = n + 1
  <2>1. PICK frame : frame = Frame(p, op.header, op.msg)
    OBVIOUS
  <2>2. frame.header = op.header /\ frame.boot = tx[p].boot
    BY <2>1, FrameParts
  <2>3. sealed' = Append(sealed, frame)
    BY <1>1, <2>1
  <2>4. tx'[p].chain.ledger = IF profile.secure /\ frame.header.ledger THEN Len(sealed) + 1
                              ELSE tx[p].chain.ledger
    BY <1>6, <1>8, <1>10, <2>2
  <2>5. /\ frame.header \in Header /\ frame.header.src = p
        /\ frame.header.ledger => frame.header.chain = tx[p].chain.ledger
    BY <1>2, <1>3, <2>2
  <2>6. Typed /\ Chains
    BY DEF IInv
  <2>7. UNCHANGED <<profile, rx, accepted>>
    BY <1>1
  <2> QED
    BY <1>10, <2>2, <2>3, <2>4, <2>5, <2>6, <2>7, SealKeepsChains
<1>12. /\ thread' \in [Peers -> [Threads -> Op]]
       /\ thread'[p][t] = Idle
       /\ \A q \in Peers, u \in Threads : q # p \/ u # t => thread'[q][u] = thread[q][u]
  BY <1>1, OpParts, ThreadMoves DEF IInv, Typed
<1>13. /\ electing' \in [Peers -> BOOLEAN]
       /\ \A q \in Peers : electing[q] => electing'[q] \/ (q = p /\ op.msg.type = "election")
  <2>1. PICK on : on = (electing[p] /\ op.msg.type # "election")
    OBVIOUS
  <2>2. on \in BOOLEAN /\ (electing[p] => on \/ op.msg.type = "election")
    BY <2>1
  <2>3. electing' = [electing EXCEPT ![p] = on]
    BY <1>1, <2>1
  <2>4. electing \in [Peers -> BOOLEAN]
    BY DEF IInv, Typed
  <2>5. electing' \in [Peers -> BOOLEAN]
    BY <2>2, <2>3, <2>4
  <2>6. (electing'[p] <=> on) /\ \A q \in Peers : q # p => (electing'[q] <=> electing[q])
    BY <2>2, <2>3, <2>4
  <2>7. ASSUME NEW q \in Peers, electing[q] PROVE electing'[q] \/ (q = p /\ op.msg.type = "election")
    <3>1. CASE q = p
      BY <2>2, <2>6, <2>7, <3>1
    <3>2. CASE q # p
      BY <2>6, <2>7, <3>2
    <3> QED
      BY <3>1, <3>2
  <2> QED
    BY <2>5, <2>7
<1>14. air' \in Seq(Nat) /\ \A i \in 1 .. Len(air') : air'[i] \in 1 .. Len(sealed')
  BY <1>1, <1>4, <1>11, AirKept DEF IInv
<1>15. accepted' \subseteq 1 .. Len(sealed')
  BY <1>1, <1>4, <1>11 DEF IInv, Typed
<1>16. Typed'
  BY <1>1, <1>10, <1>11, <1>12, <1>13, <1>14, <1>15, SameTypes DEF IInv, Typed, Chain
<1>17. ThreadsExclude'
  <2>1. \A q \in Peers, u \in Threads : Elects(q, u)' => Elects(q, u) /\ (q # p \/ u # t)
    BY <1>12 DEF Elects
  <2>2. op.msg.type = "election" => Elects(p, t)
    BY <1>2 DEF Elects
  <2>3. \A q \in Peers, u \in Threads : Elects(q, u)' => electing'[q]
    BY <1>13, <2>1, <2>2 DEF IInv, ThreadsExclude
  <2>4. \A q \in Peers, u \in Threads : thread'[q][u] # Idle => thread[q][u] # Idle
    BY <1>12
  <2> QED
    BY <1>1, <2>1, <2>3, <2>4 DEF IInv, ThreadsExclude
<1>18. ReadingsHold'
  <2> SUFFICES ASSUME NEW q \in Peers, NEW u \in Threads, thread'[q][u] \in Reading
               PROVE  /\ thread'[q][u].header.src = q
                      /\ thread'[q][u].header.ledger
                             <=> is_ledger_message(thread'[q][u].msg.type)
                      /\ thread'[q][u].header.ledger =>
                             thread'[q][u].header.chain = tx'[q].chain.ledger
    BY <1>1, SameTypes DEF ReadingsHold
  <2>1. thread'[q][u] = thread[q][u] /\ (q # p \/ u # t)
    BY <1>12, OpParts
  <2>2. thread[q][u].header.ledger => tx'[q].chain.ledger = tx[q].chain.ledger
    <3>1. CASE q # p
      BY <1>10, <3>1
    <3>2. CASE q = p
      <4>1. ~ (thread[q][u].header.ledger /\ op.header.ledger)
        <5>1. thread[q][u].header.ledger => Elects(p, u)
          BY <2>1, <3>2, RacersElect
        <5>2. op.header.ledger => Elects(p, t)
          BY <1>2, RacersElect
        <5> QED
          BY <2>1, <3>2, <5>1, <5>2 DEF IInv, ThreadsExclude
      <4> QED
        BY <1>6, <1>8, <1>10, <3>2, <4>1
    <3> QED
      BY <3>1, <3>2
  <2>3. /\ thread[q][u].header.src = q
        /\ thread[q][u].header.ledger <=> is_ledger_message(thread[q][u].msg.type)
        /\ thread[q][u].header.ledger => thread[q][u].header.chain = tx[q].chain.ledger
    BY <2>1 DEF IInv, ReadingsHold
  <2> QED
    BY <2>1, <2>2, <2>3
<1> QED
  BY <1>11, <1>16, <1>17, <1>18 DEF IInv

LEMMA RestartKeeps ==
    ASSUME IInv, NEW p \in Peers, RestartPeer(p)
    PROVE  IInv'
<1> DEFINE state == FreshSender(tx[p].boot + 1)
<1>1. /\ tx' = [tx EXCEPT ![p] = state]
      /\ thread' = [thread EXCEPT ![p] = [t \in Threads |-> Idle]]
      /\ electing' = [electing EXCEPT ![p] = FALSE]
      /\ UNCHANGED <<profile, sealed, air, rx, accepted>>
  BY DEF RestartPeer
<1>2. tx[p].boot \in Nat
  BY DEF IInv, Typed, Sender
<1>3. state \in Sender /\ state.chain.ledger = 0 /\ state.boot = tx[p].boot + 1
  BY <1>2 DEF FreshSender, NoPeerState, Sender, Chain
<1> HIDE DEF state
<1>4. /\ tx' \in [Peers -> Sender]
      /\ tx'[p] = state
      /\ \A q \in Peers : q # p => tx'[q] = tx[q]
  BY <1>1, <1>3 DEF IInv, Typed
<1>5. /\ thread' \in [Peers -> [Threads -> Op]]
      /\ \A t \in Threads : thread'[p][t] = Idle
      /\ \A q \in Peers : q # p => thread'[q] = thread[q]
  BY <1>1, OpParts DEF IInv, Typed
<1>6. electing' \in [Peers -> BOOLEAN] /\ \A q \in Peers : q # p => electing'[q] = electing[q]
  BY <1>1 DEF IInv, Typed
<1>7. Typed'
  BY <1>1, <1>4, <1>5, <1>6, SameTypes DEF IInv, Typed, FramesTyped
<1>8. \A d \in 1 .. Len(sealed) : sealed[d].header.src \in Peers /\ sealed[d].boot \in Nat
  BY DEF IInv, Typed, FramesTyped, Header
<1>9. \A q \in Peers : tx[q].boot \in Nat
  BY DEF IInv, Typed, Sender
<1>10. \A d \in 1 .. Len(sealed) : sealed[d].boot <= tx[sealed[d].header.src].boot
  BY DEF IInv, Chains, BootsAreOld
<1>11. BootsAreOld'
  <2> SUFFICES ASSUME NEW d \in 1 .. Len(sealed)
               PROVE  sealed[d].boot <= tx'[sealed[d].header.src].boot
    BY <1>1 DEF BootsAreOld
  <2>1. CASE sealed[d].header.src = p
    BY <1>2, <1>3, <1>4, <1>8, <1>10, <2>1
  <2>2. CASE sealed[d].header.src # p
    BY <1>4, <1>8, <1>10, <2>2
  <2> QED
    BY <2>1, <2>2
<1>12. SendersChain'
  <2> SUFFICES ASSUME profile.secure, NEW q \in Peers
               PROVE  LastBefore(sealed, tx'[q].chain.ledger, q, tx'[q].boot, Len(sealed) + 1)
    BY <1>1 DEF SendersChain
  <2>1. CASE q # p
    BY <1>4, <2>1 DEF IInv, Chains, SendersChain
  <2>2. CASE q = p
    <3>1. \A d \in 1 .. Len(sealed) : ~ LedgerFrame(sealed, d, p, tx[p].boot + 1)
      <4> SUFFICES ASSUME NEW d \in 1 .. Len(sealed), sealed[d].header.src = p
                   PROVE  sealed[d].boot # tx[p].boot + 1
        BY DEF LedgerFrame
      <4> QED
        BY <1>2, <1>8, <1>10
    <3>2. Len(sealed) \in Nat
      BY SealedLen DEF IInv
    <3>3. 0 \in 0 .. Len(sealed) + 1 - 1 /\ 0 + 1 .. Len(sealed) + 1 - 1 = 1 .. Len(sealed)
      BY <3>2
    <3> QED
      BY <1>3, <1>4, <2>2, <3>1, <3>3 DEF LastBefore
  <2> QED
    BY <2>1, <2>2
<1>13. Chains'
  BY <1>1, <1>11, <1>12 DEF IInv, Chains, FramesChain, LocalsChain, OpensOnlySealed,
                            LedgerIsComplete
<1>14. ThreadsExclude'
  <2>1. \A q \in Peers, u \in Threads :
            thread'[q][u] # Idle => q # p /\ thread'[q][u] = thread[q][u]
    BY <1>5
  <2>2. \A q \in Peers, u \in Threads : Elects(q, u)' => q # p /\ Elects(q, u)
    BY <2>1 DEF Elects
  <2> QED
    BY <1>1, <1>6, <2>1, <2>2 DEF IInv, ThreadsExclude
<1>15. ReadingsHold'
  <2>1. \A q \in Peers, u \in Threads :
            thread'[q][u] \in Reading => q # p /\ thread'[q][u] = thread[q][u]
    BY <1>5, OpParts
  <2> QED
    BY <1>1, <1>4, <2>1, SameTypes DEF IInv, ReadingsHold
<1> QED
  BY <1>7, <1>13, <1>14, <1>15 DEF IInv

(***************************************************************************)
(* A frame is opened.                                                      *)
(***************************************************************************)
LEMMA OpenKeepsLedger ==
    ASSUME IInv, profile.secure, NEW late \in 1 .. Len(sealed),
           FollowsLedger(rx[sealed[late].header.src], sealed[late].header),
           accepted' = accepted \union {late}, UNCHANGED sealed
    PROVE  LedgerIsComplete'
<1> DEFINE src == sealed[late].header.src
<1>1. src \in Peers /\ sealed[late].boot \in Nat /\ Len(sealed) \in Nat
  BY SealedLen DEF IInv, Typed, FramesTyped, Header
<1> SUFFICES ASSUME NEW new \in accepted', NEW early \in 1 .. Len(sealed), early < new,
                    sealed[early].header.src = sealed[new].header.src,
                    sealed[early].boot = sealed[new].boot,
                    sealed[early].header.ledger, sealed[new].header.ledger
             PROVE  early \in accepted \union {late}
  BY DEF LedgerIsComplete
<1>2. CASE new \in accepted
  BY <1>2 DEF IInv, Chains, LedgerIsComplete
<1>3. CASE new = late
  <2> DEFINE c == sealed[late].header.chain
  <2>1. LastBefore(sealed, c, src, sealed[late].boot, late)
    BY <1>3 DEF IInv, Chains, FramesChain
  <2>2. c = rx[src].ledger
    BY <1>3 DEF FollowsLedger
  <2>3. LedgerFrame(sealed, early, src, sealed[late].boot)
    BY <1>3 DEF LedgerFrame
  <2>4. c \in 0 .. late - 1 /\ early \in 1 .. late - 1
    BY <1>1, <1>3, <2>1 DEF LastBefore
  <2>5. ~ early \in c + 1 .. late - 1
    BY <2>1, <2>3 DEF LastBefore
  <2>6. c # 0 /\ early <= c /\ c \in 1 .. Len(sealed)
    BY <1>1, <2>4, <2>5
  <2>7. LedgerFrame(sealed, c, src, sealed[late].boot)
    BY <2>1, <2>6 DEF LastBefore
  <2>8. c \in accepted
    BY <1>1, <2>2, <2>6 DEF IInv, Chains, LocalsChain
  <2>9. CASE early = c
    BY <2>8, <2>9
  <2>10. CASE early # c
    <3>1. early < c
      BY <2>4, <2>6, <2>10
    <3>2. LedgerIsComplete
      BY DEF IInv, Chains
    <3> QED
      BY <2>3, <2>7, <2>8, <3>1, <3>2 DEF LedgerIsComplete, LedgerFrame
  <2> QED
    BY <2>9, <2>10
<1> QED
  BY <1>2, <1>3

LEMMA OpenedType ==
    ASSUME NEW state \in Chain, NEW h \in Header, NEW digest \in Nat
    PROVE  /\ Opened(state, h, digest) \in Chain
           /\ Opened(state, h, digest).ledger = IF h.ledger THEN digest ELSE state.ledger
  BY DEF Opened, Chain, Header

(* What no lemma above is about is left alone.                             *)
LEMMA OthersKeep ==
    ASSUME IInv, UNCHANGED <<profile, tx, thread, electing, sealed, air, rx, accepted>>
    PROVE  IInv'
<1>1. Typed'
  BY SameTypes DEF IInv, Typed, FramesTyped
<1>2. Chains'
  BY ChainsKept DEF IInv
<1>3. ThreadsExclude'
  BY DEF IInv, ThreadsExclude, Elects
<1>4. ReadingsHold'
  BY SameTypes DEF IInv, ReadingsHold
<1> QED
  BY <1>1, <1>2, <1>3, <1>4 DEF IInv

LEMMA ReceiveKeeps ==
    ASSUME IInv, NEW i \in 1 .. Len(air), Receive(i)
    PROVE  IInv'
<1> DEFINE late == air[i]
           h == sealed[late].header
<1>1. UNCHANGED <<profile, tx, thread, electing, sealed, air>>
  BY DEF Receive
<1>2. \/ UNCHANGED <<rx, accepted>>
      \/ /\ profile.secure
         /\ Opens(rx[h.src], h, profile.key[Local])
         /\ rx' = [rx EXCEPT ![h.src] = Opened(@, h, late)]
         /\ accepted' = accepted \union {late}
  <2>1. PICK frame \in {sealed[air[i]]} :
            /\ rx' = IF /\ profile.secure
                        /\ profile.secure => Opens(rx[frame.header.src], frame.header, profile.key[Local])
                     THEN [rx EXCEPT ![frame.header.src] = Opened(@, frame.header, air[i])] ELSE rx
            /\ accepted' = IF /\ profile.secure
                              /\ profile.secure =>
                                     Opens(rx[frame.header.src], frame.header, profile.key[Local])
                           THEN accepted \union {air[i]} ELSE accepted
    BY DEF Receive
  <2>2. frame.header = h
    BY <2>1
  <2> QED
    BY <2>1, <2>2
<1>3. CASE UNCHANGED <<rx, accepted>>
  BY <1>1, <1>3, OthersKeep
<1>4. CASE /\ profile.secure
           /\ Opens(rx[h.src], h, profile.key[Local])
           /\ rx' = [rx EXCEPT ![h.src] = Opened(@, h, late)]
           /\ accepted' = accepted \union {late}
  <2>1. late \in 1 .. Len(sealed) /\ late \in Nat /\ h \in Header /\ h.src \in Peers
    <3>1. late \in 1 .. Len(sealed)
      BY DEF IInv, Typed
    <3>2. late \in Nat
      BY <3>1, SealedLen DEF IInv
    <3>3. sealed[late].header \in Header
      BY <3>1 DEF IInv, Typed, FramesTyped
    <3> QED
      BY <3>1, <3>2, <3>3 DEF Header
  <2>2. rx[h.src] \in Chain
    BY <2>1 DEF IInv, Typed
  <2>3. PICK state : state = Opened(rx[h.src], h, late)
    OBVIOUS
  <2>4. /\ state \in Chain
        /\ state.ledger = IF h.ledger THEN late ELSE rx[h.src].ledger
    <3>1. PICK header, digest : header = h /\ digest = late
      OBVIOUS
    <3>2. state = Opened(rx[h.src], header, digest) /\ header \in Header /\ digest \in Nat
      BY <2>1, <2>3, <3>1
    <3>3. state \in Chain
      BY <2>2, <3>2, OpenedType
    <3>4. state.ledger = IF header.ledger THEN digest ELSE rx[h.src].ledger
      BY <2>2, <3>2, OpenedType
    <3> QED
      BY <3>1, <3>3, <3>4
  <2>5. rx' = [rx EXCEPT ![h.src] = state]
    BY <1>4, <2>3
  <2>6. /\ rx' \in [Peers -> Chain]
        /\ rx'[h.src] = state
        /\ \A p \in Peers : p # h.src => rx'[p] = rx[p]
    BY <2>1, <2>4, <2>5 DEF IInv, Typed
  <2>7. Typed'
    BY <1>1, <1>4, <2>1, <2>6, SameTypes DEF IInv, Typed, FramesTyped, Chain
  <2>8. LocalsChain'
    <3> SUFFICES ASSUME NEW p \in Peers, rx'[p].ledger # 0
                 PROVE  /\ rx'[p].ledger \in accepted \union {late}
                        /\ sealed[rx'[p].ledger].header.ledger
                        /\ sealed[rx'[p].ledger].header.src = p
      BY <1>1, <1>4 DEF LocalsChain
    <3>1. CASE rx'[p].ledger = rx[p].ledger
      BY <3>1 DEF IInv, Chains, LocalsChain
    <3>2. CASE p = h.src /\ h.ledger
      BY <2>4, <2>6, <3>2
    <3> QED
      BY <2>4, <2>6, <3>1, <3>2
  <2>9. LedgerIsComplete'
    BY <1>1, <1>4, <2>1, OpenKeepsLedger DEF Opens
  <2>10. BootsAreOld' /\ SendersChain' /\ FramesChain' /\ OpensOnlySealed'
    <3>1. BootsAreOld'
      BY <1>1 DEF IInv, Chains, BootsAreOld
    <3>2. SendersChain' /\ FramesChain'
      BY <1>1 DEF IInv, Chains, SendersChain, FramesChain
    <3> QED
      BY <1>1, <1>4, <3>1, <3>2 DEF OpensOnlySealed
  <2>11. ThreadsExclude' /\ ReadingsHold'
    BY <1>1, SameTypes DEF IInv, ThreadsExclude, ReadingsHold, Elects
  <2> QED
    BY <2>7, <2>8, <2>9, <2>10, <2>11 DEF IInv, Chains
<1> QED
  BY <1>2, <1>3, <1>4

LEMMA RestartLocalKeeps == ASSUME IInv, RestartLocal PROVE IInv'
<1>1. /\ rx' = [p \in Peers |-> NoPeerState] /\ accepted' = {}
      /\ UNCHANGED <<profile, tx, thread, electing, sealed, air>>
  BY DEF RestartLocal
<1>2. NoPeerState \in Chain /\ NoPeerState.ledger = 0
  BY DEF NoPeerState, Chain
<1>3. Typed'
  BY <1>1, <1>2, SameTypes DEF IInv, Typed, FramesTyped
<1>4. BootsAreOld'
  BY <1>1 DEF IInv, Chains, BootsAreOld
<1>5. SendersChain' /\ FramesChain'
  BY <1>1 DEF IInv, Chains, SendersChain, FramesChain
<1>6. LocalsChain' /\ OpensOnlySealed' /\ LedgerIsComplete'
  BY <1>1, <1>2 DEF LocalsChain, OpensOnlySealed, LedgerIsComplete
<1>7. ThreadsExclude' /\ ReadingsHold'
  BY <1>1, SameTypes DEF IInv, ThreadsExclude, ReadingsHold, Elects
<1> QED
  BY <1>3, <1>4, <1>5, <1>6, <1>7 DEF IInv, Chains

(***************************************************************************)
(* The invariant.                                                          *)
(***************************************************************************)
LEMMA InitIInv == Init => IInv
<1> SUFFICES ASSUME Init PROVE IInv
  OBVIOUS
<1>1. /\ sealed = <<>> /\ Len(sealed) = 0 /\ air = <<>> /\ Len(air) = 0
      /\ sealed \in Seq(Nat) /\ air \in Seq(Nat)
      /\ accepted = {}
  BY EmptySeq DEF Init
<1>2. NoPeerState \in Chain /\ NoPeerState.ledger = 0
  BY DEF NoPeerState, Chain
<1>3. /\ FreshSender(0) \in Sender
      /\ FreshSender(0).chain = NoPeerState /\ FreshSender(0).boot = 0
  BY <1>2 DEF FreshSender, Sender
<1>4. \A d \in 1 .. Len(sealed) : FALSE
  BY <1>1
<1>5. /\ profile \in Profiles
      /\ tx = [p \in Peers |-> FreshSender(0)]
      /\ thread = [p \in Peers |-> [t \in Threads |-> Idle]]
      /\ electing = [p \in Peers |-> FALSE]
      /\ rx = [p \in Peers |-> NoPeerState]
  BY DEF Init
<1>6. Typed
  BY <1>1, <1>2, <1>3, <1>4, <1>5, OpParts DEF Typed, FramesTyped
<1>7. BootsAreOld /\ FramesChain
  BY <1>4 DEF BootsAreOld, FramesChain
<1>8. SendersChain
  <2>1. 0 \in 0 .. 0 + 1 - 1 /\ 0 + 1 .. 0 + 1 - 1 = {}
    OBVIOUS
  <2>2. \A p \in Peers : tx[p].chain.ledger = 0
    BY <1>2, <1>3, <1>5
  <2> QED
    BY <1>1, <2>1, <2>2 DEF SendersChain, LastBefore
<1>9. LocalsChain /\ OpensOnlySealed /\ LedgerIsComplete
  BY <1>1, <1>2, <1>5 DEF LocalsChain, OpensOnlySealed, LedgerIsComplete
<1>10. ThreadsExclude /\ ReadingsHold
  <2>1. \A p \in Peers, t \in Threads : thread[p][t] = Idle
    BY <1>5
  <2> QED
    BY <2>1, OpParts DEF ThreadsExclude, ReadingsHold, Elects
<1> QED
  BY <1>6, <1>7, <1>8, <1>9, <1>10 DEF IInv, Chains

LEMMA StepIInv == ASSUME IInv, [Next]_vars PROVE IInv'
<1>1. ASSUME NEW p \in Peers, NEW msg \in profile.messages, Broadcast(p, msg) PROVE IInv'
  BY <1>1, BroadcastKeeps
<1>2. ASSUME NEW p \in Peers, NEW msg \in profile.messages, SkipUnsigned(p, msg) PROVE IInv'
  BY <1>2, SkipKeeps
<1>3. ASSUME NEW p \in Peers, NEW t \in Threads, NEW msg \in profile.messages, LoadSeq(p, t, msg)
      PROVE  IInv'
  BY <1>3, LoadKeeps
<1>4. ASSUME NEW p \in Peers, NEW t \in Threads, StoreSeq(p, t) PROVE IInv'
  BY <1>4, StoreKeeps
<1>5. ASSUME NEW p \in Peers, NEW t \in Threads, ReadChain(p, t) PROVE IInv'
  BY <1>5, ReadKeeps
<1>6. ASSUME NEW p \in Peers, NEW t \in Threads, FinishSeal(p, t) PROVE IInv'
  BY <1>6, SealKeeps
<1>7. ASSUME NEW p \in Peers, RestartPeer(p) PROVE IInv'
  BY <1>7, RestartKeeps
<1>8. ASSUME NEW p \in Peers, GrowOld(p) PROVE IInv'
  BY <1>8, OthersKeep DEF GrowOld
<1>9. ASSUME NEW i \in 1 .. Len(air), Receive(i) PROVE IInv'
  BY <1>9, ReceiveKeeps
<1>10. CASE LookUp \/ Observe
  BY <1>10, OthersKeep DEF LookUp, Observe
<1>11. CASE ExpireCache \/ ExpireVotes
  BY <1>11, OthersKeep DEF ExpireCache, ExpireVotes
<1>12. ASSUME NEW v \in profile.proposals, Propose(v.proposal, v.epoch, v.quorum) PROVE IInv'
  BY <1>12, OthersKeep DEF Propose
<1>13. ASSUME NEW enabled \in BOOLEAN, SetOverride(enabled) PROVE IInv'
  BY <1>13, OthersKeep DEF SetOverride
<1>14. ASSUME NEW views \in profile.views, NEW moved \in BOOLEAN, AddFrame(views, moved) PROVE IInv'
  BY <1>14, OthersKeep DEF AddFrame
<1>15. CASE Save \/ Load
  BY <1>15, OthersKeep DEF Save, Load
<1>16. CASE RestartLocal
  BY <1>16, RestartLocalKeeps
<1>17. CASE Tick
  BY <1>17, OthersKeep DEF Tick
<1>18. CASE UNCHANGED vars
  BY <1>18, OthersKeep DEF vars
<1>19. CASE PeerSteps
  BY <1>1, <1>2, <1>3, <1>4, <1>5, <1>6, <1>7, <1>8, <1>19 DEF PeerSteps
<1>20. CASE LocalSteps
  BY <1>9, <1>10, <1>11, <1>12, <1>13, <1>14, <1>15, <1>16, <1>17, <1>20 DEF LocalSteps
<1> QED
  BY <1>18, <1>19, <1>20 DEF Next

LEMMA AlwaysIInv == Spec => []IInv
<1>1. Init => IInv
  BY InitIInv
<1>2. IInv /\ [Next]_vars => IInv'
  BY StepIInv
<1> QED
  BY <1>1, <1>2, PTL DEF Spec

(* Of the ledger frames of one sender since it started (elections,         *)
(* formations, missions, stops), one that Local opens is preceded by all   *)
(* that were sealed before it: seal() and open() of the swarm's security   *)
(* context skip none, whatever is lost, repeated or reordered under way,   *)
(* whoever restarts, and though the sender's threads race on the context,  *)
(* provided that only elections race.                                      *)
THEOREM NoOrderSkipped == Spec => []LedgerIsComplete
<1>1. IInv => LedgerIsComplete
  BY DEF IInv, Chains
<1> QED
  BY <1>1, AlwaysIInv, PTL

(***************************************************************************)
(* What the wire keeps of a packet: everything but the spelling of its     *)
(* source and some of its payload.                                         *)
(***************************************************************************)
With(b, source, hook, payload) ==
    [kind |-> b.kind, sender |-> b.sender, seq |-> b.seq, ts |-> b.ts, epoch |-> b.epoch,
     ttl |-> b.ttl, source |-> source, hook |-> hook, payload |-> payload]

(* A packet is the record of its fields.                                   *)
LEMMA BuiltIsPacket ==
    ASSUME NEW b \in EdgePeerPacket
    PROVE  /\ b = With(b, b.source, b.hook, b.payload)
           /\ {b.ts, b.ttl, b.epoch, b.sender, b.seq} \subseteq Nat
           /\ b.payload \in EdgePayload
           /\ Without(b.payload) => /\ b.payload.proposal = Defaults.proposal
                                    /\ b.payload.epoch = Defaults.epoch
  BY DEF EdgePeerPacket, With

(* Normalizing a source a second time changes nothing.                     *)
LEMMA SourceNormalizes ==
    ASSUME NEW source
    PROVE  /\ normalize_edge_source_tag(normalize_edge_source_tag(source))
                  = normalize_edge_source_tag(source)
           /\ (normalize_edge_source_tag(normalize_edge_source_tag(source)) = "simulation")
                  <=> (normalize_edge_source_tag(source) = "simulation")
  BY DEF normalize_edge_source_tag

OnlyWith(b, source, hook, payload) ==
    [kind : {b.kind}, sender : {b.sender}, seq : {b.seq}, ts : {b.ts}, epoch : {b.epoch},
     ttl : {b.ttl}, source : {source}, hook : {hook}, payload : {payload}]

(* The packet with given fields is the one of the set of such packets.     *)
LEMMA OnlyOne ==
    ASSUME NEW b, NEW source, NEW hook, NEW payload
    PROVE  \A p : p \in OnlyWith(b, source, hook, payload) <=> p = With(b, source, hook, payload)
  BY DEF With, OnlyWith

(* What canonical_bytes() takes of a packet is its content.                *)
LEMMA ContentOf ==
    ASSUME NEW b, NEW source, NEW hook, NEW payload
    PROVE  /\ Content(With(b, source, hook, payload))
                  = With(b, normalize_edge_source_tag(source), Cleared, write_cbor_payload(payload))
           /\ canonical_bytes(With(b, source, hook, payload))
                  = [mode |-> "CBOR", packet |-> Content(With(b, source, hook, payload))]
<1>1. PICK p : p = With(b, source, hook, payload)
  OBVIOUS
<1>2. PICK s : s = normalize_edge_source_tag(source)
  OBVIOUS
<1>3. PICK c : c = write_cbor_payload(payload)
  OBVIOUS
<1>4. p \in OnlyWith(b, source, hook, payload)
  BY <1>1, OnlyOne
<1>5. p.source = source /\ p.payload = payload
  BY <1>1 DEF With
<1>6. Content(p) \in OnlyWith(b, s, Cleared, c)
  <2>1. (IF Without(p.payload) THEN Defaults ELSE p.payload) = c
    BY <1>3, <1>5 DEF write_cbor_payload
  <2>2. normalize_edge_source_tag(p.source) = s
    BY <1>2, <1>5
  <2> QED
    BY <1>4, <2>1, <2>2 DEF Content, OnlyWith
<1>7. PICK q : q = [p EXCEPT !.hook = Cleared]
  OBVIOUS
<1>8. q \in OnlyWith(b, source, Cleared, payload)
  BY <1>4, <1>7 DEF OnlyWith
<1>9. q.source = source /\ q.payload = payload
  BY <1>8 DEF OnlyWith
<1>10. canonical_bytes(p) = serialize_edge_packet_cbor(q)
  BY <1>7 DEF canonical_bytes
<1>11. PICK r : r = [q EXCEPT !.source = normalize_edge_source_tag(@), !.payload = write_cbor_payload(@)]
  OBVIOUS
<1>12. r \in OnlyWith(b, s, Cleared, c)
  BY <1>2, <1>3, <1>8, <1>9, <1>11 DEF OnlyWith
<1>13. serialize_edge_packet_cbor(q) = [mode |-> "CBOR", packet |-> r]
  BY <1>11 DEF serialize_edge_packet_cbor
<1> QED
  BY <1>1, <1>2, <1>3, <1>6, <1>10, <1>12, <1>13, OnlyOne

(* What a signed packet of b is, once it was encoded and parsed.           *)
SignatureOf(b, config) ==
    IF config.mode = "NONE" THEN Unsigned ELSE Signature(config.mode, SigningKey(config), b)

(* Signing changes nothing but the hook.                                   *)
LEMMA Signed ==
    ASSUME NEW b \in EdgePeerPacket, NEW config
    PROVE  signPacket(b, config) = With(b, b.source, SignatureOf(b, config), b.payload)
  BY BuiltIsPacket DEF signPacket, With, SignatureOf
(* The payload of b as JSON shows it.                                      *)
Shown(payload, number, text) ==
    [present : {payload.present}, number : {number}, text : {text}, proposal : {payload.proposal},
     epoch : {payload.epoch}, quorum : {payload.quorum}]

(* The vote in c is the one in b, or both have none.                       *)
SameVote(c, b) ==
    c.proposal = b.payload.proposal /\ c.epoch = b.payload.epoch /\ c.quorum \in Int

(* What JSON keeps of a packet: all but the source as it was written and   *)
(* the payload, of which it keeps the vote.                                *)
LEMMA JsonKeeps ==
    ASSUME NEW b \in EdgePeerPacket, NEW hook, NEW wire,
           wire = serialize_edge_packet_json(With(b, b.source, hook, b.payload)),
           NEW parsed, parsed = parse_edge_packet_json(wire)
    PROVE  \E c : /\ parsed.packet = With(b, normalize_edge_source_tag(b.source), hook, c)
                  /\ SameVote(c, b)
<1>1. PICK p : p = With(b, b.source, hook, b.payload)
  OBVIOUS
<1>2. p \in OnlyWith(b, b.source, hook, b.payload)
  BY <1>1, OnlyOne
<1>3. PICK x : x = IF HasNumbers(p.kind) THEN format_double(b.payload.number) ELSE b.payload.number
  OBVIOUS
<1>4. b.payload \in Shown(b.payload, b.payload.number, b.payload.text)
  BY BuiltIsPacket DEF EdgePayload, Shown
<1>5. PICK y : y = [b.payload EXCEPT !.number = x]
  OBVIOUS
<1>6. y \in Shown(b.payload, x, b.payload.text)
  BY <1>4, <1>5 DEF Shown
<1>7. PICK s : s = normalize_edge_source_tag(b.source)
  OBVIOUS
<1>8. PICK q : q = [p EXCEPT !.source = normalize_edge_source_tag(@),
                             !.payload.number = IF HasNumbers(p.kind) THEN format_double(@) ELSE @]
  OBVIOUS
<1>9. q \in OnlyWith(b, s, hook, y)
  BY <1>2, <1>3, <1>5, <1>7, <1>8 DEF OnlyWith
<1>10. wire = [mode |-> "JSON", packet |-> q]
  BY <1>1, <1>8 DEF serialize_edge_packet_json
<1>11. PICK c : c = extract_payload(y)
  OBVIOUS
<1>12. PICK r : r = [q EXCEPT !.source = normalize_edge_source_tag(@), !.payload = extract_payload(@)]
  OBVIOUS
<1>13. parsed.packet = r
  BY <1>10, <1>12 DEF parse_edge_packet_json
<1>14. r \in OnlyWith(b, normalize_edge_source_tag(s), hook, c)
  <2>1. q.source = s /\ q.payload = y
    BY <1>9 DEF OnlyWith
  <2> QED
    BY <1>9, <1>11, <1>12, <2>1 DEF OnlyWith
<1>15. SameVote(c, b)
  <2>1. CASE Without(y)
    <3>1. Without(b.payload)
      BY <1>6, <2>1 DEF Without, Shown
    <3>2. c = Defaults
      BY <1>11, <2>1 DEF extract_payload
    <3> QED
      BY <3>1, <3>2, BuiltIsPacket DEF SameVote, Defaults
  <2>2. CASE ~ Without(y)
    <3>1. c \in Shown(b.payload, extract_number(y.number), extract_string(y.text))
      BY <1>6, <1>11, <2>2 DEF Shown, extract_payload
    <3>2. b.payload.quorum \in Int
      BY BuiltIsPacket DEF EdgePayload
    <3> QED
      BY <3>1, <3>2 DEF Shown, SameVote
  <2> QED
    BY <2>1, <2>2
<1> QED
  BY <1>7, <1>13, <1>14, <1>15, OnlyOne, SourceNormalizes

(* What CBOR keeps of it, whoever reads it.                                *)
LEMMA CborKeeps ==
    ASSUME NEW b \in EdgePeerPacket, NEW hook, NEW wire,
           wire = serialize_edge_packet_cbor(With(b, b.source, hook, b.payload))
    PROVE  \E c : /\ wire = [mode |-> "CBOR",
                             packet |-> With(b, normalize_edge_source_tag(b.source), hook, c)]
                  /\ SameVote(c, b)
<1>1. PICK p : p = With(b, b.source, hook, b.payload)
  OBVIOUS
<1>2. p \in OnlyWith(b, b.source, hook, b.payload)
  BY <1>1, OnlyOne
<1>3. PICK c : c = write_cbor_payload(b.payload)
  OBVIOUS
<1>4. PICK s : s = normalize_edge_source_tag(b.source)
  OBVIOUS
<1>5. PICK q : q = [p EXCEPT !.source = normalize_edge_source_tag(@), !.payload = write_cbor_payload(@)]
  OBVIOUS
<1>6. q \in OnlyWith(b, s, hook, c)
  BY <1>2, <1>3, <1>4, <1>5 DEF OnlyWith
<1>7. wire = [mode |-> "CBOR", packet |-> q]
  BY <1>1, <1>5 DEF serialize_edge_packet_cbor
<1>8. SameVote(c, b)
  <2>1. b.payload.quorum \in Int
    BY BuiltIsPacket DEF EdgePayload
  <2>2. CASE Without(b.payload)
    BY <1>3, <2>2, BuiltIsPacket DEF SameVote, Defaults, write_cbor_payload
  <2>3. CASE ~ Without(b.payload)
    BY <1>3, <2>1, <2>3 DEF SameVote, write_cbor_payload
  <2> QED
    BY <2>2, <2>3
<1> QED
  BY <1>4, <1>6, <1>7, <1>8, OnlyOne

(* A packet that parses is the one that was signed but for source and      *)
(* payload, whatever the two ends encode with.                             *)
LEMMA ParsedOf ==
    ASSUME NEW b \in EdgePeerPacket, NEW config, NEW m, NEW n, NEW parsed,
           parsed = parse_edge_packet(serialize_edge_packet(signPacket(b, config), m), n),
           parsed.ok
    PROVE  \E c : /\ parsed.packet = With(b, normalize_edge_source_tag(b.source),
                                          SignatureOf(b, config), c)
                  /\ SameVote(c, b)
<1>1. PICK hook : hook = SignatureOf(b, config)
  OBVIOUS
<1>2. signPacket(b, config) = With(b, b.source, hook, b.payload)
  BY <1>1, Signed
<1>3. PICK wire : wire = serialize_edge_packet(signPacket(b, config), m)
  OBVIOUS
<1>4. CASE m = "CBOR"
  <2>1. wire = serialize_edge_packet_cbor(With(b, b.source, hook, b.payload))
    BY <1>2, <1>3, <1>4 DEF serialize_edge_packet
  <2>2. PICK c : /\ wire = [mode |-> "CBOR",
                            packet |-> With(b, normalize_edge_source_tag(b.source), hook, c)]
                 /\ SameVote(c, b)
    BY <2>1, CborKeeps
  <2>3. n = "CBOR"
    BY <1>3, <2>2 DEF parse_edge_packet, parse_edge_packet_json
  <2>4. parsed.packet = wire.packet
    BY <1>3, <2>3 DEF parse_edge_packet, parse_edge_packet_cbor
  <2> QED
    BY <1>1, <2>2, <2>4
<1>5. CASE m # "CBOR"
  <2>1. wire = serialize_edge_packet_json(With(b, b.source, hook, b.payload))
    BY <1>2, <1>3, <1>5 DEF serialize_edge_packet
  <2>2. wire.mode = "JSON"
    BY <2>1 DEF serialize_edge_packet_json
  <2>3. n # "CBOR"
    BY <1>3, <2>2 DEF parse_edge_packet, parse_edge_packet_cbor
  <2>4. parsed = parse_edge_packet_json(wire)
    BY <1>3, <2>3 DEF parse_edge_packet
  <2> QED
    BY <1>1, <2>1, <2>4, JsonKeeps
<1> QED
  BY <1>4, <1>5

(***************************************************************************)
(* Verification of a packet that arrived.                                  *)
(***************************************************************************)

(* The time bounds, as the verifier computes and as Alive states them.     *)
LEMMA TimeBounds ==
    ASSUME NEW ts \in Nat, NEW ttl \in Nat, NEW skew \in Nat, NEW most \in Nat, NEW t \in Nat
    PROVE  /\ (ttl # 0 /\ most # 0 /\ ttl <= most) <=> ttl \in 1 .. most
           /\ (ts <= t + skew /\ t <= ts + ttl + skew)
                  <=> t \in (IF ts > skew THEN ts - skew ELSE 0) .. ts + ttl + skew
  OBVIOUS

(* What the configurations are.                                            *)
LEMMA Configured ==
    ASSUME profile \in Profiles, NEW p \in Peers \union {Local}
    PROVE  /\ profile.auth[p].mode \in AuthMode
           /\ profile.auth[p].skew \in Nat /\ profile.auth[p].maxTtl \in Nat
  BY MeshAssumption

(* The checks of epoch, lifetime and clock are those of Alive.             *)
LEMMA AliveIsChecked ==
    ASSUME profile \in Profiles, now \in Nat, NEW b \in EdgePeerPacket, NEW source, NEW hook, NEW c,
           NEW p, p = With(b, source, hook, c)
    PROVE  ( /\ TtlBounded(p, profile.auth[Local])
             /\ InTime(p, profile.auth[Local], now)
             /\ validateTrustEpoch(p, profile.auth[Local]) ) <=> Alive(b)
<1>1. PICK ours : ours = profile.auth[Local]
  OBVIOUS
<1>2. ours.skew \in Nat /\ ours.maxTtl \in Nat
  BY <1>1, Configured
<1>3. b.ts \in Nat /\ b.ttl \in Nat
  BY BuiltIsPacket
<1>4. p.ts = b.ts /\ p.ttl = b.ttl /\ p.epoch = b.epoch
  BY DEF With
<1>5. TtlBounded(p, ours) <=> b.ttl \in 1 .. ours.maxTtl
  BY <1>2, <1>3, <1>4, TimeBounds DEF TtlBounded
<1>6. InTime(p, ours, now) <=>
          now \in (IF b.ts > ours.skew THEN b.ts - ours.skew ELSE 0) .. b.ts + b.ttl + ours.skew
  BY <1>2, <1>3, <1>4, TimeBounds DEF InTime
<1> QED
  BY <1>1, <1>4, <1>5, <1>6 DEF Alive, validateTrustEpoch

(* A signature verifies when it was made by the algorithm and with the key *)
(* of the verifier, over what the verifier has before it.                  *)
LEMMA SignatureMatches ==
    ASSUME NEW b \in EdgePeerPacket, NEW source, NEW hook, NEW c, NEW p, p = With(b, source, hook, c),
           NEW alg, NEW other, NEW key, NEW otherKey
    PROVE  Signature(other, otherKey, b) = Signature(alg, key, p)
               <=> other = alg /\ otherKey = key /\ Content(p) = Content(b)
<1>1. canonical_bytes(p) = [mode |-> "CBOR", packet |-> Content(p)]
  BY ContentOf
<1>2. canonical_bytes(b) = [mode |-> "CBOR", packet |-> Content(b)]
  BY BuiltIsPacket, ContentOf
<1>3. canonical_bytes(b) = canonical_bytes(p) <=> Content(p) = Content(b)
  BY <1>1, <1>2
<1>4. \A u, v : <<u>> = <<v>> <=> u = v
  OBVIOUS
<1> QED
  BY <1>3, <1>4 DEF Signature

(* The checks of the key and the signature.                                *)
KeyAndSignature(p, config) ==
    /\ ~ Placeholder(config.mode)
    /\ PerNode(config.mode) => p.sender \notin config.revoked
    /\ IF config.mode = "NONE" THEN unsigned_allowed_for_profile(p, config)
       ELSE /\ KeyUsable(p, config)
            /\ p.hook = Signature(config.mode, VerificationKey(p, config), p)

(* The modes of authentication exclude one another.                        *)
LEMMA Modes ==
    /\ Placeholder("NONE") = FALSE /\ PerNode("NONE") = FALSE
    /\ Placeholder("HMAC_SHA256") = FALSE /\ PerNode("HMAC_SHA256") = FALSE
    /\ \A m : PerNode(m) => /\ ~ Placeholder(m) /\ m # "NONE" /\ m # "HMAC_SHA256"
    /\ \A m : Placeholder(m) => /\ ~ PerNode(m) /\ m # "NONE" /\ m # "HMAC_SHA256"
    /\ \A m \in AuthMode : m = "NONE" \/ m = "HMAC_SHA256" \/ PerNode(m) \/ Placeholder(m)
  BY DEF Placeholder, PerNode, AuthMode

(* A packet signed under theirs verifies under ours when the two use one   *)
(* algorithm and one key, and it says what was signed.                     *)
LEMMA HookMatches ==
    ASSUME NEW b \in EdgePeerPacket, NEW source, NEW c, NEW theirs, NEW p,
           p = With(b, source, SignatureOf(b, theirs), c), NEW alg, alg # "NONE", alg # "unsigned",
           NEW key
    PROVE  p.hook = Signature(alg, key, p)
               <=> theirs.mode = alg /\ SigningKey(theirs) = key /\ Content(p) = Content(b)
<1>1. p.hook = SignatureOf(b, theirs)
  BY DEF With
<1>2. CASE theirs.mode = "NONE"
  BY <1>1, <1>2 DEF SignatureOf, Unsigned, Signature
<1>3. CASE theirs.mode # "NONE"
  <2>1. p.hook = Signature(theirs.mode, SigningKey(theirs), b)
    BY <1>1, <1>3 DEF SignatureOf
  <2>2. PICK other, otherKey : other = theirs.mode /\ otherKey = SigningKey(theirs)
    OBVIOUS
  <2>3. Signature(other, otherKey, b) = Signature(alg, key, p)
            <=> other = alg /\ otherKey = key /\ Content(p) = Content(b)
    BY SignatureMatches
  <2> QED
    BY <2>1, <2>2, <2>3
<1> QED
  BY <1>2, <1>3

(* The checks of key and signature are those of Trusted, and ask for the   *)
(* content that was signed.                                                *)
LEMMA TrustIsChecked ==
    ASSUME profile \in Profiles, NEW b \in EdgePeerPacket, b.sender \in Peers,
           Signs(b, profile.auth[b.sender]), NEW c, NEW p,
           p = With(b, normalize_edge_source_tag(b.source),
                    SignatureOf(b, profile.auth[b.sender]), c)
    PROVE  KeyAndSignature(p, profile.auth[Local])
               <=> /\ Trusted(b)
                   /\ profile.auth[Local].mode = "NONE" \/ Content(p) = Content(b)
<1>1. PICK ours, theirs : ours = profile.auth[Local] /\ theirs = profile.auth[b.sender]
  OBVIOUS
<1>2. ours.mode \in AuthMode /\ theirs.mode \in AuthMode
  BY <1>1, Configured
<1>3. p.sender = b.sender /\ p.source = normalize_edge_source_tag(b.source)
  BY DEF With
<1>4. Signs(b, theirs) /\ p = With(b, normalize_edge_source_tag(b.source), SignatureOf(b, theirs), c)
  BY <1>1
<1>5. b.sender # 0
  BY MeshAssumption
<1>6. CASE ours.mode = "NONE"
  <2>1. KeyAndSignature(p, ours) <=> unsigned_allowed_for_profile(p, ours)
    BY <1>6, Modes DEF KeyAndSignature
  <2>2. unsigned_allowed_for_profile(p, ours) <=> unsigned_allowed_for_profile(b, ours)
    BY <1>3, SourceNormalizes DEF unsigned_allowed_for_profile
  <2>3. Trusted(b) <=> unsigned_allowed_for_profile(b, ours)
    BY <1>1, <1>6, Modes DEF Trusted
  <2> QED
    BY <1>1, <1>6, <2>1, <2>2, <2>3
<1>7. CASE ours.mode = "HMAC_SHA256"
  <2>1. VerificationKey(p, ours) = effective_secret(ours)
    BY <1>7, Modes DEF VerificationKey
  <2>2. KeyAndSignature(p, ours) <=>
            /\ effective_secret(ours) # "none"
            /\ p.hook = Signature(ours.mode, effective_secret(ours), p)
    BY <1>7, <2>1, Modes DEF KeyAndSignature, KeyUsable
  <2>3. p.hook = Signature(ours.mode, effective_secret(ours), p)
            <=> /\ theirs.mode = ours.mode /\ SigningKey(theirs) = effective_secret(ours)
                /\ Content(p) = Content(b)
    BY <1>4, <1>7, HookMatches
  <2>4. theirs.mode = ours.mode =>
            /\ SigningKey(theirs) = effective_secret(theirs)
            /\ SigningKey(theirs) # "none"
    BY <1>4, <1>7, Modes DEF SigningKey, Signs
  <2>5. Trusted(b) <=> theirs.mode = ours.mode /\ effective_secret(theirs) = effective_secret(ours)
    BY <1>1, <1>7, Modes DEF Trusted
  <2> QED
    BY <1>1, <1>7, <2>2, <2>3, <2>4, <2>5
<1>8. CASE PerNode(ours.mode)
  <2> DEFINE known == b.sender \in DOMAIN ours.trusted
  <2>1. VerificationKey(p, ours) = IF known THEN ours.trusted[b.sender] ELSE "none"
    BY <1>3, <1>8 DEF VerificationKey
  <2>2. PICK key : key = VerificationKey(p, ours)
    OBVIOUS
  <2>3. KeyAndSignature(p, ours) <=>
            /\ b.sender \notin ours.revoked
            /\ key # "none" /\ (ours.mode = "PER_NODE_HMAC_SHA256" => key # "weak")
            /\ p.hook = Signature(ours.mode, key, p)
    BY <1>3, <1>5, <1>8, <2>2, Modes DEF KeyAndSignature, KeyUsable
  <2>4. ours.mode # "NONE" /\ ours.mode # "unsigned"
    BY <1>2, <1>8, Modes DEF AuthMode
  <2>5. p.hook = Signature(ours.mode, key, p)
            <=> /\ theirs.mode = ours.mode /\ SigningKey(theirs) = key
                /\ Content(p) = Content(b)
    BY <1>4, <2>4, HookMatches
  <2>6. theirs.mode = ours.mode =>
            /\ SigningKey(theirs) = theirs.nodeKey
            /\ SigningKey(theirs) # "none"
            /\ ours.mode = "PER_NODE_HMAC_SHA256" => SigningKey(theirs) # "weak"
    BY <1>4, <1>8, Modes DEF SigningKey, Signs
  <2>7. Trusted(b) <=> /\ theirs.mode = ours.mode
                       /\ b.sender \notin ours.revoked
                       /\ known
                       /\ theirs.nodeKey = ours.trusted[b.sender]
    BY <1>1, <1>8, Modes DEF Trusted
  <2>8. key # "none" => known /\ key = ours.trusted[b.sender]
    BY <2>1, <2>2
  <2>9. known => key = ours.trusted[b.sender]
    BY <2>1, <2>2
  <2> HIDE DEF known
  <2>10. ASSUME KeyAndSignature(p, ours) PROVE Trusted(b) /\ Content(p) = Content(b)
    BY <2>3, <2>5, <2>6, <2>7, <2>8, <2>10
  <2>11. ASSUME Trusted(b), Content(p) = Content(b) PROVE KeyAndSignature(p, ours)
    BY <2>3, <2>5, <2>6, <2>7, <2>9, <2>11
  <2> QED
    BY <1>1, <2>4, <2>10, <2>11
<1>9. CASE Placeholder(ours.mode)
  <2>1. ~ KeyAndSignature(p, ours)
    BY <1>9 DEF KeyAndSignature
  <2>2. ~ Trusted(b)
    BY <1>1, <1>9, Modes DEF Trusted
  <2> QED
    BY <1>1, <2>1, <2>2
<1> QED
  BY <1>2, <1>6, <1>7, <1>8, <1>9, Modes

(* The receive path verifies the packet of a frame exactly when it is      *)
(* genuine, and takes it for what it is.                                   *)
LEMMA VerifiedFrame ==
    ASSUME profile \in Profiles, now \in Nat, NEW frame, frame.header.src \in Peers,
           EdgeFormed(frame.header.src, frame.body)
    PROVE  /\ Verified(frame) <=>
                  /\ Parsed(frame).ok
                  /\ Trusted(frame.body.built) /\ Alive(frame.body.built)
                  /\ \/ profile.auth[Local].mode = "NONE"
                     \/ Content(Parsed(frame).packet) = Content(frame.body.built)
           /\ Parsed(frame).ok =>
                  /\ Parsed(frame).packet.sender = frame.header.src
                  /\ Parsed(frame).packet.kind = frame.body.built.kind
                  /\ SameVote(Parsed(frame).packet.payload, frame.body.built)
<1>1. PICK b, parsed : b = frame.body.built /\ parsed = Parsed(frame)
  OBVIOUS
<1>2. b \in EdgePeerPacket /\ b.sender = frame.header.src /\ Signs(b, profile.auth[b.sender])
  BY <1>1 DEF EdgeFormed
<1>3. CASE ~ parsed.ok
  BY <1>1, <1>3 DEF Verified
<1>4. CASE parsed.ok
  <2>1. PICK theirs, m, n : /\ theirs = profile.auth[b.sender]
                            /\ m = EffectiveMode(profile.wire)
                            /\ n = EffectiveMode(profile.localWire)
    OBVIOUS
  <2>2. parsed = parse_edge_packet(serialize_edge_packet(signPacket(b, theirs), m), n)
    BY <1>1, <1>2, <2>1 DEF EdgeFormed, Parsed
  <2>3. PICK c : /\ parsed.packet = With(b, normalize_edge_source_tag(b.source),
                                         SignatureOf(b, theirs), c)
                 /\ SameVote(c, b)
    BY <1>2, <1>4, <2>2, ParsedOf
  <2>4. PICK p : p = parsed.packet
    OBVIOUS
  <2>5. p.sender = b.sender /\ p.kind = b.kind /\ p.payload = c
    BY <2>3, <2>4 DEF With
  <2>6. Verified(frame) <=> verifyPacket(p, profile.auth[Local], now)
    BY <1>1, <1>2, <1>4, <2>4, <2>5 DEF Verified
  <2>7. verifyPacket(p, profile.auth[Local], now) <=>
            /\ KeyAndSignature(p, profile.auth[Local])
            /\ /\ TtlBounded(p, profile.auth[Local])
               /\ InTime(p, profile.auth[Local], now)
               /\ validateTrustEpoch(p, profile.auth[Local])
    BY DEF verifyPacket, KeyAndSignature
  <2>8. ( /\ TtlBounded(p, profile.auth[Local])
          /\ InTime(p, profile.auth[Local], now)
          /\ validateTrustEpoch(p, profile.auth[Local]) ) <=> Alive(b)
    BY <1>2, <2>3, <2>4, AliveIsChecked
  <2>9. KeyAndSignature(p, profile.auth[Local])
            <=> Trusted(b) /\ (profile.auth[Local].mode = "NONE" \/ Content(p) = Content(b))
    BY <1>2, <2>1, <2>3, <2>4, TrustIsChecked
  <2> QED
    BY <1>1, <1>2, <1>4, <2>3, <2>4, <2>5, <2>6, <2>7, <2>8, <2>9
<1> QED
  BY <1>3, <1>4

(* Signing, the two encodings of a packet and verification agree end to    *)
(* end: of what is under way, a drone takes exactly the packets built by a *)
(* sender it trusts, in their lifetime, that arrive saying what was built. *)
LEMMA FormedIsGenuine ==
    ASSUME IInv, SupportInv
    PROVE  VerifiedIffGenuine
<1> SUFFICES ASSUME NEW d \in ToSet(air), sealed[d].type = "edge"
             PROVE  Verified(sealed[d]) <=>
                      /\ Parsed(sealed[d]).ok
                      /\ Trusted(sealed[d].body.built) /\ Alive(sealed[d].body.built)
                      /\ \/ profile.auth[Local].mode = "NONE"
                         \/ Content(Parsed(sealed[d]).packet) = Content(sealed[d].body.built)
  BY DEF VerifiedIffGenuine
<1>1. d \in 1 .. Len(sealed)
  <2>1. air \in Seq(Nat) /\ \A i \in 1 .. Len(air) : air[i] \in 1 .. Len(sealed)
    BY DEF IInv, Typed
  <2>2. DOMAIN air = 1 .. Len(air)
    BY <2>1, LenProperties
  <2> QED
    BY <2>1, <2>2 DEF ToSet
<1>2. sealed[d].header.src \in Peers
  BY <1>1 DEF IInv, Typed, FramesTyped, Header
<1>3. EdgeFormed(sealed[d].header.src, sealed[d].body)
  BY <1>1 DEF SupportInv, PacketsFormed
<1>4. profile \in Profiles /\ now \in Nat
  BY DEF IInv, Typed, SupportInv
<1>5. PICK frame : frame = sealed[d]
  OBVIOUS
<1> QED
  BY <1>2, <1>3, <1>4, <1>5, VerifiedFrame

(***************************************************************************)
(* Packets are built of the templates, and who refuses to sign one at one  *)
(* time always does.                                                       *)
(***************************************************************************)
LEMMA BuiltType ==
    ASSUME NEW p \in Peers, NEW t \in EdgePeerPacket,
           tx[p].edge \in Nat, now \in Nat, profile.ahead \in Nat
    PROVE  Built(p, t) \in EdgePeerPacket /\ Built(p, t).sender = p
<1>1. PICK seq \in Nat, ts \in Nat : seq = tx[p].edge + 1 /\ ts = now + profile.ahead
  OBVIOUS
<1>2. PICK b : b = [t EXCEPT !.sender = p, !.seq = seq, !.ts = ts]
  OBVIOUS
<1>3. b = Built(p, t)
  BY <1>1, <1>2 DEF Built
<1>4. p \in Nat
  BY MeshAssumption
<1>5. b \in EdgePeerPacket /\ b.sender = p
  BY <1>2, <1>4 DEF EdgePeerPacket
<1> QED
  BY <1>3, <1>5

(* Whether a packet can be signed depends on its sender and the key store  *)
(* only.                                                                   *)
LEMMA SignsBySender ==
    ASSUME NEW b, NEW c, b.sender = c.sender, NEW config
    PROVE  Signs(b, config) <=> Signs(c, config)
  BY DEF Signs

(* What a message carries is a packet.                                     *)
LEMMA Templates ==
    ASSUME IInv, NEW msg \in profile.messages, msg.type = "edge"
    PROVE  msg.packet \in EdgePeerPacket
<1>1. profile \in Profiles
  BY DEF IInv, Typed
<1> QED
  BY <1>1, MeshAssumption

(* So is what its builder makes of it.                                     *)
LEMMA BuiltHere ==
    ASSUME IInv, SupportInv, NEW p \in Peers, NEW msg \in profile.messages, msg.type = "edge"
    PROVE  Built(p, msg.packet) \in EdgePeerPacket /\ Built(p, msg.packet).sender = p
<1>1. profile.ahead \in Nat
  <2>1. profile \in Profiles
    BY DEF IInv, Typed
  <2> QED
    BY <2>1, MeshAssumption
<1>2. tx[p].edge \in Nat /\ now \in Nat
  BY DEF IInv, Typed, Sender, SupportInv
<1>3. PICK t \in EdgePeerPacket : t = msg.packet
  BY Templates
<1> QED
  BY <1>1, <1>2, <1>3, BuiltType

(* A message that can be signed can be signed later.                       *)
LEMMA RefusesForGood ==
    ASSUME IInv, UNCHANGED profile, NEW p \in Peers, NEW msg \in profile.messages, ~ Refuses(p, msg)
    PROVE  ~ Refuses(p, msg)'
<1> SUFFICES ASSUME msg.type = "edge"
             PROVE  Signs(Built(p, msg.packet), profile.auth[p])'
  BY DEF Refuses
<1>1. PICK t \in EdgePeerPacket : t = msg.packet
  BY Templates
<1>2. PICK b : b = Built(p, t)
  OBVIOUS
<1>3. PICK c : c = Built(p, t)'
  OBVIOUS
<1>4. b.sender = p /\ c.sender = p
  <2>1. \A x, y, z : [t EXCEPT !.sender = x, !.seq = y, !.ts = z].sender = x
    BY DEF EdgePeerPacket
  <2> QED
    BY <1>2, <1>3, <2>1 DEF Built
<1>5. Signs(b, profile.auth[p])
  BY <1>1, <1>2 DEF Refuses
<1>6. Signs(c, profile.auth[p])
  BY <1>4, <1>5, SignsBySender
<1> QED
  BY <1>1, <1>3, <1>6

(***************************************************************************)
(* What was announced stays announced.                                     *)
(***************************************************************************)
SealedGrows ==
    /\ Len(sealed) \in Nat /\ Len(sealed') \in Nat /\ Len(sealed) <= Len(sealed')
    /\ \A d \in 1 .. Len(sealed) : sealed'[d] = sealed[d]

(* Frames are never taken back, so a vote stays announced.                 *)
LEMMA StaysAnnounced ==
    ASSUME SealedGrows, NEW p, NEW v, NEW w, w.epoch = v.epoch, w.proposal = v.proposal,
           Announced(p, v)
    PROVE  Announced(p, w)'
<1>1. PICK d \in 1 .. Len(sealed) :
          /\ sealed[d].header.src = p /\ sealed[d].type = "edge"
          /\ sealed[d].body.built.kind = "consensus_state"
          /\ sealed[d].body.built.payload.epoch = v.epoch
          /\ sealed[d].body.built.payload.proposal = v.proposal
  BY DEF Announced
<1>2. d \in 1 .. Len(sealed') /\ sealed'[d] = sealed[d]
  BY DEF SealedGrows
<1> QED
  BY <1>1, <1>2 DEF Announced

(* In particular while no frame is sealed.                                 *)
LEMMA SameSealed ==
    ASSUME IInv, UNCHANGED sealed
    PROVE  SealedGrows
  BY SealedLen DEF IInv, SealedGrows

(* Votes under way and counted stay announced while they are left alone.   *)
LEMMA VotesUntouched ==
    ASSUME SealedGrows, UNCHANGED <<recv, votes>>, VoteAnnounced, VotesCounted
    PROVE  VoteAnnounced' /\ VotesCounted'
<1>1. VoteAnnounced'
  <2> SUFFICES ASSUME recv # Idle
               PROVE  Announced(recv.sender, recv.vote)'
    BY DEF VoteAnnounced, Idle
  <2>1. PICK p, v : p = recv.sender /\ v = recv.vote
    OBVIOUS
  <2>2. Announced(p, v)
    BY <2>1 DEF VoteAnnounced
  <2>3. Announced(p, v)'
    BY <2>2, StaysAnnounced
  <2> QED
    BY <2>1, <2>3
<1>2. ASSUME NEW p \in votes.supporters \ {Local}
      PROVE  Announced(p, votes)'
  <2>1. PICK v : v = votes
    OBVIOUS
  <2>2. Announced(p, v)
    BY <2>1 DEF VotesCounted
  <2>3. Announced(p, v)'
    BY <2>2, StaysAnnounced
  <2> QED
    BY <2>1, <2>3
<1> QED
  BY <1>1, <1>2 DEF VotesCounted

(***************************************************************************)
(* A peer's steps.                                                         *)
(***************************************************************************)

(* A frame is sealed.                                                      *)
LEMMA SealKeepsSupport ==
    ASSUME IInv, SupportInv, NEW p \in Peers, NEW msg \in profile.messages, ~ Refuses(p, msg),
           NEW header, header.src = p,
           sealed' = Append(sealed, Frame(p, header, msg)),
           UNCHANGED <<profile, now, recv, votes>>
    PROVE  SealedGrows /\ PacketsFormed' /\ VoteAnnounced' /\ VotesCounted' /\ (now \in Nat)'
<1>1. PICK frame : frame = Frame(p, header, msg)
  OBVIOUS
<1>2. /\ Len(sealed) \in Nat /\ Len(sealed') = Len(sealed) + 1
      /\ \A d \in 1 .. Len(sealed) : sealed'[d] = sealed[d]
      /\ sealed'[Len(sealed) + 1] = frame
  <2>1. \E S : sealed \in Seq(S)
    BY DEF IInv, Typed, FramesTyped
  <2>2. /\ Len(sealed) \in Nat /\ Len(Append(sealed, frame)) = Len(sealed) + 1
        /\ \A i \in 1 .. Len(sealed) : Append(sealed, frame)[i] = sealed[i]
        /\ Append(sealed, frame)[Len(sealed) + 1] = frame
    BY <2>1, Appended
  <2> QED
    BY <1>1, <2>2
<1>3. SealedGrows
  BY <1>2 DEF SealedGrows
<1>4. frame.type = "edge" => EdgeFormed(p, frame.body)
  <2> SUFFICES ASSUME msg.type = "edge"
               PROVE  EdgeFormed(p, frame.body)
    BY <1>1 DEF Frame
  <2>1. frame.body = Message(p, msg)
    BY <1>1 DEF Frame
  <2>2. PICK b : b = Built(p, msg.packet)
    OBVIOUS
  <2>3. Message(p, msg) =
          [built |-> b,
           wire |-> serialize_edge_packet(signPacket(b, profile.auth[p]), EffectiveMode(profile.wire))]
    BY <2>2 DEF Message
  <2>4. b \in EdgePeerPacket /\ b.sender = p
    BY <2>2, BuiltHere
  <2>5. Signs(b, profile.auth[p])
    BY <2>2 DEF Refuses
  <2> QED
    BY <2>1, <2>3, <2>4, <2>5 DEF EdgeFormed
<1>5. frame.header.src = p
  BY <1>1, FrameParts
<1>6. PacketsFormed'
  <2>1. \A d \in 1 .. Len(sealed) :
            sealed[d].type = "edge" => EdgeFormed(sealed[d].header.src, sealed[d].body)
    BY DEF SupportInv, PacketsFormed
  <2>2. \A q, body : EdgeFormed(q, body)' <=> EdgeFormed(q, body)
    BY DEF EdgeFormed
  <2>3. \A d \in 1 .. Len(sealed') : d \in 1 .. Len(sealed) \/ d = Len(sealed) + 1
    BY <1>2
  <2> SUFFICES ASSUME NEW d \in 1 .. Len(sealed'), sealed'[d].type = "edge"
               PROVE  EdgeFormed(sealed[d].header.src, sealed[d].body)'
    BY DEF PacketsFormed
  <2>4. PICK q, body : q = sealed'[d].header.src /\ body = sealed'[d].body
    OBVIOUS
  <2>5. EdgeFormed(q, body)
    BY <1>2, <1>4, <1>5, <2>1, <2>3, <2>4
  <2>6. EdgeFormed(q, body)'
    BY <2>2, <2>5
  <2> QED
    BY <2>4, <2>6
<1>7. VoteAnnounced' /\ VotesCounted'
  BY <1>3, VotesUntouched DEF SupportInv
<1> QED
  BY <1>3, <1>6, <1>7 DEF SupportInv

(* Threads go on with messages that they do not refuse.                    *)
LEMMA ThreadsGoOn ==
    ASSUME IInv, SupportInv, UNCHANGED profile,
           \A q \in Peers, u \in Threads :
               thread'[q][u] # Idle =>
                   \/ thread[q][u] # Idle /\ thread'[q][u].msg = thread[q][u].msg
                   \/ \E msg \in profile.messages : thread'[q][u].msg = msg /\ ~ Refuses(q, msg)
    PROVE  ThreadsSign'
<1> SUFFICES ASSUME NEW q \in Peers, NEW u \in Threads, thread'[q][u] # Idle
             PROVE  ~ Refuses(q, thread[q][u].msg)'
  BY DEF ThreadsSign
<1>1. PICK msg \in profile.messages : thread'[q][u].msg = msg /\ ~ Refuses(q, msg)
  <2>1. CASE thread[q][u] # Idle /\ thread'[q][u].msg = thread[q][u].msg
    <3>1. thread[q][u].msg \in profile.messages
      BY <2>1, OpParts DEF IInv, Typed, Op
    <3>2. ~ Refuses(q, thread[q][u].msg)
      BY <2>1 DEF SupportInv, ThreadsSign
    <3> QED
      BY <2>1, <3>1, <3>2
  <2> QED
    BY <2>1
<1>2. ~ Refuses(q, msg)'
  BY <1>1, RefusesForGood
<1> QED
  BY <1>1, <1>2

(* Whatever leaves the frames and the votes alone.                         *)
LEMMA SupportUntouched ==
    ASSUME IInv, SupportInv, UNCHANGED <<profile, sealed, recv, votes>>, ThreadsSign', now' \in Nat
    PROVE  SupportInv'
<1>1. VoteAnnounced' /\ VotesCounted'
  BY SameSealed, VotesUntouched DEF SupportInv
<1>2. PacketsFormed'
  BY DEF SupportInv, PacketsFormed, EdgeFormed
<1> QED
  BY <1>1, <1>2 DEF SupportInv

LEMMA BroadcastSupports ==
    ASSUME IInv, SupportInv, NEW p \in Peers, NEW msg \in profile.messages, Broadcast(p, msg)
    PROVE  SupportInv'
<1>1. PICK header : header = build_header(tx[p].chain, p, tx[p].seq + 1, msg.type, profile.key[p])
  OBVIOUS
<1>2. /\ sealed' = Append(sealed, Frame(p, header, msg))
      /\ ~ Refuses(p, msg)
      /\ UNCHANGED <<profile, now, thread, recv, votes>>
  BY <1>1 DEF Broadcast
<1>3. header.src = p
  BY <1>1 DEF build_header
<1>4. PacketsFormed' /\ VoteAnnounced' /\ VotesCounted' /\ now' \in Nat
  BY <1>2, <1>3, SealKeepsSupport
<1>5. ThreadsSign'
  BY <1>2, ThreadsGoOn
<1> QED
  BY <1>4, <1>5 DEF SupportInv

LEMMA FinishSealSupports ==
    ASSUME IInv, SupportInv, NEW p \in Peers, NEW t \in Threads, FinishSeal(p, t)
    PROVE  SupportInv'
<1>1. PICK header, msg : header = thread[p][t].header /\ msg = thread[p][t].msg
  OBVIOUS
<1>2. /\ thread[p][t].at = "reading"
      /\ sealed' = Append(sealed, Frame(p, header, msg))
      /\ thread' = [thread EXCEPT ![p][t] = Idle]
      /\ UNCHANGED <<profile, now, recv, votes>>
  BY <1>1 DEF FinishSeal
<1>3. thread[p][t] \in Reading
  BY <1>2, OpParts DEF IInv, Typed
<1>4. thread[p][t] # Idle /\ msg \in profile.messages
  BY <1>1, <1>3, OpParts
<1>5. header.src = p
  BY <1>1, <1>3 DEF IInv, ReadingsHold
<1>6. ~ Refuses(p, msg)
  BY <1>1, <1>4 DEF SupportInv, ThreadsSign
<1>7. PacketsFormed' /\ VoteAnnounced' /\ VotesCounted' /\ now' \in Nat
  BY <1>2, <1>4, <1>5, <1>6, SealKeepsSupport
<1>8. ThreadsSign'
  <2>1. \A q \in Peers, u \in Threads : thread'[q][u] # Idle => thread'[q][u] = thread[q][u]
    BY <1>2, OpParts, ThreadMoves DEF IInv, Typed
  <2> QED
    BY <1>2, <2>1, ThreadsGoOn
<1> QED
  BY <1>7, <1>8 DEF SupportInv

LEMMA OtherPeerStepsSupport ==
    ASSUME IInv, SupportInv, NEW p \in Peers,
           \/ \E msg \in profile.messages : SkipUnsigned(p, msg)
           \/ \E t \in Threads : \/ \E msg \in profile.messages : LoadSeq(p, t, msg)
                                 \/ StoreSeq(p, t) \/ ReadChain(p, t)
           \/ RestartPeer(p)
           \/ GrowOld(p)
    PROVE  SupportInv'
<1>1. UNCHANGED <<profile, now, sealed, recv, votes>>
  BY DEF SkipUnsigned, LoadSeq, StoreSeq, ReadChain, RestartPeer, GrowOld
<1>2. thread \in [Peers -> [Threads -> Op]]
  BY DEF IInv, Typed
<1>3. ASSUME UNCHANGED thread PROVE ThreadsSign'
  BY <1>1, <1>3, ThreadsGoOn
<1>4. ASSUME NEW t \in Threads, NEW msg \in profile.messages, LoadSeq(p, t, msg)
      PROVE  ThreadsSign'
  <2>1. PICK op : op = [at |-> "loaded", msg |-> msg, seq |-> tx[p].seq + 1]
    OBVIOUS
  <2>2. thread' = [thread EXCEPT ![p][t] = op] /\ ~ Refuses(p, msg) /\ op.msg = msg
    BY <1>4, <2>1 DEF LoadSeq
  <2>3. \A q \in Peers, u \in Threads :
            IF q = p /\ u = t THEN thread'[q][u] = op ELSE thread'[q][u] = thread[q][u]
    BY <1>2, <2>2
  <2> QED
    BY <1>1, <2>2, <2>3, ThreadsGoOn
<1>5. ASSUME NEW t \in Threads, StoreSeq(p, t) \/ ReadChain(p, t)
      PROVE  ThreadsSign'
  <2>1. thread[p][t].at \in {"loaded", "numbered"}
    BY <1>5 DEF StoreSeq, ReadChain
  <2>2. thread[p][t] \in Loaded /\ thread[p][t] # Idle
    BY <1>2, <2>1, OpParts
  <2>3. PICK op : thread' = [thread EXCEPT ![p][t] = op] /\ op.msg = thread[p][t].msg
    <3>1. CASE StoreSeq(p, t)
      <4>1. PICK op : op = [thread[p][t] EXCEPT !.at = "numbered"]
        OBVIOUS
      <4>2. op.msg = thread[p][t].msg
        BY <2>2, <4>1 DEF Loaded
      <4>3. thread' = [thread EXCEPT ![p][t] = op]
        BY <1>2, <3>1, <4>1 DEF StoreSeq
      <4> QED
        BY <4>2, <4>3
    <3>2. CASE ReadChain(p, t)
      <4>1. PICK h : h = build_header(tx[p].chain, p, thread[p][t].seq, thread[p][t].msg.type,
                                      profile.key[p])
        OBVIOUS
      <4>2. PICK op : op = [at |-> "reading", msg |-> thread[p][t].msg, header |-> h]
        OBVIOUS
      <4>3. thread' = [thread EXCEPT ![p][t] = op] /\ op.msg = thread[p][t].msg
        BY <3>2, <4>1, <4>2 DEF ReadChain
      <4> QED
        BY <4>3
    <3> QED
      BY <1>5, <3>1, <3>2
  <2>4. \A q \in Peers, u \in Threads :
            IF q = p /\ u = t THEN thread'[q][u] = op ELSE thread'[q][u] = thread[q][u]
    BY <1>2, <2>3
  <2> QED
    BY <1>1, <2>2, <2>3, <2>4, ThreadsGoOn
<1>6. CASE RestartPeer(p)
  <2>1. \A q \in Peers, u \in Threads : thread'[q][u] # Idle => thread'[q][u] = thread[q][u]
    BY <1>2, <1>6 DEF RestartPeer
  <2>2. ThreadsSign'
    BY <1>1, <2>1, ThreadsGoOn
  <2> QED
    BY <1>1, <2>2, SupportUntouched DEF SupportInv
<1>7. CASE (\E msg \in profile.messages : SkipUnsigned(p, msg)) \/ GrowOld(p)
  <2>1. UNCHANGED thread
    BY <1>7 DEF SkipUnsigned, GrowOld
  <2> QED
    BY <1>1, <1>3, <2>1, SupportUntouched DEF SupportInv
<1>8. CASE \E t \in Threads : \/ \E msg \in profile.messages : LoadSeq(p, t, msg)
                              \/ StoreSeq(p, t) \/ ReadChain(p, t)
  <2>1. ThreadsSign'
    BY <1>4, <1>5, <1>8
  <2> QED
    BY <1>1, <2>1, SupportUntouched DEF SupportInv
<1> QED
  BY <1>6, <1>7, <1>8

(***************************************************************************)
(* The receive path.                                                       *)
(***************************************************************************)

(* A vote that the receive thread takes to the consensus was sent.         *)
LEMMA ReceiveSupports ==
    ASSUME IInv, SupportInv, NEW i \in 1 .. Len(air), Receive(i)
    PROVE  SupportInv'
<1>1. UNCHANGED <<profile, now, sealed, thread, votes>> /\ recv = Idle
  BY DEF Receive
<1>2. PICK d, frame : d = air[i] /\ frame = sealed[d]
  OBVIOUS
<1>3. d \in 1 .. Len(sealed)
  BY <1>2 DEF IInv, Typed
<1>4. recv' = Idle \/ (frame.type = "edge" /\ handle_edge_packet(frame))
  BY <1>1, <1>2 DEF Receive
<1>5. VoteAnnounced'
  <2>1. CASE recv' = Idle
    BY <2>1 DEF VoteAnnounced
  <2>2. CASE recv' # Idle
    <3>1. frame.type = "edge" /\ handle_edge_packet(frame)
      BY <1>4, <2>2
    <3>2. PICK packet : packet = Parsed(frame).packet
      OBVIOUS
    <3>3. /\ Verified(frame)
          /\ packet.kind = "consensus_state"
          /\ recv' = [at |-> "lookup", sender |-> packet.sender, vote |-> packet.payload]
      BY <1>1, <2>2, <3>1, <3>2 DEF handle_edge_packet
    <3>4. frame.header.src \in Peers /\ EdgeFormed(frame.header.src, frame.body)
      BY <1>2, <1>3, <3>1 DEF IInv, Typed, FramesTyped, Header, SupportInv, PacketsFormed
    <3>5. profile \in Profiles /\ now \in Nat
      BY DEF IInv, Typed, SupportInv
    <3>6. Parsed(frame).ok
      BY <3>3 DEF Verified
    <3>7. /\ packet.sender = frame.header.src
          /\ packet.kind = frame.body.built.kind
          /\ SameVote(packet.payload, frame.body.built)
      BY <3>2, <3>4, <3>5, <3>6, VerifiedFrame
    <3>8. packet.payload.epoch \in Nat /\ packet.payload.quorum \in Int
      BY <3>4, <3>7, BuiltIsPacket DEF SameVote, EdgeFormed, EdgePayload
    <3>9. PICK p, v : p = packet.sender /\ v = packet.payload
      OBVIOUS
    <3>10. Announced(p, v)
      BY <1>2, <1>3, <3>1, <3>3, <3>7, <3>9 DEF Announced, SameVote
    <3>11. Announced(p, v)'
      BY <1>1, <3>10 DEF Announced
    <3>12. recv'.sender = p /\ recv'.vote = v
      BY <3>3, <3>9
    <3> QED
      BY <3>3, <3>8, <3>9, <3>11, <3>12 DEF VoteAnnounced
  <2> QED
    BY <2>1, <2>2
<1>6. VotesCounted'
  <2>1. PICK v : v = votes
    OBVIOUS
  <2>2. \A p : Announced(p, v) => Announced(p, v)'
    BY <1>1 DEF Announced
  <2>3. \A p \in votes.supporters \ {Local} : Announced(p, votes)'
    BY <1>1, <2>1, <2>2 DEF SupportInv, VotesCounted
  <2> QED
    BY <1>1, <2>3 DEF SupportInv, VotesCounted
<1>7. PacketsFormed'
  BY <1>1 DEF SupportInv, PacketsFormed, EdgeFormed
<1>8. ThreadsSign'
  BY <1>1, ThreadsGoOn
<1> QED
  BY <1>1, <1>5, <1>6, <1>7, <1>8 DEF SupportInv

(* A step of the consensus alone.                                          *)
LEMMA ConsensusSteps ==
    ASSUME IInv, SupportInv, UNCHANGED <<profile, now, sealed, thread>>,
           VoteAnnounced', VotesCounted'
    PROVE  SupportInv'
<1>1. PacketsFormed'
  BY DEF SupportInv, PacketsFormed, EdgeFormed
<1>2. ThreadsSign'
  BY ThreadsGoOn
<1> QED
  BY <1>1, <1>2 DEF SupportInv

(* Between the cache and the consensus a vote stays what was announced.    *)
LEMMA LookUpSupports ==
    ASSUME IInv, SupportInv, LookUp
    PROVE  SupportInv'
<1>1. /\ recv.at = "lookup"
      /\ recv' = [recv EXCEPT !.at = "observe"] \/ recv' = Idle
      /\ UNCHANGED <<profile, now, sealed, thread, votes>>
  BY DEF LookUp
<1>2. SealedGrows
  BY <1>1, SameSealed
<1>3. recv # Idle
  BY <1>1 DEF Idle
<1>4. PICK p, v : p = recv.sender /\ v = recv.vote
  OBVIOUS
<1>5. recv = [at |-> recv.at, sender |-> p, vote |-> v] /\ v.epoch \in Nat /\ v.quorum \in Int
      /\ Announced(p, v)
  BY <1>3, <1>4 DEF SupportInv, VoteAnnounced
<1>6. Announced(p, v)'
  BY <1>2, <1>5, StaysAnnounced
<1>7. VoteAnnounced'
  <2>1. CASE recv' = Idle
    BY <2>1 DEF VoteAnnounced
  <2>2. CASE recv' = [recv EXCEPT !.at = "observe"]
    <3>1. recv' = [at |-> "observe", sender |-> p, vote |-> v]
      <4>1. recv \in [at : {recv.at}, sender : {p}, vote : {v}]
        BY <1>5
      <4>2. recv' \in [at : {"observe"}, sender : {p}, vote : {v}]
        BY <2>2, <4>1
      <4> QED
        BY <4>2
    <3>2. recv'.sender = p /\ recv'.vote = v
      BY <3>1
    <3> QED
      BY <1>5, <1>6, <3>1, <3>2 DEF VoteAnnounced
  <2> QED
    BY <1>1, <2>1, <2>2
<1>8. VotesCounted'
  <2>1. PICK u : u = votes
    OBVIOUS
  <2>2. \A q : Announced(q, u) => Announced(q, u)'
    BY <1>2, StaysAnnounced
  <2>3. \A q \in votes.supporters \ {Local} : Announced(q, votes)'
    BY <1>1, <2>1, <2>2 DEF SupportInv, VotesCounted
  <2> QED
    BY <1>1, <2>3 DEF SupportInv, VotesCounted
<1> QED
  BY <1>1, <1>7, <1>8, ConsensusSteps

(***************************************************************************)
(* The consensus: its operators keep a record of its form, whose           *)
(* supporters announced, and in which a met quorum has supporters enough.  *)
(***************************************************************************)
OnlyVotes(proposal, epoch, quorum, supporters, met, state, override) ==
    [proposal : {proposal}, epoch : {epoch}, quorum : {quorum}, supporters : {supporters},
     met : {met}, state : {state}, override : {override}]

Form(c) == c \in OnlyVotes(c.proposal, c.epoch, c.quorum, c.supporters, c.met, c.state, c.override)

WellCounted(c) ==
    /\ Form(c)
    /\ c.epoch \in Nat /\ c.quorum \in Nat
    /\ IsFiniteSet(c.supporters)
    /\ c.met => Cardinality(c.supporters) >= DefaultQuorum

(* No proposal asks for fewer supporters than the default quorum.          *)
LEMMA NeededIsEnough ==
    ASSUME NEW quorum \in Int
    PROVE  Needed(quorum) \in Nat /\ Needed(quorum) >= DefaultQuorum
  BY QuorumAssumption DEF Needed

(* Counting supporters again.                                              *)
LEMMA CountedWell ==
    ASSUME NEW c, Form(c), c.epoch \in Nat, c.quorum \in Nat, IsFiniteSet(c.supporters)
    PROVE  /\ WellCounted(Counted(c))
           /\ Counted(c).epoch = c.epoch /\ Counted(c).proposal = c.proposal
           /\ Counted(c).supporters = c.supporters
<1>1. PICK met : met = (Cardinality(c.supporters) >= Needed(c.quorum))
  OBVIOUS
<1>2. PICK e : e = [c EXCEPT !.met = met]
  OBVIOUS
<1>3. e = Counted(c)
  BY <1>1, <1>2 DEF Counted
<1>4. e \in OnlyVotes(c.proposal, c.epoch, c.quorum, c.supporters, met, c.state, c.override)
  BY <1>2 DEF Form, OnlyVotes
<1>5. /\ e.proposal = c.proposal /\ e.epoch = c.epoch /\ e.quorum = c.quorum
      /\ e.supporters = c.supporters /\ e.met = met /\ e.state = c.state /\ e.override = c.override
  BY <1>4 DEF OnlyVotes
<1>6. Form(e)
  BY <1>4, <1>5 DEF Form
<1>7. met => Cardinality(c.supporters) >= DefaultQuorum
  <2>1. Cardinality(c.supporters) \in Nat
    BY FS_CardinalityType
  <2>2. Needed(c.quorum) \in Nat /\ Needed(c.quorum) >= DefaultQuorum
    BY NeededIsEnough
  <2>3. met => Cardinality(c.supporters) >= Needed(c.quorum)
    BY <1>1, Zenon
  <2>4. Cardinality(c.supporters) >= Needed(c.quorum) => Cardinality(c.supporters) >= DefaultQuorum
    BY <2>1, <2>2, QuorumAssumption
  <2> QED
    BY <2>3, <2>4, Zenon
<1> QED
  BY <1>3, <1>5, <1>6, <1>7 DEF WellCounted

(* A change of how the state is called, or of the override.                *)
LEMMA RenamedWell ==
    ASSUME NEW c, WellCounted(c), NEW s, NEW d, d = [c EXCEPT !.state = s]
    PROVE  /\ WellCounted(d)
           /\ d.epoch = c.epoch /\ d.proposal = c.proposal /\ d.supporters = c.supporters
<1>1. d \in OnlyVotes(c.proposal, c.epoch, c.quorum, c.supporters, c.met, s, c.override)
  BY DEF WellCounted, Form, OnlyVotes
<1>2. /\ d.proposal = c.proposal /\ d.epoch = c.epoch /\ d.quorum = c.quorum
      /\ d.supporters = c.supporters /\ d.met = c.met /\ d.state = s /\ d.override = c.override
  BY <1>1 DEF OnlyVotes
<1>3. Form(d)
  BY <1>1, <1>2 DEF Form
<1> QED
  BY <1>2, <1>3 DEF WellCounted

(* The local safety override.                                              *)
LEMMA OverriddenWell ==
    ASSUME NEW c, WellCounted(c), NEW enabled, NEW d, d = set_local_safety_override(c, enabled)
    PROVE  /\ WellCounted(d)
           /\ d.epoch = c.epoch /\ d.proposal = c.proposal /\ d.supporters = c.supporters
<1>1. d \in OnlyVotes(c.proposal, c.epoch, c.quorum, c.supporters, c.met, c.state, enabled)
  BY DEF WellCounted, Form, OnlyVotes, set_local_safety_override
<1>2. /\ d.proposal = c.proposal /\ d.epoch = c.epoch /\ d.quorum = c.quorum
      /\ d.supporters = c.supporters /\ d.met = c.met /\ d.state = c.state /\ d.override = enabled
  BY <1>1 DEF OnlyVotes
<1>3. Form(d)
  BY <1>1, <1>2 DEF Form
<1> QED
  BY <1>2, <1>3 DEF WellCounted

(* The proposal of a later vote has no supporter yet; a supporter of the   *)
(* proposal in force is the sender of a vote for it.                       *)
LEMMA ObservedWell ==
    ASSUME NEW c, WellCounted(c), NEW sender, NEW vote, vote.epoch \in Nat, vote.quorum \in Int,
           NEW isolated, NEW d, d = observe_packet(c, sender, vote, isolated)
    PROVE  /\ WellCounted(d)
           /\ \A p \in d.supporters :
                  \/ p = sender /\ vote.epoch = d.epoch /\ vote.proposal = d.proposal
                  \/ p \in c.supporters /\ c.epoch = d.epoch /\ c.proposal = d.proposal
<1>1. PICK a : a = Adopted(c, vote)
  OBVIOUS
<1>2. /\ Form(a) /\ a.epoch \in Nat /\ a.quorum \in Nat /\ IsFiniteSet(a.supporters)
      /\ \A p \in a.supporters :
             p \in c.supporters /\ c.epoch = a.epoch /\ c.proposal = a.proposal
  <2>1. CASE vote.epoch > c.epoch
    <3>1. PICK quorum : quorum = Needed(vote.quorum)
      OBVIOUS
    <3>2. quorum \in Nat
      BY <3>1, NeededIsEnough
    <3>3. c \in OnlyVotes(c.proposal, c.epoch, c.quorum, c.supporters, c.met, c.state, c.override)
      BY DEF WellCounted, Form
    <3>4. a = [c EXCEPT !.proposal = vote.proposal, !.epoch = vote.epoch, !.quorum = quorum,
                        !.supporters = {}]
      BY <1>1, <2>1, <3>1 DEF Adopted
    <3>5. a \in OnlyVotes(vote.proposal, vote.epoch, quorum, {}, c.met, c.state, c.override)
      BY <3>3, <3>4 DEF OnlyVotes
    <3>6. /\ a.proposal = vote.proposal /\ a.epoch = vote.epoch /\ a.quorum = quorum
          /\ a.supporters = {} /\ a.met = c.met /\ a.state = c.state /\ a.override = c.override
      BY <3>5 DEF OnlyVotes
    <3>7. Form(a)
      BY <3>5, <3>6 DEF Form
    <3> QED
      BY <3>2, <3>6, <3>7, FS_EmptySet
  <2>2. CASE ~ vote.epoch > c.epoch
    <3>1. a = c
      BY <1>1, <2>2 DEF Adopted
    <3> QED
      BY <3>1 DEF WellCounted
  <2> QED
    BY <2>1, <2>2
<1>3. PICK s : s = Supported(a, sender, vote)
  OBVIOUS
<1>4. /\ Form(s) /\ s.epoch \in Nat /\ s.quorum \in Nat /\ IsFiniteSet(s.supporters)
      /\ s.epoch = a.epoch /\ s.proposal = a.proposal
      /\ \A p \in s.supporters :
             \/ p = sender /\ vote.epoch = s.epoch /\ vote.proposal = s.proposal
             \/ p \in a.supporters
  <2>1. CASE vote.epoch = a.epoch /\ vote.proposal = a.proposal
    <3>1. PICK more : more = a.supporters \union {sender}
      OBVIOUS
    <3>2. IsFiniteSet(more)
      BY <1>2, <3>1, FS_AddElement
    <3>3. s = [a EXCEPT !.supporters = more]
      BY <1>3, <2>1, <3>1 DEF Supported
    <3>4. s \in OnlyVotes(a.proposal, a.epoch, a.quorum, more, a.met, a.state, a.override)
      BY <1>2, <3>3 DEF Form, OnlyVotes
    <3>5. /\ s.proposal = a.proposal /\ s.epoch = a.epoch /\ s.quorum = a.quorum
          /\ s.supporters = more /\ s.met = a.met /\ s.state = a.state /\ s.override = a.override
      BY <3>4 DEF OnlyVotes
    <3>6. Form(s)
      BY <3>4, <3>5 DEF Form
    <3> QED
      BY <1>2, <2>1, <3>1, <3>2, <3>5, <3>6
  <2>2. CASE ~ (vote.epoch = a.epoch /\ vote.proposal = a.proposal)
    <3>1. s = a
      BY <1>3, <2>2 DEF Supported
    <3> QED
      BY <1>2, <3>1
  <2> QED
    BY <2>1, <2>2
<1>5. PICK n : n = Counted(s)
  OBVIOUS
<1>6. /\ WellCounted(n)
      /\ n.epoch = s.epoch /\ n.proposal = s.proposal /\ n.supporters = s.supporters
  BY <1>4, <1>5, CountedWell
<1>7. PICK state : d = [n EXCEPT !.state = state]
  <2>1. PICK state : state = IF n.met THEN "quorum_met"
                             ELSE IF isolated THEN "split_swarm_recovery" ELSE "quorum_pending"
    OBVIOUS
  <2>2. d = [n EXCEPT !.state = state]
    BY <1>1, <1>3, <1>5, <2>1 DEF observe_packet
  <2> QED
    BY <2>2
<1>8. WellCounted(d) /\ d.epoch = n.epoch /\ d.proposal = n.proposal /\ d.supporters = n.supporters
  BY <1>6, <1>7, RenamedWell
<1> QED
  BY <1>2, <1>4, <1>6, <1>8

(* Support that is withdrawn.                                              *)
LEMMA ExpiredWell ==
    ASSUME NEW c, WellCounted(c), NEW local, NEW fresh, NEW isolated,
           NEW d, d = expire(c, local, fresh, isolated)
    PROVE  /\ WellCounted(d)
           /\ d.supporters \subseteq c.supporters /\ d.epoch = c.epoch /\ d.proposal = c.proposal
<1>1. PICK left : left = Remaining(c, local, fresh)
  OBVIOUS
<1>2. left \subseteq c.supporters /\ IsFiniteSet(left)
  BY <1>1, FS_Subset DEF Remaining, WellCounted
<1>3. PICK s : s = [c EXCEPT !.supporters = left]
  OBVIOUS
<1>4. s \in OnlyVotes(c.proposal, c.epoch, c.quorum, left, c.met, c.state, c.override)
  BY <1>3 DEF WellCounted, Form, OnlyVotes
<1>5. /\ s.proposal = c.proposal /\ s.epoch = c.epoch /\ s.quorum = c.quorum
      /\ s.supporters = left /\ s.met = c.met /\ s.state = c.state /\ s.override = c.override
  BY <1>4 DEF OnlyVotes
<1>6. Form(s) /\ s.epoch \in Nat /\ s.quorum \in Nat
  BY <1>4, <1>5 DEF Form, WellCounted
<1>7. PICK n : n = Counted(s)
  OBVIOUS
<1>8. /\ WellCounted(n)
      /\ n.epoch = s.epoch /\ n.proposal = s.proposal /\ n.supporters = s.supporters
  BY <1>2, <1>5, <1>6, <1>7, CountedWell
<1>9. PICK state : d = [n EXCEPT !.state = state]
  <2>1. PICK state : state = IF isolated THEN "split_swarm_recovery"
                             ELSE IF fresh = {} THEN "isolated"
                             ELSE IF n.met THEN "quorum_met" ELSE "quorum_pending"
    OBVIOUS
  <2>2. d = [n EXCEPT !.state = state]
    BY <1>1, <1>3, <1>7, <2>1 DEF expire
  <2> QED
    BY <2>2
<1>10. WellCounted(d) /\ d.epoch = n.epoch /\ d.proposal = n.proposal /\ d.supporters = n.supporters
  BY <1>8, <1>9, RenamedWell
<1> QED
  BY <1>2, <1>5, <1>8, <1>10

(* A proposal of Local's own replaces the one in force.                    *)
LEMMA ProposedWell ==
    ASSUME NEW c, WellCounted(c), NEW local, NEW proposal, NEW epoch \in Nat, NEW quorum \in Int,
           NEW d, d = propose(c, local, proposal, epoch, quorum)
    PROVE  WellCounted(d) /\ d.supporters = {local}
<1>1. PICK needed : needed = Needed(quorum)
  OBVIOUS
<1>2. needed \in Nat /\ needed >= DefaultQuorum
  BY <1>1, NeededIsEnough
<1>3. PICK met : met = (1 >= needed)
  OBVIOUS
<1>4. PICK state : state = IF 1 >= needed THEN "quorum_met" ELSE "quorum_pending"
  OBVIOUS
<1>5. d = [c EXCEPT !.proposal = proposal, !.epoch = epoch, !.quorum = needed,
                    !.supporters = {local}, !.met = met, !.state = state]
  BY <1>1, <1>3, <1>4 DEF propose
<1>6. d \in OnlyVotes(proposal, epoch, needed, {local}, met, state, c.override)
  BY <1>5 DEF WellCounted, Form, OnlyVotes
<1>7. /\ d.proposal = proposal /\ d.epoch = epoch /\ d.quorum = needed
      /\ d.supporters = {local} /\ d.met = met /\ d.state = state /\ d.override = c.override
  BY <1>6 DEF OnlyVotes
<1>8. Form(d)
  BY <1>6, <1>7 DEF Form
<1>9. IsFiniteSet({local}) /\ Cardinality({local}) = 1
  BY FS_Singleton
<1>10. met => 1 >= needed
  BY <1>3, Zenon
<1>11. 1 >= needed => 1 >= DefaultQuorum
  BY <1>2, QuorumAssumption
<1>12. d.met => Cardinality(d.supporters) >= DefaultQuorum
  BY <1>7, <1>9, <1>10, <1>11, Zenon
<1> QED
  BY <1>2, <1>7, <1>8, <1>9, <1>12 DEF WellCounted

(***************************************************************************)
(* The steps that count votes.                                             *)
(***************************************************************************)
LEMMA CountedVotes ==
    VotesCounted <=> /\ WellCounted(votes)
                     /\ \A p \in votes.supporters \ {Local} : Announced(p, votes)
<1>1. PICK c : c = votes
  OBVIOUS
<1>2. Form(c) <=> c = [proposal |-> c.proposal, epoch |-> c.epoch, quorum |-> c.quorum,
                       supporters |-> c.supporters, met |-> c.met, state |-> c.state,
                       override |-> c.override]
  BY DEF Form, OnlyVotes
<1> QED
  BY <1>1, <1>2 DEF VotesCounted, WellCounted

(* The votes after a step are well counted, and whoever supports them is   *)
(* Local, supported the same before, or has announced them.                *)
LEMMA CountsWell ==
    ASSUME IInv, SupportInv, UNCHANGED sealed, NEW d, votes' = d, WellCounted(d),
           \A p \in d.supporters \ {Local} :
               \/ Announced(p, d)
               \/ p \in votes.supporters /\ votes.epoch = d.epoch /\ votes.proposal = d.proposal
    PROVE  VotesCounted'
<1>1. PICK c : c = votes
  OBVIOUS
<1>2. \A p \in c.supporters \ {Local} : Announced(p, c)
  BY <1>1 DEF SupportInv, VotesCounted
<1>3. SealedGrows
  BY SameSealed
<1>4. ASSUME NEW p \in d.supporters \ {Local} PROVE Announced(p, d)'
  <2>1. CASE Announced(p, d)
    BY <1>3, <2>1, StaysAnnounced
  <2>2. CASE p \in c.supporters /\ c.epoch = d.epoch /\ c.proposal = d.proposal
    BY <1>2, <1>3, <2>2, StaysAnnounced
  <2> QED
    BY <1>1, <2>1, <2>2
<1>5. WellCounted(votes') /\ \A p \in votes'.supporters \ {Local} : Announced(p, votes)'
  BY <1>4
<1>6. VotesCounted' <=> /\ WellCounted(votes')
                        /\ \A p \in votes'.supporters \ {Local} : Announced(p, votes)'
  <2>1. Form(d) <=> d = [proposal |-> d.proposal, epoch |-> d.epoch, quorum |-> d.quorum,
                         supporters |-> d.supporters, met |-> d.met, state |-> d.state,
                         override |-> d.override]
    BY DEF Form, OnlyVotes
  <2> QED
    BY <2>1 DEF VotesCounted, WellCounted
<1> QED
  BY <1>5, <1>6

(* The vote is counted, whatever was proposed and expired since it was     *)
(* looked up.                                                              *)
LEMMA ObserveSupports ==
    ASSUME IInv, SupportInv, Observe
    PROVE  SupportInv'
<1>1. /\ recv.at = "observe" /\ recv' = Idle
      /\ votes' = observe_packet(votes, recv.sender, recv.vote, Isolated)
      /\ UNCHANGED <<profile, now, sealed, thread>>
  BY DEF Observe
<1>2. PICK c, d, sender, vote, isolated :
          /\ c = votes /\ sender = recv.sender /\ vote = recv.vote /\ isolated = Isolated
          /\ d = observe_packet(c, sender, vote, isolated)
  OBVIOUS
<1>3. votes' = d
  BY <1>1, <1>2
<1>4. recv # Idle
  BY <1>1 DEF Idle
<1>5. vote.epoch \in Nat /\ vote.quorum \in Int /\ Announced(sender, vote)
  BY <1>2, <1>4 DEF SupportInv, VoteAnnounced
<1>6. WellCounted(c)
  BY <1>2, CountedVotes DEF SupportInv
<1>7. /\ WellCounted(d)
      /\ \A p \in d.supporters :
             \/ p = sender /\ vote.epoch = d.epoch /\ vote.proposal = d.proposal
             \/ p \in c.supporters /\ c.epoch = d.epoch /\ c.proposal = d.proposal
  BY <1>2, <1>5, <1>6, ObservedWell
<1>8. vote.epoch = d.epoch /\ vote.proposal = d.proposal => Announced(sender, d)
  BY <1>5 DEF Announced
<1>9. VotesCounted'
  BY <1>1, <1>2, <1>3, <1>7, <1>8, CountsWell
<1>10. VoteAnnounced'
  BY <1>1 DEF VoteAnnounced
<1> QED
  BY <1>1, <1>9, <1>10, ConsensusSteps

(* Support that is withdrawn, a proposal of Local's own, the override.     *)
LEMMA CountingSupports ==
    ASSUME IInv, SupportInv,
           \/ ExpireVotes
           \/ \E v \in profile.proposals : Propose(v.proposal, v.epoch, v.quorum)
           \/ \E enabled \in BOOLEAN : SetOverride(enabled)
    PROVE  SupportInv'
<1>1. UNCHANGED <<profile, now, sealed, thread, recv>>
  BY DEF ExpireVotes, Propose, SetOverride
<1>2. PICK c : c = votes
  OBVIOUS
<1>3. WellCounted(c)
  BY <1>2, CountedVotes DEF SupportInv
<1>4. ASSUME ExpireVotes PROVE VotesCounted'
  <2>1. PICK d : d = expire(c, Local, Fresh, Isolated)
    OBVIOUS
  <2>2. votes' = d
    BY <1>2, <1>4, <2>1 DEF ExpireVotes
  <2>3. PICK fresh, isolated : fresh = Fresh /\ isolated = Isolated
    OBVIOUS
  <2>4. d = expire(c, Local, fresh, isolated)
    BY <2>1, <2>3
  <2>5. /\ WellCounted(d)
        /\ d.supporters \subseteq c.supporters /\ d.epoch = c.epoch /\ d.proposal = c.proposal
    BY <1>3, <2>4, ExpiredWell
  <2> QED
    BY <1>1, <1>2, <2>2, <2>5, CountsWell
<1>5. ASSUME NEW v \in profile.proposals, Propose(v.proposal, v.epoch, v.quorum) PROVE VotesCounted'
  <2>1. PICK d : d = propose(c, Local, v.proposal, v.epoch, v.quorum)
    OBVIOUS
  <2>2. votes' = d
    BY <1>2, <1>5, <2>1 DEF Propose
  <2>3. v.epoch \in Nat /\ v.quorum \in Int
    <3>1. profile \in Profiles
      BY DEF IInv, Typed
    <3> QED
      BY <3>1, MeshAssumption
  <2>4. PICK epoch \in Nat, quorum \in Int : epoch = v.epoch /\ quorum = v.quorum
    BY <2>3
  <2>5. WellCounted(d) /\ d.supporters = {Local}
    BY <1>3, <2>1, <2>4, ProposedWell
  <2> QED
    BY <1>1, <2>2, <2>5, CountsWell
<1>6. ASSUME NEW enabled \in BOOLEAN, SetOverride(enabled) PROVE VotesCounted'
  <2>1. PICK d : d = set_local_safety_override(c, enabled)
    OBVIOUS
  <2>2. votes' = d
    BY <1>2, <1>6, <2>1 DEF SetOverride
  <2>3. /\ WellCounted(d)
        /\ d.epoch = c.epoch /\ d.proposal = c.proposal /\ d.supporters = c.supporters
    BY <1>3, <2>1, OverriddenWell
  <2> QED
    BY <1>1, <1>2, <2>2, <2>3, CountsWell
<1>7. VoteAnnounced'
  BY <1>1 DEF SupportInv, VoteAnnounced, Announced
<1> QED
  BY <1>1, <1>4, <1>5, <1>6, <1>7, ConsensusSteps

(* Nobody supports anything at the start.                                  *)
LEMMA FreshConsensus ==
    ASSUME votes = InitConsensus
    PROVE  VotesCounted
<1>1. DefaultQuorum \in Nat
  BY QuorumAssumption
<1> QED
  BY <1>1, FS_EmptySet DEF InitConsensus, VotesCounted

LEMMA RestartLocalSupports ==
    ASSUME IInv, SupportInv, RestartLocal
    PROVE  SupportInv'
<1>1. /\ UNCHANGED <<profile, now, sealed, thread>>
      /\ recv' = Idle /\ votes' = InitConsensus
  BY DEF RestartLocal
<1>2. VoteAnnounced'
  BY <1>1 DEF VoteAnnounced
<1>3. PICK d : d = InitConsensus
  OBVIOUS
<1>4. WellCounted(d) /\ d.supporters = {}
  BY <1>3, FS_EmptySet DEF InitConsensus, WellCounted, Form, OnlyVotes
<1>5. VotesCounted'
  BY <1>1, <1>3, <1>4, CountsWell
<1> QED
  BY <1>1, <1>2, <1>5, ConsensusSteps

LEMMA OtherLocalStepsSupport ==
    ASSUME IInv, SupportInv,
           \/ ExpireCache \/ Save \/ Load \/ Tick \/ UNCHANGED vars
           \/ \E views \in profile.views, moved \in BOOLEAN : AddFrame(views, moved)
    PROVE  SupportInv'
<1>1. UNCHANGED <<profile, sealed, thread, recv, votes>>
  BY DEF ExpireCache, Save, Load, Tick, AddFrame, vars
<1>2. now' \in Nat
  <2>1. now \in Nat /\ (now' = now \/ now' = now + 1)
    BY DEF SupportInv, ExpireCache, Save, Load, Tick, AddFrame, vars
  <2> QED
    BY <2>1
<1>3. ThreadsSign'
  BY <1>1, ThreadsGoOn
<1> QED
  BY <1>1, <1>2, <1>3, SupportUntouched

(***************************************************************************)
(* The invariant.                                                          *)
(***************************************************************************)
LEMMA InitSupportInv == Init => SupportInv
<1> SUFFICES ASSUME Init PROVE SupportInv
  OBVIOUS
<1>1. /\ sealed = <<>> /\ now = 2 /\ recv = Idle /\ votes = InitConsensus
      /\ thread = [p \in Peers |-> [t \in Threads |-> Idle]]
  BY DEF Init
<1>2. PacketsFormed
  BY <1>1, EmptySeq DEF PacketsFormed
<1>3. ThreadsSign
  BY <1>1 DEF ThreadsSign
<1>4. VoteAnnounced
  BY <1>1 DEF VoteAnnounced
<1> QED
  BY <1>1, <1>2, <1>3, <1>4, FreshConsensus DEF SupportInv

LEMMA StepSupportInv == ASSUME IInv, SupportInv, [Next]_vars PROVE SupportInv'
<1>1. ASSUME NEW p \in Peers, NEW msg \in profile.messages, Broadcast(p, msg) PROVE SupportInv'
  BY <1>1, BroadcastSupports
<1>2. ASSUME NEW p \in Peers, NEW t \in Threads, FinishSeal(p, t) PROVE SupportInv'
  BY <1>2, FinishSealSupports
<1>3. CASE PeerSteps
  BY <1>1, <1>2, <1>3, OtherPeerStepsSupport DEF PeerSteps
<1>4. ASSUME NEW i \in 1 .. Len(air), Receive(i) PROVE SupportInv'
  BY <1>4, ReceiveSupports
<1>5. CASE LocalSteps
  BY <1>4, <1>5, LookUpSupports, ObserveSupports, CountingSupports, RestartLocalSupports,
     OtherLocalStepsSupport DEF LocalSteps
<1>6. CASE UNCHANGED vars
  BY <1>6, OtherLocalStepsSupport
<1> QED
  BY <1>3, <1>5, <1>6 DEF Next

LEMMA AlwaysSupportInv == Spec => [](IInv /\ SupportInv)
<1>1. Init => IInv /\ SupportInv
  BY InitIInv, InitSupportInv
<1>2. (IInv /\ SupportInv) /\ [Next]_vars => (IInv /\ SupportInv)'
  BY StepIInv, StepSupportInv
<1> QED
  BY <1>1, <1>2, PTL DEF Spec

(* signPacket(), the serializers, the parsers and verifyPacket() agree for *)
(* every configuration of the two ends: of the packets on the air, however *)
(* often and late they arrive, verification passes exactly those that a    *)
(* sender trusted by the receiver built and signed, that are of its trust  *)
(* epoch and in their lifetime, and that arrive saying what was built.     *)
THEOREM GenuineIsVerified == Spec => []VerifiedIffGenuine
<1>1. IInv /\ SupportInv => VerifiedIffGenuine
  BY FormedIsGenuine
<1> QED
  BY <1>1, AlwaysSupportInv, PTL

(* EdgeConsensusManager never counts who did not vote: every supporter but *)
(* the drone itself has broadcast the proposal in force with its epoch,    *)
(* though votes are admitted, looked up and counted in steps between which *)
(* proposals change and support expires; and a collective action is taken  *)
(* only with as many supporters as the default quorum asks for.            *)
THEOREM SupportIsReal == Spec => []SupportersSupport
<1>1. SupportInv => SupportersSupport
  BY DEF SupportInv, VotesCounted, SupportersSupport, should_apply_collective_action
<1> QED
  BY <1>1, AlwaysSupportInv, PTL

(* Every set of numbers that is not empty has a least one, which is how    *)
(* induction is done below.                                                *)
LEMMA LeastExists ==
    ASSUME NEW T, T \subseteq Nat, T # {}
    PROVE  \E x \in T : \A y \in T : x <= y
<1> DEFINE R == OpToRel(<, Nat)
<1>1. IsWellFoundedOn(R, Nat)
  BY NatLessThanWellFounded
<1>2. \A x, y \in Nat : x < y => <<x, y>> \in R
  BY DEF OpToRel
<1> HIDE DEF R
<1>3. PICK x \in T : \A y \in T : ~ (<<y, x>> \in R)
  BY <1>1, WFMin
<1>4. \A y \in T : ~ (y < x)
  BY <1>2, <1>3
<1> QED
  BY <1>4

(* after says, of the first n rows, what AfterRows says of all of them.    *)
AfterFirst(m, views, n, after) ==
    after = [r \in 0 .. n |-> IF r = 0 THEN {[m |-> m, ids |-> <<>>]}
                              ELSE UNION {Associated(out, views[r]) : out \in after[r - 1]}]

(* There is such a function for any number of rows: it is extended row by  *)
(* row.                                                                    *)
LEMMA AfterAny ==
    ASSUME NEW m, NEW views, NEW n \in Nat
    PROVE  \E after : AfterFirst(m, views, n, after)
<1> SUFFICES ASSUME ~ \E after : AfterFirst(m, views, n, after) PROVE FALSE
  OBVIOUS
<1> DEFINE T == {k \in Nat : ~ \E after : AfterFirst(m, views, k, after)}
<1>1. PICK k \in T : \A l \in T : k <= l
  <2>1. T \subseteq Nat /\ T # {}
    OBVIOUS
  <2> QED
    BY <2>1, LeastExists
<1>2. k # 0
  <2> DEFINE f == [r \in 0 .. 0 |-> {[m |-> m, ids |-> <<>>]}]
  <2>1. AfterFirst(m, views, 0, f)
    BY DEF AfterFirst
  <2> QED
    BY <2>1
<1>3. k - 1 \in Nat /\ k - 1 \notin T
  BY <1>1, <1>2
<1>4. PICK f : AfterFirst(m, views, k - 1, f)
  BY <1>3
<1> DEFINE g == [r \in 0 .. k |-> IF r = k THEN UNION {Associated(out, views[k]) : out \in f[k - 1]}
                                  ELSE f[r]]
<1>5. /\ DOMAIN g = 0 .. k
      /\ g[0] = {[m |-> m, ids |-> <<>>]}
      /\ \A r \in 1 .. k : g[r] = UNION {Associated(out, views[r]) : out \in g[r - 1]}
  <2>1. DOMAIN g = 0 .. k
    OBVIOUS
  <2>2. g[0] = {[m |-> m, ids |-> <<>>]}
    BY <1>2, <1>3, <1>4 DEF AfterFirst
  <2>3. ASSUME NEW r \in 1 .. k PROVE g[r] = UNION {Associated(out, views[r]) : out \in g[r - 1]}
    <3>1. g[r - 1] = f[r - 1]
      OBVIOUS
    <3>2. CASE r = k
      BY <3>1, <3>2
    <3>3. CASE r # k
      <4>1. f[r] = UNION {Associated(out, views[r]) : out \in f[r - 1]}
        <5>1. r \in 0 .. k - 1 /\ r # 0
          BY <3>3
        <5> QED
          BY <1>4, <5>1 DEF AfterFirst
      <4>2. g[r] = f[r]
        BY <3>3
      <4> QED
        BY <3>1, <4>1, <4>2
    <3> QED
      BY <3>2, <3>3
  <2> QED
    BY <2>1, <2>2, <2>3
<1>6. g = [r \in DOMAIN g |-> g[r]]
  OBVIOUS
<1> HIDE DEF g
<1>7. AfterFirst(m, views, k, g)
  <2>1. \A r \in 0 .. k : g[r] = IF r = 0 THEN {[m |-> m, ids |-> <<>>]}
                                 ELSE UNION {Associated(out, views[r]) : out \in g[r - 1]}
    <3> TAKE r \in 0 .. k
    <3>1. CASE r = 0
      BY <1>5, <3>1
    <3>2. CASE r # 0
      <4>1. r \in 1 .. k
        BY <3>2
      <4> QED
        BY <1>5, <3>2, <4>1
    <3> QED
      BY <3>1, <3>2
  <2> QED
    BY <1>5, <1>6, <2>1 DEF AfterFirst
<1> QED
  BY <1>1, <1>7

(* So AfterRows says what its definition does.                             *)
LEMMA AfterAll ==
    ASSUME NEW m, NEW views, Len(views) \in Nat
    PROVE  AfterFirst(m, views, Len(views), AfterRows(m, views))
<1>1. \E after : AfterFirst(m, views, Len(views), after)
  BY AfterAny
<1>2. AfterRows(m, views) = CHOOSE after : AfterFirst(m, views, Len(views), after)
  BY DEF AfterRows, AfterFirst
<1> QED
  BY <1>1, <1>2

(***************************************************************************)
(* Rows become observations.                                               *)
(***************************************************************************)
OnlyMap(local, remote, points, kfNext, mpNext, placed, candidates) ==
    [local : {local}, remote : {remote}, points : {points}, kfNext : {kfNext}, mpNext : {mpNext},
     placed : {placed}, candidates : {candidates}]

MapForm(m) == m \in OnlyMap(m.local, m.remote, m.points, m.kfNext, m.mpNext, m.placed, m.candidates)

(* Points are added and none is changed.                                   *)
Adds(points, more) ==
    /\ DOMAIN points \subseteq DOMAIN more
    /\ \A i \in DOMAIN points : more[i] = points[i]

(* The points of a map, each below the next number.                        *)
Numbered(points, next) ==
    /\ PointsFormed(points) /\ next \in Nat
    /\ \A i \in DOMAIN points : i < next

(* What the first r rows lead to.                                          *)
RowsDone(m, views, r, out) ==
    /\ out \in [m : {out.m}, ids : {out.ids}]
    /\ out.m \in OnlyMap(m.local, m.remote, out.m.points, m.kfNext, out.m.mpNext, m.placed, m.candidates)
    /\ Numbered(out.m.points, out.m.mpNext)
    /\ Adds(m.points, out.m.points)
    /\ out.ids \in Seq(Nat) /\ Len(out.ids) = r
    /\ \A k \in 1 .. r : views[k] # Noise => /\ out.ids[k] \in DOMAIN out.m.points
                                             /\ out.m.points[out.ids[k]] = views[k]

(* A point with a new number joins the others.                             *)
LEMMA PointAdded ==
    ASSUME NEW points, NEW next, Numbered(points, next), NEW view \in View,
           NEW more, more = Placed(points, next, view)
    PROVE  /\ Numbered(more, next + 1) /\ Adds(points, more)
           /\ next \in DOMAIN more /\ more[next] = view
<1>1. next \in Nat /\ next \notin DOMAIN points
  BY DEF Numbered
<1>2. more = [i \in {next} \union DOMAIN points |-> IF i \in DOMAIN points THEN points[i] ELSE view]
  BY <1>1 DEF Placed
<1>3. DOMAIN more = DOMAIN points \union {next}
  BY <1>2
<1>4. IsFiniteSet(DOMAIN more)
  <2>1. IsFiniteSet(DOMAIN points)
    BY DEF Numbered, PointsFormed
  <2> QED
    BY <1>3, <2>1, FS_AddElement
<1>5. more \in [DOMAIN more -> View] /\ DOMAIN more \subseteq Nat
  BY <1>1, <1>2, <1>3 DEF Numbered, PointsFormed
<1>6. \A i \in DOMAIN more : i < next + 1
  BY <1>1, <1>3 DEF Numbered, PointsFormed
<1>7. Adds(points, more) /\ more[next] = view
  BY <1>1, <1>2, <1>3 DEF Adds
<1> QED
  BY <1>1, <1>3, <1>4, <1>5, <1>6, <1>7 DEF Numbered, PointsFormed

(* One more row, with a point found or made.                               *)
LEMMA RowAssociated ==
    ASSUME NEW m, MapForm(m), NEW views \in Seq(View), NEW r \in 1 .. Len(views),
           NEW out, RowsDone(m, views, r - 1, out),
           NEW next \in Associated(out, views[r])
    PROVE  RowsDone(m, views, r, next)
<1>1. PICK n, ids, points, number, view : n = out.m /\ ids = out.ids /\ points = n.points
                              /\ number = n.mpNext /\ view = views[r]
  OBVIOUS
<1>2. /\ n \in OnlyMap(m.local, m.remote, points, m.kfNext, number, m.placed, m.candidates)
      /\ Numbered(points, number) /\ Adds(m.points, points)
      /\ ids \in Seq(Nat) /\ Len(ids) = r - 1
      /\ \A k \in 1 .. r - 1 : views[k] # Noise => /\ ids[k] \in DOMAIN points
                                                   /\ points[ids[k]] = views[k]
  BY <1>1 DEF RowsDone
<1>3. view \in View /\ r \in Nat
  BY <1>1
<1>4. ASSUME NEW i \in Nat
      PROVE  /\ Append(ids, i) \in Seq(Nat) /\ Len(Append(ids, i)) = r
             /\ Append(ids, i)[r] = i
             /\ \A k \in 1 .. r - 1 : Append(ids, i)[k] = ids[k]
  BY <1>2, <1>3
<1>5. ASSUME NEW i \in Resembling(points, view), next = [m |-> n, ids |-> Append(ids, i)]
      PROVE  RowsDone(m, views, r, next)
  <2>1. i \in Nat /\ i \in DOMAIN points /\ points[i] = view
    BY <1>2, <1>5 DEF Resembling, Numbered, PointsFormed
  <2>2. PICK all : all = Append(ids, i)
    OBVIOUS
  <2>3. next.m = n /\ next.ids = all /\ next \in [m : {next.m}, ids : {next.ids}]
    BY <1>5, <2>2
  <2>4. \A k \in 1 .. r : views[k] # Noise => all[k] \in DOMAIN points /\ points[all[k]] = views[k]
    <3> SUFFICES ASSUME NEW k \in 1 .. r, views[k] # Noise
                 PROVE  all[k] \in DOMAIN points /\ points[all[k]] = views[k]
      OBVIOUS
    <3>1. CASE k = r
      BY <1>1, <1>4, <2>1, <2>2, <3>1
    <3>2. CASE k \in 1 .. r - 1
      BY <1>2, <1>4, <2>1, <2>2, <3>2
    <3> QED
      BY <1>3, <3>1, <3>2
  <2>5. all \in Seq(Nat) /\ Len(all) = r
    BY <1>4, <2>1, <2>2
  <2>6. n.points = points /\ n.mpNext = number
    BY <1>1
  <2> QED
    BY <1>2, <2>3, <2>4, <2>5, <2>6 DEF RowsDone
<1>6. ASSUME next = [m |-> WithPoint(n, view), ids |-> Append(ids, number)]
      PROVE  RowsDone(m, views, r, next)
  <2>1. PICK more : more = Placed(points, number, view)
    OBVIOUS
  <2>2. /\ Numbered(more, number + 1) /\ Adds(points, more)
        /\ number \in DOMAIN more /\ more[number] = view
    BY <1>2, <1>3, <2>1, PointAdded
  <2>3. PICK n1 : n1 = WithPoint(n, view)
    OBVIOUS
  <2>4. PICK after : after = number + 1
    OBVIOUS
  <2>5. n1 = [n EXCEPT !.points = more, !.mpNext = after]
    BY <1>1, <2>1, <2>3, <2>4 DEF WithPoint
  <2>6. n1 \in OnlyMap(m.local, m.remote, more, m.kfNext, after, m.placed, m.candidates)
    BY <1>2, <2>5 DEF OnlyMap
  <2>7. n1.points = more /\ n1.mpNext = after
    BY <2>6 DEF OnlyMap
  <2>8. PICK all : all = Append(ids, number)
    OBVIOUS
  <2>9. next.m = n1 /\ next.ids = all /\ next \in [m : {next.m}, ids : {next.ids}]
    BY <1>6, <2>3, <2>8
  <2>10. number \in Nat
    BY <1>2 DEF Numbered
  <2>11. \A k \in 1 .. r : views[k] # Noise => all[k] \in DOMAIN more /\ more[all[k]] = views[k]
    <3> SUFFICES ASSUME NEW k \in 1 .. r, views[k] # Noise
                 PROVE  all[k] \in DOMAIN more /\ more[all[k]] = views[k]
      OBVIOUS
    <3>1. CASE k = r
      BY <1>1, <1>4, <2>2, <2>8, <2>10, <3>1
    <3>2. CASE k \in 1 .. r - 1
      BY <1>2, <1>4, <2>2, <2>8, <2>10, <3>2 DEF Adds
    <3> QED
      BY <1>3, <3>1, <3>2
  <2>12. all \in Seq(Nat) /\ Len(all) = r
    BY <1>4, <2>8, <2>10
  <2>13. Adds(m.points, more)
    BY <1>2, <2>2 DEF Adds
  <2>14. Numbered(more, after)
    BY <2>2, <2>4
  <2> QED
    BY <2>6, <2>7, <2>9, <2>11, <2>12, <2>13, <2>14 DEF RowsDone
<1> QED
  BY <1>1, <1>5, <1>6 DEF Associated

(* All rows, one after the other.                                          *)
LEMMA RowsAssociated ==
    ASSUME NEW m, MapForm(m), Numbered(m.points, m.mpNext), NEW views \in Seq(View),
           NEW out \in Observations(m, views)
    PROVE  RowsDone(m, views, Len(views), out)
<1>1. PICK after, size : after = AfterRows(m, views) /\ size = Len(views) /\ size \in Nat
  OBVIOUS
<1>2. AfterFirst(m, views, size, after)
  BY <1>1, AfterAll
<1> DEFINE Bad == {r \in 0 .. size : \E o \in after[r] : ~ RowsDone(m, views, r, o)}
<1>3. Bad = {}
  <2> SUFFICES ASSUME Bad # {} PROVE FALSE
    OBVIOUS
  <2>1. PICK r \in Bad : \A l \in Bad : r <= l
    <3>1. Bad \subseteq Nat
      OBVIOUS
    <3> QED
      BY <3>1, LeastExists
  <2>2. r \in 0 .. size
    OBVIOUS
  <2>3. PICK o \in after[r] : ~ RowsDone(m, views, r, o)
    OBVIOUS
  <2>4. CASE r = 0
    <3>1. o = [m |-> m, ids |-> <<>>]
      BY <1>2, <2>3, <2>4 DEF AfterFirst
    <3>2. o.m = m /\ o.ids = <<>> /\ o \in [m : {o.m}, ids : {o.ids}]
      BY <3>1
    <3>3. o.ids \in Seq(Nat) /\ Len(o.ids) = 0
      BY <3>2
    <3>4. RowsDone(m, views, 0, o)
      BY <3>2, <3>3 DEF RowsDone, MapForm, Adds
    <3> QED
      BY <2>3, <2>4, <3>4
  <2>5. CASE r # 0
    <3>1. r - 1 \in 0 .. size /\ r - 1 \notin Bad /\ r \in 1 .. Len(views)
      BY <1>1, <2>1, <2>2, <2>5
    <3>2. \A p \in after[r - 1] : RowsDone(m, views, r - 1, p)
      BY <3>1
    <3>3. after[r] = UNION {Associated(p, views[r]) : p \in after[r - 1]}
      BY <1>2, <2>2, <2>5 DEF AfterFirst
    <3>4. PICK p \in after[r - 1] : o \in Associated(p, views[r])
      BY <2>3, <3>3
    <3>5. RowsDone(m, views, r, o)
      BY <3>1, <3>2, <3>4, RowAssociated
    <3> QED
      BY <2>3, <3>5
  <2> QED
    BY <2>4, <2>5
<1>4. out \in after[size]
  BY <1>1 DEF Observations
<1> QED
  BY <1>1, <1>3, <1>4

(***************************************************************************)
(* Numbers given out next.                                                 *)
(***************************************************************************)
LEMMA FirstBounded ==
    ASSUME NEW f, NEW n \in Nat, \A i \in 1 .. n : f[i] \in Nat
    PROVE  \E b \in Nat : \A i \in 1 .. n : f[i] <= b
<1> SUFFICES ASSUME ~ \E b \in Nat : \A i \in 1 .. n : f[i] <= b PROVE FALSE
  OBVIOUS
<1> DEFINE T == {k \in 0 .. n : ~ \E b \in Nat : \A i \in 1 .. k : f[i] <= b}
<1>1. T \subseteq Nat /\ n \in T
  OBVIOUS
<1>2. PICK k \in T : \A l \in T : k <= l
  BY <1>1, LeastExists
<1>3. k # 0
  <2>1. \A i \in 1 .. 0 : f[i] <= 0
    OBVIOUS
  <2> QED
    BY <2>1
<1>4. k \in 1 .. n /\ k - 1 \in 0 .. n /\ k - 1 \notin T
  <2>1. k \in 0 .. n
    OBVIOUS
  <2>2. k \in 1 .. n /\ k - 1 \in 0 .. n /\ ~ (k <= k - 1)
    BY <1>3, <2>1
  <2> QED
    BY <1>2, <2>2
<1>5. PICK b \in Nat : \A i \in 1 .. k - 1 : f[i] <= b
  BY <1>4
<1>6. PICK c \in Nat : c >= b /\ c >= f[k]
  <2>1. f[k] \in Nat
    BY <1>4
  <2>2. CASE f[k] >= b
    BY <2>1, <2>2
  <2>3. CASE ~ (f[k] >= b)
    BY <2>1, <2>3
  <2> QED
    BY <2>2, <2>3
<1>7. ASSUME NEW i \in 1 .. k PROVE f[i] <= c
  <2>1. CASE i = k
    BY <1>4, <1>6, <2>1
  <2>2. CASE i # k
    <3>1. i \in 1 .. k - 1 /\ f[i] \in Nat
      BY <1>4, <2>2
    <3> QED
      BY <1>5, <1>6, <3>1
  <2> QED
    BY <2>1, <2>2
<1> QED
  BY <1>2, <1>7

(* So finitely many numbers have a highest one.                            *)
LEMMA HighestIsHighest ==
    ASSUME NEW numbers, numbers \subseteq Nat, IsFiniteSet(numbers)
    PROVE  Highest(numbers) \in Nat /\ \A other \in numbers : other <= Highest(numbers)
<1>1. PICK b \in Nat : \A x \in numbers : x <= b
  <2>1. PICK n \in Nat : ExistsSurjection(1 .. n, numbers)
    BY FS_NatSurjection
  <2>2. PICK f \in [1 .. n -> numbers] : \A x \in numbers : \E i \in 1 .. n : f[i] = x
    BY <2>1 DEF ExistsSurjection, Surjection
  <2>3. \A i \in 1 .. n : f[i] \in Nat
    BY <2>2
  <2>4. PICK b \in Nat : \A i \in 1 .. n : f[i] <= b
    BY <2>1, <2>3, FirstBounded
  <2> QED
    BY <2>2, <2>4
<1> DEFINE U == {u \in Nat : \A x \in numbers : x <= u}
<1>2. PICK u \in U : \A v \in U : u <= v
  <2>1. U \subseteq Nat /\ U # {}
    BY <1>1
  <2> QED
    BY <2>1, LeastExists
<1>3. u \in numbers \union {0}
  <2> SUFFICES ASSUME u \notin numbers, u # 0 PROVE FALSE
    OBVIOUS
  <2>1. u - 1 \in Nat
    OBVIOUS
  <2>2. \A x \in numbers : x <= u - 1
    OBVIOUS
  <2> QED
    BY <1>2, <2>1, <2>2
<1>4. \E n \in numbers \union {0} : \A other \in numbers : other <= n
  BY <1>3
<1>5. /\ Highest(numbers) \in numbers \union {0}
      /\ \A other \in numbers : other <= Highest(numbers)
  BY <1>4 DEF Highest
<1>6. numbers \union {0} \subseteq Nat
  OBVIOUS
<1> QED
  BY <1>5, <1>6

(***************************************************************************)
(* Keyframes that are sent, saved, stored.                                 *)
(***************************************************************************)
LEMMA SequenceOf ==
    ASSUME NEW n \in Nat, NEW f, f = [i \in 1 .. n |-> f[i]]
    PROVE  f \in Seq(ToSet(f)) /\ Len(f) = n
<1>1. DOMAIN f = 1 .. n
  OBVIOUS
<1>2. \A i \in 1 .. n : f[i] \in ToSet(f)
  BY <1>1 DEF ToSet
<1>3. f \in [1 .. n -> ToSet(f)]
  BY <1>2
<1> QED
  BY <1>3

(* The decoder keeps number, drone and rows.                               *)
LEMMA DecodedAlike ==
    ASSUME NEW payload, NEW kf, kf = decode_keyframe(payload)
    PROVE  /\ kf.id = payload.id /\ kf.drone = payload.drone
           /\ kf.views = payload.views /\ kf.points = payload.points
           /\ kf \in [id : {kf.id}, drone : {kf.drone}, views : {kf.views}, points : {kf.points},
                      shared : BOOLEAN]
BY DEF decode_keyframe, NewKeyframe

(* The encoder garbles rows, but what it leaves readable is right.         *)
LEMMA EncodedWell ==
    ASSUME NEW kf, RowsFormed(kf), NEW e, e = encode_keyframe(kf)
    PROVE  /\ RowsFormed(e) /\ e.id = kf.id /\ e.drone = kf.drone
           /\ \A points : RowsNamed(kf, points) => RowsNamed(e, points)
<1>1. PICK n, views, points : n = Kept(kf) /\ views = kf.views /\ points = kf.points
  OBVIOUS
<1>2. /\ views \in Seq(View) /\ points \in Seq(Nat) /\ Len(points) = Len(views)
      /\ kf.id \in Nat
  BY <1>1 DEF RowsFormed
<1>3. n \in Nat /\ n <= Len(views)
  BY <1>1, <1>2, KeyframeAssumption DEF Kept
<1>4. PICK v, p : /\ v = [r \in 1 .. n |-> IF r = 1 THEN views[r] ELSE Noise]
                  /\ p = [r \in 1 .. n |-> IF r = 1 THEN points[r] ELSE NoPoint]
  OBVIOUS
<1>5. /\ e.id = kf.id /\ e.drone = kf.drone /\ e.views = v /\ e.points = p
  BY <1>1, <1>4 DEF encode_keyframe
<1>6. /\ v \in Seq(View) /\ Len(v) = n
  <2>1. \A r \in 1 .. n : (IF r = 1 THEN views[r] ELSE Noise) \in View
    <3>1. Noise \in View
      BY DEF View
    <3>2. 1 \in 1 .. n => views[1] \in View
      BY <1>2, <1>3
    <3> QED
      BY <3>1, <3>2
  <2>2. v \in [1 .. n -> View]
    BY <1>4, <2>1
  <2> QED
    BY <1>3, <2>2
<1>7. /\ p \in Seq(Nat) /\ Len(p) = n
  <2>1. \A r \in 1 .. n : (IF r = 1 THEN points[r] ELSE NoPoint) \in Nat
    BY <1>2, <1>3 DEF NoPoint
  <2>2. p \in [1 .. n -> Nat]
    BY <1>4, <2>1
  <2> QED
    BY <1>3, <2>2
<1>8. ASSUME NEW named, RowsNamed(kf, named) PROVE RowsNamed(e, named)
  <2> SUFFICES ASSUME NEW r \in 1 .. n, v[r] # Noise PROVE p[r] \in DOMAIN named /\ named[p[r]] = v[r]
    BY <1>5, <1>6 DEF RowsNamed
  <2>1. r = 1 /\ v[r] = views[r] /\ p[r] = points[r] /\ r \in 1 .. Len(views)
    BY <1>2, <1>3, <1>4
  <2> QED
    BY <1>1, <1>8, <2>1 DEF RowsNamed
<1> QED
  BY <1>2, <1>5, <1>6, <1>7, <1>8 DEF RowsFormed

(* Frames alike in number, drone and rows are formed alike.                *)
LEMMA FormedAlike ==
    ASSUME NEW points, NEW frames, FramesFormed(frames, points), NEW n, n = Len(frames),
           NEW others, others = [i \in 1 .. n |-> others[i]],
           \A i \in 1 .. n : /\ RowsFormed(others[i]) /\ RowsNamed(others[i], points)
                             /\ others[i].id = frames[i].id /\ others[i].drone = frames[i].drone
    PROVE  FramesFormed(others, points) /\ Len(others) = n
<1>1. n \in Nat
  BY DEF FramesFormed
<1>2. others \in Seq(ToSet(others)) /\ Len(others) = n
  BY <1>1, SequenceOf
<1>3. \A i, j \in 1 .. n :
          i # j => make_global_keyframe_id(others[i]) # make_global_keyframe_id(others[j])
  <2>1. \A i \in 1 .. n : make_global_keyframe_id(others[i]) = make_global_keyframe_id(frames[i])
    BY DEF make_global_keyframe_id
  <2> QED
    BY <2>1 DEF FramesFormed
<1> QED
  BY <1>2, <1>3 DEF FramesFormed

(* What is saved of the keyframes is formed as they are.                   *)
LEMMA EncodedFrames ==
    ASSUME NEW points, NEW frames, FramesFormed(frames, points)
    PROVE  FramesFormed(Encoded(frames), points)
<1>1. PICK n, others : n = Len(frames) /\ others = Encoded(frames)
  OBVIOUS
<1>2. others = [i \in 1 .. n |-> others[i]] /\ \A i \in 1 .. n : others[i] = encode_keyframe(frames[i])
  BY <1>1 DEF Encoded
<1>3. \A i \in 1 .. n : /\ RowsFormed(others[i]) /\ RowsNamed(others[i], points)
                        /\ others[i].id = frames[i].id /\ others[i].drone = frames[i].drone
  BY <1>1, <1>2, EncodedWell DEF FramesFormed
<1> QED
  BY <1>1, <1>2, <1>3, FormedAlike

(* So is what is loaded of them.                                           *)
LEMMA DecodedFrames ==
    ASSUME NEW points, NEW frames, FramesFormed(frames, points)
    PROVE  /\ FramesFormed(Decoded(frames), points) /\ Len(Decoded(frames)) = Len(frames)
           /\ \A i \in 1 .. Len(frames) : Decoded(frames)[i].id = frames[i].id
<1>1. PICK n, others : n = Len(frames) /\ others = Decoded(frames)
  OBVIOUS
<1>2. others = [i \in 1 .. n |-> others[i]] /\ \A i \in 1 .. n : others[i] = decode_keyframe(frames[i])
  BY <1>1 DEF Decoded
<1>3. ASSUME NEW i \in 1 .. n
      PROVE  /\ RowsFormed(others[i]) /\ RowsNamed(others[i], points)
             /\ others[i].id = frames[i].id /\ others[i].drone = frames[i].drone
  <2>1. PICK kf, payload : kf = others[i] /\ payload = frames[i] /\ kf = decode_keyframe(payload)
    BY <1>2
  <2>2. /\ kf.id = payload.id /\ kf.drone = payload.drone
        /\ kf.views = payload.views /\ kf.points = payload.points
    BY <2>1, DecodedAlike
  <2>3. RowsFormed(payload) /\ RowsNamed(payload, points)
    BY <1>1, <2>1 DEF FramesFormed
  <2> QED
    BY <2>1, <2>2, <2>3 DEF RowsFormed, RowsNamed
<1> QED
  BY <1>1, <1>2, <1>3, FormedAlike

(* Keyframes stay right when points are added to the map.                  *)
LEMMA FramesGrow ==
    ASSUME NEW points, NEW more, Adds(points, more), NEW frames, FramesFormed(frames, points)
    PROVE  FramesFormed(frames, more)
<1>1. \A i \in 1 .. Len(frames) : RowsNamed(frames[i], points) => RowsNamed(frames[i], more)
  BY DEF RowsNamed, Adds
<1> QED
  BY <1>1 DEF FramesFormed

(* What is stored of the frames so far and one more.                       *)
LEMMA Stored ==
    ASSUME NEW points, NEW frames, FramesFormed(frames, points),
           NEW kf, RowsFormed(kf), RowsNamed(kf, points),
           \A i \in 1 .. Len(frames) : make_global_keyframe_id(frames[i]) # make_global_keyframe_id(kf),
           NEW stored, stored = Newest(Append(frames, kf))
    PROVE  /\ FramesFormed(stored, points)
           /\ \A i \in 1 .. Len(stored) :
                stored[i] = kf \/ \E j \in 1 .. Len(frames) : stored[i] = frames[j]
<1>1. PICK S, all : S = ToSet(frames) \union {kf} /\ all = Append(frames, kf)
  OBVIOUS
<1>2. PICK n : n = Len(frames)
  OBVIOUS
<1>3. frames \in Seq(S) /\ kf \in S /\ n \in Nat
  <2>1. frames \in Seq(ToSet(frames))
    BY DEF FramesFormed
  <2>2. ToSet(frames) \subseteq S /\ kf \in S
    BY <1>1
  <2> QED
    BY <1>2, <2>1, <2>2
<1>4. /\ all \in Seq(S) /\ Len(all) = n + 1 /\ all[n + 1] = kf
      /\ \A i \in 1 .. n : all[i] = frames[i]
  BY <1>1, <1>2, <1>3
<1>5. /\ \A i \in 1 .. n + 1 : RowsFormed(all[i]) /\ RowsNamed(all[i], points)
      /\ \A i, j \in 1 .. n + 1 :
           i # j => make_global_keyframe_id(all[i]) # make_global_keyframe_id(all[j])
  <2>1. \A i \in 1 .. n + 1 : i \in 1 .. n \/ i = n + 1
    BY <1>3
  <2> QED
    BY <1>2, <1>4, <2>1 DEF FramesFormed
<1>6. PICK gone \in 0 .. n :
          /\ stored \in Seq(S) /\ Len(stored) = n + 1 - gone
          /\ \A i \in 1 .. Len(stored) : stored[i] = all[i + gone]
  <2>1. CASE n + 1 > MaxKeyframes
    <3>1. PICK gone : gone = n + 1 - MaxKeyframes
      OBVIOUS
    <3>6. gone = Len(all) - MaxKeyframes
      BY <1>3, <1>4, <3>1, KeyframeAssumption
    <3>2. gone \in 0 .. n
      BY <1>3, <2>1, <3>1, KeyframeAssumption
    <3>3. stored = SubSeq(all, gone + 1, n + 1)
      BY <1>1, <1>4, <2>1, <3>6 DEF Newest
    <3>4. /\ stored \in Seq(S) /\ Len(stored) = n + 1 - gone
          /\ \A i \in 1 .. n + 1 - gone : stored[i] = all[gone + 1 + i - 1]
      BY <1>3, <1>4, <3>2, <3>3, SubSeqProperties
    <3>5. \A i \in 1 .. n + 1 - gone : gone + 1 + i - 1 = i + gone
      BY <3>2
    <3> QED
      BY <3>2, <3>4, <3>5
  <2>2. CASE ~ (n + 1 > MaxKeyframes)
    <3>1. stored = all
      BY <1>1, <1>4, <2>2 DEF Newest
    <3>2. 0 \in 0 .. n /\ n + 1 - 0 = n + 1
      BY <1>3
    <3>3. \A i \in 1 .. Len(stored) : i + 0 = i
      BY <1>3, <1>4, <3>1
    <3> QED
      BY <1>4, <3>1, <3>2, <3>3
  <2> QED
    BY <2>1, <2>2
<1>7. \A i \in 1 .. Len(stored) : i + gone \in 1 .. n + 1
  BY <1>3, <1>6
<1>8. \A i, j \in 1 .. Len(stored) : i # j => i + gone # j + gone
  BY <1>3, <1>6
<1>9. stored \in Seq(ToSet(stored))
  <2>1. stored = [i \in 1 .. Len(stored) |-> stored[i]] /\ Len(stored) \in Nat
    BY <1>6
  <2> QED
    BY <2>1, SequenceOf
<1>10. FramesFormed(stored, points)
  <2>1. \A i \in 1 .. Len(stored) : RowsFormed(stored[i]) /\ RowsNamed(stored[i], points)
    BY <1>5, <1>6, <1>7
  <2>2. ASSUME NEW i \in 1 .. Len(stored), NEW j \in 1 .. Len(stored), i # j
        PROVE  make_global_keyframe_id(stored[i]) # make_global_keyframe_id(stored[j])
    <3>1. i + gone \in 1 .. n + 1 /\ j + gone \in 1 .. n + 1 /\ i + gone # j + gone
      BY <1>7, <1>8, <2>2
    <3>2. stored[i] = all[i + gone] /\ stored[j] = all[j + gone]
      BY <1>6
    <3> QED
      BY <1>5, <3>1, <3>2
  <2> QED
    BY <1>9, <2>1, <2>2 DEF FramesFormed
<1>11. ASSUME NEW i \in 1 .. Len(stored)
       PROVE  stored[i] = kf \/ \E j \in 1 .. Len(frames) : stored[i] = frames[j]
  <2>1. i + gone \in 1 .. n \/ i + gone = n + 1
    BY <1>3, <1>7
  <2> QED
    BY <1>2, <1>4, <1>6, <2>1
<1> QED
  BY <1>10, <1>11

(***************************************************************************)
(* The operations of the keyframe manager keep a map formed.               *)
(***************************************************************************)
MapWell(m) ==
    /\ MapForm(m)
    /\ Numbered(m.points, m.mpNext)
    /\ FramesFormed(m.local, m.points) /\ FramesFormed(m.remote, m.points)
    /\ m.kfNext \in Nat
    /\ \A i \in 1 .. Len(m.local) : m.local[i].id < m.kfNext

(* MapFormed in the form the lemmas use.                                   *)
LEMMA MapsFormed ==
    ASSUME NEW m
    PROVE  MapFormed(m) <=> MapWell(m)
<1>1. MapForm(m) <=> m = [local |-> m.local, remote |-> m.remote, points |-> m.points,
                          kfNext |-> m.kfNext, mpNext |-> m.mpNext, placed |-> m.placed,
                          candidates |-> m.candidates]
  BY DEF MapForm, OnlyMap
<1> QED
  BY <1>1 DEF MapFormed, MapWell, Numbered

(* No keyframes are trivially right.                                       *)
LEMMA NoFrames ==
    ASSUME NEW frames, frames = <<>>, NEW points
    PROVE  FramesFormed(frames, points)
<1>1. frames \in Seq(ToSet(frames)) /\ Len(frames) = 0
  BY EmptySeq
<1>2. 1 .. 0 = {}
  OBVIOUS
<1> QED
  BY <1>1, <1>2 DEF FramesFormed

(* The empty map.                                                          *)
LEMMA InitMapWell ==
    ASSUME NEW m, m = InitMap
    PROVE  MapWell(m)
<1>1. /\ m.local = <<>> /\ m.remote = <<>> /\ m.points = <<>> /\ m.kfNext = 0 /\ m.mpNext = 0
      /\ MapForm(m)
  BY DEF InitMap, MapForm, OnlyMap
<1>2. PICK points : points = m.points
  OBVIOUS
<1>3. DOMAIN points = {} /\ points \in [DOMAIN points -> View]
  BY <1>1, <1>2
<1>4. Numbered(points, 0)
  BY <1>3, FS_EmptySet DEF Numbered, PointsFormed
<1>5. FramesFormed(m.local, points) /\ FramesFormed(m.remote, points)
  BY <1>1, NoFrames
<1>6. \A i \in 1 .. Len(m.local) : m.local[i].id < m.kfNext
  <2>1. Len(m.local) = 0 /\ 1 .. 0 = {}
    BY <1>1
  <2> QED
    BY <2>1
<1> QED
  BY <1>1, <1>2, <1>4, <1>5, <1>6 DEF MapWell

(* A frame that becomes a keyframe.                                        *)
LEMMA AddedWell ==
    ASSUME NEW m, MapWell(m), NEW drone, NEW views \in Seq(View),
           NEW added \in try_add_frame(m, drone, views)
    PROVE  MapWell(added)
<1>0. PICK out \in Observations(m, views) :
          added = LET kf == [NewKeyframe(m.kfNext, drone, views) EXCEPT !.points = out.ids, !.shared = TRUE]
                      stored == [out.m EXCEPT !.local = Newest(Append(@, kf)), !.kfNext = @ + 1,
                                              !.placed = TRUE]
                  IN  [stored EXCEPT !.candidates = find_loop_closure_candidates(stored, views) # {}]
  BY Zenon DEF try_add_frame
<1>1. PICK id, ids, kf, stored :
          /\ out \in Observations(m, views)
          /\ id = m.kfNext /\ ids = out.ids
          /\ kf = [NewKeyframe(id, drone, views) EXCEPT !.points = ids, !.shared = TRUE]
          /\ stored = [out.m EXCEPT !.local = Newest(Append(@, kf)), !.kfNext = @ + 1, !.placed = TRUE]
          /\ added = [stored EXCEPT !.candidates = find_loop_closure_candidates(stored, views) # {}]
  BY <1>0
<1>2. RowsDone(m, views, Len(views), out)
  BY <1>1, RowsAssociated DEF MapWell
<1>3. PICK n, points, next : n = out.m /\ points = n.points /\ next = n.mpNext
  OBVIOUS
<1>4. /\ n \in OnlyMap(m.local, m.remote, points, m.kfNext, next, m.placed, m.candidates)
      /\ Numbered(points, next) /\ Adds(m.points, points)
      /\ ids \in Seq(Nat) /\ Len(ids) = Len(views)
      /\ \A k \in 1 .. Len(views) : views[k] # Noise => ids[k] \in DOMAIN points /\ points[ids[k]] = views[k]
  BY <1>1, <1>2, <1>3 DEF RowsDone
<1>5. id \in Nat
  BY <1>1 DEF MapWell
<1>6. kf.id = id /\ kf.drone = drone /\ kf.views = views /\ kf.points = ids
  BY <1>1 DEF NewKeyframe
<1>7. RowsFormed(kf) /\ RowsNamed(kf, points)
  BY <1>4, <1>5, <1>6 DEF RowsFormed, RowsNamed
<1>8. PICK locals, kfNext : locals = Newest(Append(m.local, kf)) /\ kfNext = m.kfNext + 1
  OBVIOUS
<1>9. FramesFormed(m.local, points) /\ FramesFormed(m.remote, points)
  BY <1>4, FramesGrow DEF MapWell
<1>10. /\ FramesFormed(locals, points)
       /\ \A i \in 1 .. Len(locals) : locals[i] = kf \/ \E j \in 1 .. Len(m.local) : locals[i] = m.local[j]
  <2>1. \A i \in 1 .. Len(m.local) : make_global_keyframe_id(m.local[i]) # make_global_keyframe_id(kf)
    <3> SUFFICES ASSUME NEW i \in 1 .. Len(m.local),
                        make_global_keyframe_id(m.local[i]) = make_global_keyframe_id(kf)
                 PROVE  FALSE
      OBVIOUS
    <3>1. m.local[i].id = id
      BY <1>6 DEF make_global_keyframe_id
    <3>2. m.local[i].id < id /\ m.local[i].id \in Nat
      BY <1>1 DEF MapWell, FramesFormed, RowsFormed
    <3> QED
      BY <1>5, <3>1, <3>2
  <2> QED
    BY <1>7, <1>8, <1>9, <2>1, Stored
<1>11. \A i \in 1 .. Len(locals) : locals[i].id < kfNext
  <2> SUFFICES ASSUME NEW i \in 1 .. Len(locals) PROVE locals[i].id < kfNext
    OBVIOUS
  <2>1. kfNext = id + 1
    BY <1>1, <1>8
  <2>2. CASE locals[i] = kf
    BY <1>5, <1>6, <2>1, <2>2
  <2>3. ASSUME NEW j \in 1 .. Len(m.local), locals[i] = m.local[j] PROVE locals[i].id < kfNext
    <3>1. m.local[j].id < id /\ m.local[j].id \in Nat
      BY <1>1 DEF MapWell, FramesFormed, RowsFormed
    <3> QED
      BY <1>5, <2>1, <2>3, <3>1
  <2> QED
    BY <1>10, <2>2, <2>3
<1>12. stored \in OnlyMap(locals, m.remote, points, kfNext, next, TRUE, m.candidates)
  <2>1. n.local = m.local /\ n.kfNext = m.kfNext
    BY <1>4 DEF OnlyMap
  <2>2. stored = [n EXCEPT !.local = locals, !.kfNext = kfNext, !.placed = TRUE]
    BY <1>1, <1>3, <1>8, <2>1
  <2> QED
    BY <1>4, <2>2 DEF OnlyMap
<1>13. PICK candidates : added = [stored EXCEPT !.candidates = candidates]
  BY <1>1
<1>14. added \in OnlyMap(locals, m.remote, points, kfNext, next, TRUE, candidates)
  BY <1>12, <1>13 DEF OnlyMap
<1>15. /\ added.local = locals /\ added.remote = m.remote /\ added.points = points
       /\ added.kfNext = kfNext /\ added.mpNext = next /\ added.placed = TRUE
       /\ added.candidates = candidates
  BY <1>14 DEF OnlyMap
<1>16. kfNext \in Nat
  BY <1>1, <1>5, <1>8
<1> QED
  BY <1>4, <1>9, <1>10, <1>11, <1>14, <1>15, <1>16 DEF MapWell, MapForm

(* A keyframe a peer has sent.                                             *)
LEMMA RemoteWell ==
    ASSUME NEW m, MapWell(m), NEW src, NEW payload, RowsFormed(payload),
           NEW after \in on_remote_keyframe(m, src, payload)
    PROVE  MapWell(after)
<1>1. PICK decoded, kf : /\ decoded = decode_keyframe(payload)
                         /\ kf = [decoded EXCEPT !.drone = src, !.shared = TRUE]
  OBVIOUS
<1>2. /\ kf.id = payload.id /\ kf.drone = src /\ kf.views = payload.views
      /\ kf \in [id : {kf.id}, drone : {src}, views : {kf.views}, points : {kf.points}, shared : {TRUE}]
  <2>1. /\ decoded.id = payload.id /\ decoded.views = payload.views
        /\ decoded \in [id : {decoded.id}, drone : {decoded.drone}, views : {decoded.views},
                        points : {decoded.points}, shared : BOOLEAN]
    BY <1>1, DecodedAlike
  <2> QED
    BY <1>1, <2>1
<1>3. CASE Known(m, kf)
  <2>1. after = m
    BY <1>1, <1>3 DEF on_remote_keyframe
  <2> QED
    BY <2>1
<1>4. CASE ~ Known(m, kf)
  <2>1. PICK views, out, new :
            /\ views = kf.views /\ out \in Observations(m, views)
            /\ new = [kf EXCEPT !.points = out.ids]
            /\ after = [out.m EXCEPT !.remote = Newest(Append(@, new))]
    BY <1>1, <1>4 DEF on_remote_keyframe
  <2>2. views \in Seq(View) /\ kf.id \in Nat
    BY <1>2, <2>1 DEF RowsFormed
  <2>3. RowsDone(m, views, Len(views), out)
    BY <2>1, <2>2, RowsAssociated DEF MapWell
  <2>4. PICK n, points, next, ids : n = out.m /\ points = n.points /\ next = n.mpNext /\ ids = out.ids
    OBVIOUS
  <2>5. /\ n \in OnlyMap(m.local, m.remote, points, m.kfNext, next, m.placed, m.candidates)
        /\ Numbered(points, next) /\ Adds(m.points, points)
        /\ ids \in Seq(Nat) /\ Len(ids) = Len(views)
        /\ \A k \in 1 .. Len(views) :
             views[k] # Noise => ids[k] \in DOMAIN points /\ points[ids[k]] = views[k]
    BY <2>3, <2>4 DEF RowsDone
  <2>6. new.id = kf.id /\ new.drone = kf.drone /\ new.views = views /\ new.points = ids
    BY <1>2, <2>1, <2>4
  <2>7. RowsFormed(new) /\ RowsNamed(new, points)
    BY <2>2, <2>5, <2>6 DEF RowsFormed, RowsNamed
  <2>8. FramesFormed(m.local, points) /\ FramesFormed(m.remote, points)
    BY <2>5, FramesGrow DEF MapWell
  <2>9. \A i \in 1 .. Len(m.remote) : make_global_keyframe_id(m.remote[i]) # make_global_keyframe_id(new)
    <3>1. make_global_keyframe_id(new) = make_global_keyframe_id(kf)
      BY <2>6 DEF make_global_keyframe_id
    <3>2. \A i \in 1 .. Len(m.remote) : m.remote[i] \in ToSet(m.remote)
      BY DEF ToSet, MapWell, FramesFormed
    <3> QED
      BY <1>4, <3>1, <3>2 DEF Known
  <2>10. PICK remotes : remotes = Newest(Append(m.remote, new))
    OBVIOUS
  <2>11. FramesFormed(remotes, points)
    BY <2>7, <2>8, <2>9, <2>10, Stored
  <2>12. after = [n EXCEPT !.remote = remotes]
    <3>1. n.remote = m.remote
      BY <2>5 DEF OnlyMap
    <3> QED
      BY <2>1, <2>4, <2>10, <3>1
  <2>13. after \in OnlyMap(m.local, remotes, points, m.kfNext, next, m.placed, m.candidates)
    BY <2>5, <2>12 DEF OnlyMap
  <2>14. /\ after.local = m.local /\ after.remote = remotes /\ after.points = points
         /\ after.kfNext = m.kfNext /\ after.mpNext = next /\ after.placed = m.placed
         /\ after.candidates = m.candidates
    BY <2>13 DEF OnlyMap
  <2> QED
    BY <2>5, <2>8, <2>11, <2>13, <2>14 DEF MapWell, MapForm
<1> QED
  BY <1>3, <1>4

(* A map that is right is saved right.                                     *)
LEMMA SavedWell ==
    ASSUME NEW m, MapWell(m), NEW saved, saved = save_map(m)
    PROVE  FileFormed(saved)
<1>1. saved.local = Encoded(m.local) /\ saved.remote = Encoded(m.remote) /\ saved.points = m.points
  BY DEF save_map
<1> QED
  BY <1>1, EncodedFrames DEF FileFormed, MapWell, Numbered

(* The frames' numbers, and whatever else bounds them.                     *)
LEMMA NumbersOf ==
    ASSUME NEW points, NEW frames, FramesFormed(frames, points)
    PROVE  /\ {k.id : k \in ToSet(frames)} \subseteq Nat /\ IsFiniteSet({k.id : k \in ToSet(frames)})
           /\ \A i \in 1 .. Len(frames) : frames[i] \in ToSet(frames)
<1>1. PICK n : n = Len(frames)
  OBVIOUS
<1>2. n \in Nat /\ DOMAIN frames = 1 .. n
  BY <1>1 DEF FramesFormed
<1>3. ToSet(frames) = {frames[i] : i \in 1 .. n}
  BY <1>2 DEF ToSet
<1>4. PICK ids : ids = {k.id : k \in ToSet(frames)}
  OBVIOUS
<1>5. ids = {frames[i].id : i \in 1 .. n}
  BY <1>3, <1>4
<1>6. ids \subseteq Nat
  <2>1. \A i \in 1 .. n : frames[i].id \in Nat
    BY <1>1 DEF FramesFormed, RowsFormed
  <2> QED
    BY <1>5, <2>1
<1>7. IsFiniteSet(ids)
  <2>1. IsFiniteSet(1 .. n)
    BY <1>2, FS_Interval
  <2>2. PICK f : f = [i \in 1 .. n |-> frames[i].id]
    OBVIOUS
  <2>3. f \in Surjection(1 .. n, ids)
    BY <1>5, <2>2 DEF Surjection
  <2> QED
    BY <2>1, <2>3, FS_Surjection
<1> QED
  BY <1>1, <1>3, <1>4, <1>6, <1>7

(* Whatever the map was, it is right when a file that is has been loaded.  *)
LEMMA LoadedWell ==
    ASSUME NEW m, MapForm(m), NEW saved, saved.saved, FileFormed(saved),
           NEW loaded, loaded = load_map(m, saved)
    PROVE  MapWell(loaded)
<1>1. PICK local, remote, points : local = saved.local /\ remote = saved.remote /\ points = saved.points
  OBVIOUS
<1>2. PointsFormed(points) /\ FramesFormed(local, points) /\ FramesFormed(remote, points)
  BY <1>1 DEF FileFormed
<1>3. PICK ids : ids = {k.id : k \in ToSet(local) \union ToSet(remote)}
  OBVIOUS
<1>4. ids \subseteq Nat /\ IsFiniteSet(ids) /\ \A i \in 1 .. Len(local) : local[i].id \in ids
  <2>1. ids = {k.id : k \in ToSet(local)} \union {k.id : k \in ToSet(remote)}
    BY <1>3
  <2>2. /\ {k.id : k \in ToSet(local)} \subseteq Nat /\ IsFiniteSet({k.id : k \in ToSet(local)})
        /\ {k.id : k \in ToSet(remote)} \subseteq Nat /\ IsFiniteSet({k.id : k \in ToSet(remote)})
        /\ \A i \in 1 .. Len(local) : local[i] \in ToSet(local)
    BY <1>2, NumbersOf
  <2> QED
    BY <2>1, <2>2, FS_Union
<1>5. PICK top : top = Highest(ids)
  OBVIOUS
<1>6. top \in Nat /\ \A id \in ids : id <= top
  BY <1>4, <1>5, HighestIsHighest
<1>7. PICK last : last = Highest(DOMAIN points)
  OBVIOUS
<1>8. last \in Nat /\ \A i \in DOMAIN points : i <= last
  BY <1>2, <1>7, HighestIsHighest DEF PointsFormed
<1>9. PICK locals, remotes, kfNext, mpNext :
          /\ locals = Decoded(local) /\ remotes = Decoded(remote)
          /\ kfNext = top + 1 /\ mpNext = last + 1
  OBVIOUS
<1>10. loaded = [m EXCEPT !.local = locals, !.remote = remotes, !.points = points, !.kfNext = kfNext,
                          !.mpNext = mpNext, !.placed = FALSE]
  <2>1. NumbersRead(m, saved).kfNext = kfNext /\ NumbersRead(m, saved).mpNext = mpNext
    BY <1>1, <1>3, <1>5, <1>7, <1>9 DEF NumbersRead
  <2> QED
    BY <1>1, <1>9, <2>1 DEF load_map
<1>11. loaded \in OnlyMap(locals, remotes, points, kfNext, mpNext, FALSE, m.candidates)
  BY <1>10 DEF MapForm, OnlyMap
<1>12. /\ loaded.local = locals /\ loaded.remote = remotes /\ loaded.points = points
       /\ loaded.kfNext = kfNext /\ loaded.mpNext = mpNext /\ loaded.placed = FALSE
       /\ loaded.candidates = m.candidates
  BY <1>11 DEF OnlyMap
<1>13. FramesFormed(locals, points) /\ FramesFormed(remotes, points)
  BY <1>2, <1>9, DecodedFrames
<1>14. \A i \in 1 .. Len(locals) : locals[i].id < kfNext
  <2> SUFFICES ASSUME NEW i \in 1 .. Len(locals) PROVE locals[i].id < kfNext
    OBVIOUS
  <2>1. i \in 1 .. Len(local) /\ locals[i].id = local[i].id
    BY <1>2, <1>9, DecodedFrames
  <2>2. locals[i].id <= top /\ locals[i].id \in Nat
    BY <1>4, <1>6, <2>1
  <2> QED
    BY <1>6, <1>9, <2>2
<1>15. Numbered(points, mpNext)
  <2>1. \A i \in DOMAIN points : i \in Nat /\ i <= last
    BY <1>2, <1>8 DEF PointsFormed
  <2> QED
    BY <1>2, <1>8, <1>9, <2>1 DEF Numbered
<1>16. kfNext \in Nat
  BY <1>6, <1>9
<1> QED
  BY <1>11, <1>12, <1>13, <1>14, <1>15, <1>16 DEF MapWell, MapForm

(***************************************************************************)
(* The map of Local.                                                       *)
(***************************************************************************)
LEMMA ViewsGiven ==
    ASSUME IInv
    PROVE  /\ \A msg \in profile.messages : msg.type = "keyframe" => msg.views \in Seq(View)
           /\ profile.views \subseteq Seq(View)
<1>1. profile \in Profiles
  BY DEF IInv, Typed
<1>2. /\ \A msg \in profile.messages : msg.type = "keyframe" => msg.views \in Seq(Descriptors)
      /\ profile.views \subseteq Seq(Descriptors)
  BY <1>1, MeshAssumption
<1>3. \A views \in Seq(Descriptors) : views \in Seq(View)
  BY DEF View
<1> QED
  BY <1>2, <1>3

(* What a peer's keyframe carries.                                         *)
LEMMA PayloadFormed ==
    ASSUME IInv, NEW p \in Peers, NEW views \in Seq(View)
    PROVE  RowsFormed(Keyframe(p, views))
<1>1. PICK id, points, kf : /\ id = tx[p].kf
                            /\ points = [r \in 1 .. Len(views) |-> r]
                            /\ kf = [NewKeyframe(id, p, views) EXCEPT !.points = points]
  OBVIOUS
<1>2. id \in Nat
  BY <1>1 DEF IInv, Typed, Sender
<1>3. points \in Seq(Nat) /\ Len(points) = Len(views)
  <2>1. PICK n \in Nat : n = Len(views)
    OBVIOUS
  <2>2. points \in [1 .. n -> Nat]
    BY <1>1, <2>1
  <2> QED
    BY <2>1, <2>2
<1>4. kf.id = id /\ kf.views = views /\ kf.points = points
  BY <1>1 DEF NewKeyframe
<1>5. RowsFormed(kf)
  BY <1>2, <1>3, <1>4 DEF RowsFormed
<1>6. Keyframe(p, views) = encode_keyframe(kf)
  BY <1>1 DEF Keyframe
<1> QED
  BY <1>5, <1>6, EncodedWell

(* A frame is sealed.                                                      *)
LEMMA SealKeepsKeyframes ==
    ASSUME IInv, MapInv, NEW p \in Peers, NEW msg \in profile.messages, NEW header,
           sealed' = Append(sealed, Frame(p, header, msg)), UNCHANGED <<map, file>>
    PROVE  MapInv'
<1>1. PICK frame : frame = Frame(p, header, msg)
  OBVIOUS
<1>2. /\ Len(sealed) \in Nat /\ Len(sealed') = Len(sealed) + 1
      /\ \A d \in 1 .. Len(sealed) : sealed'[d] = sealed[d]
      /\ sealed'[Len(sealed) + 1] = frame
  <2>1. \E S : sealed \in Seq(S)
    BY DEF IInv, Typed, FramesTyped
  <2>2. /\ Len(sealed) \in Nat /\ Len(Append(sealed, frame)) = Len(sealed) + 1
        /\ \A i \in 1 .. Len(sealed) : Append(sealed, frame)[i] = sealed[i]
        /\ Append(sealed, frame)[Len(sealed) + 1] = frame
    BY <2>1, Appended
  <2> QED
    BY <1>1, <2>2
<1>3. frame.type = "keyframe" => RowsFormed(frame.body.payload)
  <2> SUFFICES ASSUME msg.type = "keyframe"
               PROVE  RowsFormed(frame.body.payload)
    BY <1>1 DEF Frame
  <2>1. msg.views \in Seq(View)
    BY ViewsGiven
  <2>2. PICK payload : payload = Keyframe(p, msg.views)
    OBVIOUS
  <2>3. RowsFormed(payload)
    BY <2>1, <2>2, PayloadFormed
  <2>4. Message(p, msg) = [payload |-> payload]
    BY <2>2 DEF Message
  <2>5. frame.body = Message(p, msg)
    BY <1>1 DEF Frame
  <2> QED
    BY <2>3, <2>4, <2>5
<1>4. KeyframesFormed'
  <2> SUFFICES ASSUME NEW d \in 1 .. Len(sealed'), sealed'[d].type = "keyframe"
               PROVE  RowsFormed(sealed'[d].body.payload)
    BY DEF KeyframesFormed, RowsFormed
  <2>1. d \in 1 .. Len(sealed) \/ d = Len(sealed) + 1
    BY <1>2
  <2>2. \A e \in 1 .. Len(sealed) : sealed[e].type = "keyframe" => RowsFormed(sealed[e].body.payload)
    BY DEF MapInv, KeyframesFormed
  <2> QED
    BY <1>2, <1>3, <2>1, <2>2
<1>5. MapFormed(map)' /\ FileFormed(file)'
  BY DEF MapInv
<1> QED
  BY <1>4, <1>5 DEF MapInv

(* The steps that leave the frames alone.                                  *)
LEMMA MapStep ==
    ASSUME MapInv, UNCHANGED sealed, NEW m, map' = m, MapWell(m), NEW f, file' = f, FileFormed(f)
    PROVE  MapInv'
<1>1. KeyframesFormed'
  BY DEF MapInv, KeyframesFormed
<1>2. MapFormed(m)
  BY MapsFormed
<1>3. MapFormed(map)' /\ FileFormed(file)'
  BY <1>2
<1> QED
  BY <1>1, <1>3 DEF MapInv

LEMMA InitMapInv == Init => MapInv
<1> SUFFICES ASSUME Init PROVE MapInv
  OBVIOUS
<1>1. sealed = <<>> /\ map = InitMap /\ file = NoFile
  BY DEF Init
<1>2. KeyframesFormed
  BY <1>1, EmptySeq DEF KeyframesFormed
<1>3. PICK m : m = InitMap
  OBVIOUS
<1>4. MapFormed(m)
  BY <1>3, InitMapWell, MapsFormed
<1>5. FileFormed(file)
  BY <1>1 DEF NoFile, FileFormed
<1> QED
  BY <1>1, <1>2, <1>3, <1>4, <1>5 DEF MapInv

(* A frame with a keyframe is received, or one without.                    *)
LEMMA ReceiveKeepsMap ==
    ASSUME IInv, MapInv, NEW i \in 1 .. Len(air), Receive(i)
    PROVE  MapInv'
<1>1. UNCHANGED <<sealed, file>>
  BY DEF Receive
<1>2. PICK m, f : m = map /\ f = file
  OBVIOUS
<1>3. MapWell(m) /\ FileFormed(f)
  BY <1>2, MapsFormed DEF MapInv
<1>4. PICK frame : frame = sealed[air[i]]
  OBVIOUS
<1>5. \/ map' = map
      \/ frame.type = "keyframe" /\ map' \in on_remote_keyframe(map, frame.header.src, frame.body.payload)
  BY <1>4 DEF Receive
<1>6. air[i] \in 1 .. Len(sealed)
  BY DEF IInv, Typed
<1>7. frame.type = "keyframe" => RowsFormed(frame.body.payload)
  BY <1>4, <1>6 DEF MapInv, KeyframesFormed
<1>8. PICK n : n = map'
  OBVIOUS
<1>9. MapWell(n)
  BY <1>2, <1>3, <1>5, <1>7, <1>8, RemoteWell
<1> QED
  BY <1>1, <1>2, <1>3, <1>8, <1>9, MapStep

(* Local's own frames, its file, its restart.                              *)
LEMMA OtherStepsKeepMap ==
    ASSUME IInv, MapInv,
           \/ \E views \in profile.views, moved \in BOOLEAN : AddFrame(views, moved)
           \/ Save \/ Load \/ RestartLocal
           \/ UNCHANGED <<sealed, map, file>>
    PROVE  MapInv'
<1>1. UNCHANGED sealed
  BY DEF AddFrame, Save, Load, RestartLocal
<1>2. PICK m, f, n, g : m = map /\ f = file /\ n = map' /\ g = file'
  OBVIOUS
<1>3. MapWell(m) /\ FileFormed(f)
  BY <1>2, MapsFormed DEF MapInv
<1>4. ASSUME NEW views \in profile.views, NEW moved \in BOOLEAN, AddFrame(views, moved)
      PROVE  MapWell(n) /\ g = f
  <2>1. n \in try_add_frame(m, Local, views) /\ g = f
    BY <1>2, <1>4 DEF AddFrame
  <2>2. views \in Seq(View)
    BY ViewsGiven
  <2> QED
    BY <1>3, <2>1, <2>2, AddedWell
<1>5. CASE Save
  <2>1. n = m /\ g = save_map(m)
    BY <1>2, <1>5 DEF Save
  <2>2. FileFormed(g)
    BY <1>3, <2>1, SavedWell
  <2> QED
    BY <1>1, <1>2, <1>3, <2>1, <2>2, MapStep
<1>6. CASE Load
  <2>1. n = load_map(m, f) /\ g = f /\ f.saved
    BY <1>2, <1>6 DEF Load
  <2>2. MapWell(n)
    BY <1>3, <2>1, LoadedWell DEF MapWell
  <2> QED
    BY <1>1, <1>2, <1>3, <2>1, <2>2, MapStep
<1>7. CASE RestartLocal
  <2>1. n = InitMap /\ g = f
    BY <1>2, <1>7 DEF RestartLocal
  <2>2. MapWell(n)
    BY <2>1, InitMapWell
  <2> QED
    BY <1>1, <1>2, <1>3, <2>1, <2>2, MapStep
<1>8. CASE UNCHANGED <<sealed, map, file>>
  BY <1>1, <1>2, <1>3, <1>8, MapStep
<1> QED
  BY <1>1, <1>2, <1>3, <1>4, <1>5, <1>6, <1>7, <1>8, MapStep

LEMMA StepMapInv == ASSUME IInv, MapInv, [Next]_vars PROVE MapInv'
<1>1. ASSUME NEW p \in Peers, NEW msg \in profile.messages, Broadcast(p, msg) PROVE MapInv'
  <2>1. PICK header : header = build_header(tx[p].chain, p, tx[p].seq + 1, msg.type, profile.key[p])
    OBVIOUS
  <2>2. sealed' = Append(sealed, Frame(p, header, msg)) /\ UNCHANGED <<map, file>>
    BY <1>1, <2>1 DEF Broadcast
  <2> QED
    BY <2>2, SealKeepsKeyframes
<1>2. ASSUME NEW p \in Peers, NEW t \in Threads, FinishSeal(p, t) PROVE MapInv'
  <2>1. PICK header, msg : header = thread[p][t].header /\ msg = thread[p][t].msg
    OBVIOUS
  <2>2. /\ thread[p][t].at = "reading"
        /\ sealed' = Append(sealed, Frame(p, header, msg)) /\ UNCHANGED <<map, file>>
    BY <1>2, <2>1 DEF FinishSeal
  <2>3. thread[p][t] \in Reading
    BY <2>2, OpParts DEF IInv, Typed
  <2>4. msg \in profile.messages
    BY <2>1, <2>3, OpParts
  <2> QED
    BY <2>2, <2>4, SealKeepsKeyframes
<1>3. ASSUME NEW p \in Peers,
             \/ \E msg \in profile.messages : SkipUnsigned(p, msg)
             \/ \E t \in Threads : \/ \E msg \in profile.messages : LoadSeq(p, t, msg)
                                   \/ StoreSeq(p, t) \/ ReadChain(p, t)
             \/ RestartPeer(p)
             \/ GrowOld(p)
      PROVE  MapInv'
  <2>1. UNCHANGED <<sealed, map, file>>
    BY <1>3 DEF SkipUnsigned, LoadSeq, StoreSeq, ReadChain, RestartPeer, GrowOld
  <2> QED
    BY <2>1, OtherStepsKeepMap
<1>4. CASE PeerSteps
  BY <1>1, <1>2, <1>3, <1>4 DEF PeerSteps
<1>5. ASSUME NEW i \in 1 .. Len(air), Receive(i) PROVE MapInv'
  BY <1>5, ReceiveKeepsMap
<1>6. ASSUME \/ LookUp \/ Observe \/ ExpireCache \/ ExpireVotes \/ Tick \/ UNCHANGED vars
             \/ \E v \in profile.proposals : Propose(v.proposal, v.epoch, v.quorum)
             \/ \E enabled \in BOOLEAN : SetOverride(enabled)
      PROVE  MapInv'
  <2>1. UNCHANGED <<sealed, map, file>>
    BY <1>6 DEF LookUp, Observe, ExpireCache, ExpireVotes, Tick, Propose, SetOverride, vars
  <2> QED
    BY <2>1, OtherStepsKeepMap
<1>7. CASE LocalSteps
  BY <1>5, <1>6, <1>7, OtherStepsKeepMap DEF LocalSteps
<1> QED
  BY <1>4, <1>6, <1>7 DEF Next

LEMMA AlwaysMapInv == Spec => [](IInv /\ MapInv)
<1>1. Init => IInv /\ MapInv
  BY InitIInv, InitMapInv
<1>2. (IInv /\ MapInv) /\ [Next]_vars => (IInv /\ MapInv)'
  BY StepIInv, StepMapInv
<1> QED
  BY <1>1, <1>2, PTL DEF Spec

(* A map so formed is consistent.                                          *)
LEMMA FormedIsConsistent ==
    ASSUME MapInv
    PROVE  MapIsConsistent
<1>1. PICK m : m = map
  OBVIOUS
<1>2. MapWell(m)
  BY <1>1, MapsFormed DEF MapInv
<1>3. ASSUME NEW frames \in {m.local, m.remote}
      PROVE  /\ FramesFormed(frames, m.points)
             /\ DOMAIN frames = 1 .. Len(frames)
             /\ ToSet(frames) = {frames[i] : i \in 1 .. Len(frames)}
  <2>1. FramesFormed(frames, m.points)
    BY <1>2 DEF MapWell
  <2>2. DOMAIN frames = 1 .. Len(frames)
    BY <2>1 DEF FramesFormed
  <2> QED
    BY <2>1, <2>2 DEF ToSet
<1>4. ASSUME NEW kf \in Frames(m), NEW r \in DOMAIN kf.points, kf.views[r] # Noise
      PROVE  kf.points[r] \in DOMAIN m.points /\ m.points[kf.points[r]] = kf.views[r]
  <2>1. PICK frames \in {m.local, m.remote} : kf \in ToSet(frames)
    BY DEF Frames
  <2>2. PICK i \in 1 .. Len(frames) : kf = frames[i]
    BY <1>3, <2>1
  <2>3. RowsFormed(kf) /\ RowsNamed(kf, m.points)
    BY <1>3, <2>2 DEF FramesFormed
  <2>4. r \in 1 .. Len(kf.views)
    BY <2>3 DEF RowsFormed
  <2> QED
    BY <1>4, <2>3, <2>4 DEF RowsNamed
<1>5. \A frames \in {m.local, m.remote} : \A i, j \in DOMAIN frames :
          i # j => make_global_keyframe_id(frames[i]) # make_global_keyframe_id(frames[j])
  BY <1>3 DEF FramesFormed
<1>6. \A kf \in ToSet(m.local) : kf.id < m.kfNext
  BY <1>2, <1>3 DEF MapWell
<1>7. \A i \in DOMAIN m.points : i < m.mpNext
  BY <1>2 DEF MapWell, Numbered
<1> QED
  BY <1>1, <1>4, <1>5, <1>6, <1>7 DEF MapIsConsistent

(* KeyframeManager keeps its numbers and associations right for every size *)
(* of its stores and every traffic: however frames are added, keyframes of *)
(* peers arrive (also again, or with rows that the encoding garbled), the  *)
(* oldest fall out and the map is saved, loaded and lost in between, each  *)
(* readable row names a point of the map with its view, no two keyframes   *)
(* share an identity and no number in use is given out again.              *)
THEOREM MapStaysConsistent == Spec => []MapIsConsistent
<1>1. IInv /\ MapInv => MapIsConsistent
  BY FormedIsConsistent
<1> QED
  BY <1>1, AlwaysMapInv, PTL
===============================================================================
