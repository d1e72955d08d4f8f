----------------------- MODULE SwarmStateCache_proofs -----------------------
(***************************************************************************)
(* Proofs about SwarmStateCache, for every set of senders and packets,     *)
(* every window size, every cache size and every timeout.                  *)
(***************************************************************************)
EXTENDS SwarmStateCache, FiniteSetTheorems, TLAPS

(***************************************************************************)
(* Types of the helpers.                                                   *)
(***************************************************************************)

(* The records that stand for "nothing known" have the types of records.   *)
LEMMA EmptyTypes ==
    /\ NoRecord \in Record
    /\ NoPeer \in Entry
    /\ NoRecords \in [Senders -> Record]
    /\ NoPeers \in [Senders -> Entry]
<1>1. {} \in Windows /\ 0 \in Nat
  BY DEF Windows
<1>2. NoRecord \in Record
  BY <1>1 DEF NoRecord, Record
<1>3. NoPeer \in Entry
  BY <1>1 DEF NoPeer, Entry
<1> QED
  BY <1>2, <1>3 DEF NoRecords, NoPeers

(* The fields of a packet, and its identity.                               *)
LEMMA PacketFields ==
    ASSUME NEW pk \in Packets
    PROVE  /\ pk.sender \in Senders
           /\ pk.epoch \in Nat /\ pk.seq \in Nat /\ pk.ts \in Nat
           /\ pk.fault \in BOOLEAN /\ pk.disconnected \in BOOLEAN
           /\ Id(pk) \in Ids
           /\ Id(pk) = [sender |-> pk.sender, epoch |-> pk.epoch, seq |-> pk.seq]
<1>1. pk \in PacketType
  BY ConstantsAssumption
<1> QED
  BY <1>1 DEF PacketType, Id, Ids

(* Every identity belongs to a packet.                                     *)
LEMMA IdFields ==
    ASSUME NEW id \in Ids
    PROVE  id.sender \in Senders /\ id.epoch \in Nat /\ id.seq \in Nat
<1>1. PICK pk \in Packets : id = Id(pk)
  BY DEF Ids
<1> QED
  BY <1>1, PacketFields DEF Id

(* Sliding the window keeps distances inside it and the newest bit set.    *)
LEMMA ShiftedType ==
    ASSUME NEW bitmap \in Windows, NEW n \in Nat
    PROVE  Shifted(bitmap, n) \in Windows /\ 0 \in Shifted(bitmap, n)
  BY ConstantsAssumption DEF Shifted, Windows

(* The two forms of the record that follows an acceptable packet.          *)
LEMMA NextRecordForm ==
    ASSUME NEW pk \in Packets, NEW old \in Record
    PROVE  /\ Late(pk, old) =>
                NextRecord(pk, old) = [epoch |-> old.epoch, high |-> old.high,
                                       bitmap |-> old.bitmap \union {Distance(pk, old)}]
           /\ ~Late(pk, old) /\ old # NoRecord /\ pk.epoch = old.epoch =>
                /\ pk.seq - old.high \in Nat
                /\ NextRecord(pk, old) = [epoch |-> pk.epoch, high |-> pk.seq,
                                          bitmap |-> Shifted(old.bitmap, pk.seq - old.high)]
           /\ ~Late(pk, old) /\ ~(old # NoRecord /\ pk.epoch = old.epoch) =>
                NextRecord(pk, old) = [epoch |-> pk.epoch, high |-> pk.seq, bitmap |-> {0}]
<1>1. pk.seq \in Nat /\ old.high \in Nat
  BY PacketFields DEF Record
<1>2. CASE Late(pk, old)
  BY <1>2 DEF NextRecord
<1>3. CASE ~Late(pk, old)
  BY <1>1, <1>3 DEF NextRecord, Late
<1> QED
  BY <1>2, <1>3

(* An acceptable packet turns a record into a record.                      *)
LEMMA NextRecordType ==
    ASSUME NEW pk \in Packets, NEW old \in Record, Acceptable(pk, old)
    PROVE  NextRecord(pk, old) \in Record
<1>1. pk.epoch \in Nat /\ pk.seq \in Nat
  BY PacketFields
<1>2. old.epoch \in Nat /\ old.high \in Nat /\ old.bitmap \in Windows
  BY DEF Record
<1>3. {0} \in Windows
  BY ConstantsAssumption DEF Windows
<1>4. CASE Late(pk, old)
  <2>1. Distance(pk, old) \in 0 .. Window - 1
    BY <1>1, <1>2, <1>4, ConstantsAssumption DEF Acceptable, Late, Distance
  <2>2. old.bitmap \union {Distance(pk, old)} \in Windows
    BY <1>2, <2>1 DEF Windows
  <2> QED
    BY <1>2, <1>4, <2>2, NextRecordForm DEF Record
<1>5. CASE ~Late(pk, old) /\ old # NoRecord /\ pk.epoch = old.epoch
  <2>1. Shifted(old.bitmap, pk.seq - old.high) \in Windows
    BY <1>2, <1>5, NextRecordForm, ShiftedType
  <2> QED
    BY <1>1, <1>5, <2>1, NextRecordForm DEF Record
<1>6. CASE ~Late(pk, old) /\ ~(old # NoRecord /\ pk.epoch = old.epoch)
  BY <1>1, <1>3, <1>6, NextRecordForm DEF Record
<1> QED
  BY <1>4, <1>5, <1>6

(* The record that follows has bit 0 set, so it is never mistaken for "no  *)
(* record".                                                                *)
LEMMA NextRecordBit ==
    ASSUME NEW pk \in Packets, NEW old \in Record, Acceptable(pk, old),
           old # NoRecord => 0 \in old.bitmap
    PROVE  0 \in NextRecord(pk, old).bitmap /\ NextRecord(pk, old) # NoRecord
<1>1. 0 \in NextRecord(pk, old).bitmap
  <2>1. CASE Late(pk, old)
    BY <2>1, NextRecordForm DEF Late
  <2>2. CASE ~Late(pk, old) /\ old # NoRecord /\ pk.epoch = old.epoch
    <3>1. old.bitmap \in Windows
      BY DEF Record
    <3> QED
      BY <2>2, <3>1, NextRecordForm, ShiftedType
  <2>3. CASE ~Late(pk, old) /\ ~(old # NoRecord /\ pk.epoch = old.epoch)
    BY <2>3, NextRecordForm
  <2> QED
    BY <2>1, <2>2, <2>3
<1> QED
  BY <1>1 DEF NoRecord

(* Appending, tearing and loading keep the types of file and journal.      *)
LEMMA FileOperations ==
    ASSUME NEW file \in FileType, NEW s \in Senders, NEW row \in Record
    PROVE  /\ Appended(file, s, row) \in FileType
           /\ Appended(file, s, row).rows = [file.rows EXCEPT ![s] = row]
           /\ Appended(file, s, row).sound = (file.sound /\ RowFollows(row, file.rows[s]))
           /\ Appended(file, s, row).exists = file.exists
           /\ Appended(file, s, row).torn = file.torn
           /\ Torn(file) \in FileType
           /\ Torn(file).rows = file.rows /\ Torn(file).sound = file.sound
           /\ Torn(file).exists = file.exists /\ Torn(file).torn = TRUE
<1>1. (file.sound /\ RowFollows(row, file.rows[s])) \in BOOLEAN
  BY DEF FileType
<1> QED
  BY <1>1 DEF Appended, Torn, FileType

(* Every packet identity in memory has the type of a record.               *)
LEMMA RememberedType ==
    ASSUME TypeOK, NEW s \in Senders
    PROVE  Remembered(s) \in Record
  BY DEF TypeOK, JournalType, Entry, Record, Remembered

LEMMA ConfiguredType ==
    ASSUME NEW file \in FileType
    PROVE  Configured(file) \in JournalType
<1>1. (Loadable(file) /\ Cardinality(Known(file.rows)) <= MaxEntries) \in BOOLEAN
  BY DEF Loadable, FileType
<1> QED
  BY <1>1, EmptyTypes DEF Configured, JournalType, FileType

(* The packet inside the receive thread.                                   *)
LEMMA BusyRx ==
    ASSUME TypeOK, rx.busy
    PROVE  rx.packet \in Packets /\ rx.at \in Nat
<1>1. rx # Idle
  BY DEF Idle
<1>2. rx \in [busy : {TRUE}, packet : Packets, at : Nat]
  BY <1>1 DEF TypeOK, RxType
<1> QED
  BY <1>2

(* The row that observe_packet persists for an admissible packet.          *)
LEMMA RowType ==
    ASSUME TypeOK, rx.busy, Admissible(rx.packet, rx.at)
    PROVE  Row(rx.packet) \in Record
<1>1. rx.packet \in Packets /\ rx.packet.sender \in Senders
  BY BusyRx, PacketFields
<1>2. Remembered(rx.packet.sender) \in Record
  BY <1>1, RememberedType
<1> QED
  BY <1>1, <1>2, NextRecordType DEF Row, Admissible

(* Counting a use keeps the history in range.                              *)
LEMMA CountedUseType ==
    ASSUME TypeOK, NEW pk \in Packets
    PROVE  CountedUse(pk) \in [Ids -> 0 .. 2]
  BY PacketFields DEF TypeOK, CountedUse

(* What is left of the volatile state when the process goes down.          *)
LEMMA DownType ==
    ASSUME TypeOK, Down
    PROVE  /\ up' \in BOOLEAN /\ rx' \in RxType /\ peers' \in [Senders -> Entry]
           /\ journal' \in JournalType /\ lost' \subseteq Senders
<1>1. NoJournal \in JournalType
  BY EmptyTypes DEF NoJournal, JournalType
<1> QED
  BY <1>1, EmptyTypes DEF Down, TypeOK, RxType

(* The file a failed write leaves, and the identities it burns.            *)
LEMMA FailedWriteType ==
    ASSUME TypeOK, rx.busy, Admissible(rx.packet, rx.at),
           disk' \in FailedWrites(rx.packet), burnt' = Unconfirmed(rx.packet)
    PROVE  disk' \in FileType /\ burnt' \subseteq Ids
<1>1. rx.packet \in Packets
  BY BusyRx
<1>2. rx.packet.sender \in Senders /\ Id(rx.packet) \in Ids
  BY <1>1, PacketFields
<1>3. disk \in FileType /\ burnt \subseteq Ids
  BY DEF TypeOK
<1>4. Appended(disk, rx.packet.sender, Row(rx.packet)) \in FileType /\ Torn(disk) \in FileType
  BY <1>2, <1>3, RowType, FileOperations
<1>5. disk' \in FileType
  BY <1>3, <1>4 DEF FailedWrites
<1> QED
  BY <1>2, <1>3, <1>5 DEF Unconfirmed

(* The journal and its file after a row was persisted.                     *)
LEMMA PersistType ==
    ASSUME TypeOK, rx.busy, Admissible(rx.packet, rx.at), Persist(rx.packet)
    PROVE  disk' \in FileType /\ journal' \in JournalType
<1>1. rx.packet.sender \in Senders
  BY BusyRx, PacketFields
<1>2. Row(rx.packet) \in Record
  BY RowType
<1>3. disk \in FileType /\ journal \in JournalType
  BY DEF TypeOK
<1>4. CASE journal.enabled
  <2>0. disk' = Appended(disk, rx.packet.sender, Row(rx.packet))
    BY <1>4 DEF Persist
  <2>1. disk' \in FileType
    BY <1>1, <1>2, <1>3, <2>0, FileOperations
  <2>2. journal' = [journal EXCEPT !.records[rx.packet.sender] = Row(rx.packet)]
    BY <1>4 DEF Persist
  <2>3. journal' \in JournalType
    BY <1>1, <1>2, <1>3, <2>2 DEF JournalType
  <2> QED
    BY <2>1, <2>3
<1>5. CASE ~journal.enabled
  BY <1>3, <1>5 DEF Persist
<1> QED
  BY <1>4, <1>5

(* The entry shown for an admissible packet has the type of an entry.      *)
LEMMA PresentedType ==
    ASSUME NEW pk \in Packets, NEW old \in Entry, NEW bitmap \in Windows
    PROVE  Presented(pk, old, bitmap) \in Entry
<1>1. /\ pk.epoch \in Nat /\ pk.seq \in Nat /\ pk.ts \in Nat
      /\ pk.fault \in BOOLEAN /\ pk.disconnected \in BOOLEAN
  BY PacketFields
<1>2. old.fault \in BOOLEAN /\ old.disconnected \in BOOLEAN
  BY DEF Entry
<1>3. (pk.kind = "peer_goodbye") \in BOOLEAN
  OBVIOUS
<1>4. /\ (IF pk.kind \in {"heartbeat", "edge_health"} THEN pk.fault ELSE old.fault) \in BOOLEAN
      /\ (IF pk.kind = "edge_health" THEN pk.disconnected ELSE old.disconnected) \in BOOLEAN
  BY <1>1, <1>2
<1> QED
  BY <1>1, <1>3, <1>4 DEF Presented, Entry

(* Trimming removes at most one entry and changes no other.                *)
LEMMA TrimmedForm ==
    ASSUME NEW table \in [Senders -> Entry], NEW left \in Trimmed(table)
    PROVE  /\ left \in [Senders -> Entry]
           /\ \A s \in Senders : left[s] = table[s] \/ left[s] = NoPeer
<1>1. CASE left = table
  BY <1>1
<1>2. CASE \E s \in Oldest(table) : left = [table EXCEPT ![s] = NoPeer]
  BY <1>2, EmptyTypes DEF Oldest, Known
<1> QED
  BY <1>1, <1>2 DEF Trimmed

(***************************************************************************)
(* Type correctness.                                                       *)
(***************************************************************************)

LEMMA TypeInit == Init => TypeOK
<1> SUFFICES ASSUME Init PROVE TypeOK
  OBVIOUS
<1>1. NoJournal \in JournalType /\ NoFile \in FileType
  BY EmptyTypes DEF NoJournal, NoFile, JournalType, FileType
<1>2. uses \in [Ids -> 0 .. 2]
  BY DEF Init
<1>3. peers \in [Senders -> Entry] /\ journal \in JournalType /\ disk \in FileType
  BY <1>1, EmptyTypes DEF Init
<1>4. rx \in RxType
  BY DEF Init, RxType
<1> QED
  BY <1>2, <1>3, <1>4 DEF Init, TypeOK

LEMMA TypeStarts ==
    ASSUME TypeOK, NEW epoch \in Epochs
    PROVE  /\ StartInMemory(epoch) => TypeOK'
           /\ StartFromJournal(epoch) => TypeOK'
           /\ StartNewJournal(epoch) => TypeOK'
           /\ StartWithoutJournal(epoch) => TypeOK'
<1>1. epoch \in Nat
  BY ConstantsAssumption
<1>2. ASSUME Start(epoch), journal' \in JournalType, disk' \in FileType
      PROVE  TypeOK'
  BY <1>1, <1>2 DEF Start, TypeOK
<1>3. NoFile \in FileType
  BY EmptyTypes DEF NoFile, FileType
<1>4. ASSUME StartInMemory(epoch) PROVE TypeOK'
  BY <1>2, <1>4 DEF StartInMemory, TypeOK
<1>5. ASSUME StartFromJournal(epoch) PROVE TypeOK'
  BY <1>2, <1>5, ConfiguredType DEF StartFromJournal, TypeOK
<1>6. ASSUME StartNewJournal(epoch) PROVE TypeOK'
  <2>1. PICK file \in {[disk EXCEPT !.exists = TRUE], Torn([disk EXCEPT !.exists = TRUE])} :
           /\ disk' = file
           /\ journal' \in {Configured(file), [Configured(NoFile) EXCEPT !.healthy = FALSE]}
    BY <1>6 DEF StartNewJournal
  <2>2. file \in FileType
    BY DEF TypeOK, FileType, Torn
  <2>3. Configured(file) \in JournalType /\ Configured(NoFile) \in JournalType
    BY <1>3, <2>2, ConfiguredType
  <2>4. [Configured(NoFile) EXCEPT !.healthy = FALSE] \in JournalType
    BY <2>3 DEF JournalType
  <2> QED
    BY <1>2, <1>6, <2>1, <2>2, <2>3, <2>4 DEF StartNewJournal
<1>7. ASSUME StartWithoutJournal(epoch) PROVE TypeOK'
  BY <1>2, <1>3, <1>7, ConfiguredType DEF StartWithoutJournal, TypeOK
<1> QED
  BY <1>4, <1>5, <1>6, <1>7

LEMMA TypeAdmitLate ==
    ASSUME TypeOK, AdmitLate
    PROVE  TypeOK'
<1>1. rx.packet \in Packets /\ rx.packet.sender \in Senders
  BY BusyRx, PacketFields DEF AdmitLate
<1>2. disk' \in FileType /\ journal' \in JournalType
  BY PersistType DEF AdmitLate
<1>3. uses' \in [Ids -> 0 .. 2]
  BY <1>1, CountedUseType DEF AdmitLate
<1>4. Row(rx.packet).bitmap \in Windows
  BY RowType DEF AdmitLate, Record
<1>5. peers[rx.packet.sender] \in Entry
  BY <1>1 DEF TypeOK
<1>6. Marked(peers[rx.packet.sender], Row(rx.packet).bitmap) \in Entry
  BY <1>4, <1>5 DEF Marked, Entry
<1>7. peers' \in [Senders -> Entry]
  BY <1>1, <1>6 DEF AdmitLate, TypeOK
<1> QED
  BY <1>2, <1>3, <1>7 DEF AdmitLate, TypeOK, RxType

LEMMA TypeAdmitNew ==
    ASSUME TypeOK, AdmitNew
    PROVE  TypeOK'
<1> DEFINE s == rx.packet.sender
           entry == Presented(rx.packet, peers[s], Row(rx.packet).bitmap)
<1>1. rx.packet \in Packets /\ s \in Senders
  BY BusyRx, PacketFields DEF AdmitNew
<1>2. disk' \in FileType /\ journal' \in JournalType
  BY PersistType DEF AdmitNew
<1>3. uses' \in [Ids -> 0 .. 2]
  BY <1>1, CountedUseType DEF AdmitNew
<1>4. Row(rx.packet).bitmap \in Windows
  BY RowType DEF AdmitNew, Record
<1>5. peers[s] \in Entry
  BY <1>1 DEF TypeOK
<1>6. entry \in Entry
  BY <1>1, <1>4, <1>5, PresentedType
<1>7. [peers EXCEPT ![s] = entry] \in [Senders -> Entry]
  BY <1>1, <1>6 DEF TypeOK
<1>8. peers' \in Trimmed([peers EXCEPT ![s] = entry])
  BY DEF AdmitNew
<1>9. peers' \in [Senders -> Entry]
  BY <1>7, <1>8, TrimmedForm
<1>10. lost' \subseteq Senders
  BY <1>1 DEF AdmitNew, TypeOK, Known
<1> QED
  BY <1>2, <1>3, <1>9, <1>10 DEF AdmitNew, TypeOK, RxType

LEMMA TypeExpire ==
    ASSUME TypeOK, Expire
    PROVE  TypeOK'
<1>1. ASSUME NEW s \in Senders
      PROVE  Refreshed(s) \in Entry
  <2>1. peers[s] \in Entry
    BY DEF TypeOK
  <2>2. (Age(s) > StaleTimeout) \in BOOLEAN
    OBVIOUS
  <2>3. (Age(s) > StaleTimeout \/ peers[s].disconnected) \in BOOLEAN
    BY <2>1 DEF Entry
  <2> QED
    BY <2>1, <2>2, <2>3 DEF Refreshed, Entry
<1>2. peers' \in [Senders -> Entry]
  BY <1>1, EmptyTypes DEF Expire
<1>3. lost' \subseteq Senders
  BY DEF Expire, TypeOK, Expired, Known
<1> QED
  BY <1>2, <1>3 DEF Expire, TypeOK

(* Every action keeps every variable in its type.                          *)
LEMMA TypeStep == TypeOK /\ [Next]_vars => TypeOK'
<1> SUFFICES ASSUME TypeOK, [Next]_vars PROVE TypeOK'
  OBVIOUS
<1>1. ASSUME NEW epoch \in Epochs,
             \/ StartInMemory(epoch) \/ StartFromJournal(epoch)
             \/ StartNewJournal(epoch) \/ StartWithoutJournal(epoch)
      PROVE  TypeOK'
  BY <1>1, TypeStarts
<1>2. CASE Crash
  BY <1>2, DownType DEF Crash, TypeOK
<1>3. CASE ReconfigureLedger
  BY <1>3 DEF ReconfigureLedger, TypeOK, JournalType
<1>4. CASE Tick
  BY <1>4 DEF Tick, TypeOK
<1>5. ASSUME NEW pk \in Packets, ReceivePacket(pk) PROVE TypeOK'
  <2>1. rx' \in RxType
    BY <1>5 DEF ReceivePacket, RxType, TypeOK
  <2> QED
    BY <1>5, <2>1 DEF ReceivePacket, TypeOK
<1>6. CASE RefusePacket
  BY <1>6 DEF RefusePacket, TypeOK, RxType
<1>7. CASE PersistFails
  <2>1. disk' \in FileType /\ burnt' \subseteq Ids
    BY <1>7, FailedWriteType DEF PersistFails
  <2>2. journal' \in JournalType
    BY <1>7 DEF PersistFails, TypeOK, JournalType
  <2> QED
    BY <1>7, <2>1, <2>2 DEF PersistFails, TypeOK, RxType
<1>8. CASE CrashInPersist
  <2>1. disk' \in FileType /\ burnt' \subseteq Ids
    BY <1>8, FailedWriteType DEF CrashInPersist
  <2> QED
    BY <1>8, <2>1, DownType DEF CrashInPersist, TypeOK
<1>9. CASE AdmitLate
  BY <1>9, TypeAdmitLate
<1>10. CASE AdmitNew
  BY <1>10, TypeAdmitNew
<1>11. CASE Expire
  BY <1>11, TypeExpire
<1>12. CASE Clear
  BY <1>12, EmptyTypes DEF Clear, TypeOK
<1>13. CASE UNCHANGED vars
  BY <1>13 DEF vars, TypeOK
<1> QED
  BY <1>1, <1>2, <1>3, <1>4, <1>5, <1>6, <1>7, <1>8, <1>9, <1>10, <1>11, <1>12, <1>13
  DEF Next

(* Every variable of the cache, the journal and its file keeps its type;   *)
(* no window ever holds a distance the 64-bit bitmap has no bit for.       *)
THEOREM TypeCorrect == Spec => []TypeOK
<1>1. Init => TypeOK
  BY TypeInit
<1>2. TypeOK /\ [Next]_vars => TypeOK'
  BY TypeStep
<1> QED
  BY <1>1, <1>2, PTL DEF Spec

(***************************************************************************)
(* The replay window does its work: an acceptable packet is not covered,   *)
(* the record that follows covers it and all that was covered before, and  *)
(* load() will accept the row.                                             *)
(***************************************************************************)
LEMMA AcceptableNotCovered ==
    ASSUME NEW pk \in Packets, NEW old \in Record, old # NoRecord, Acceptable(pk, old)
    PROVE  ~Covered(old, Id(pk))
<1>1. /\ pk.epoch \in Nat /\ pk.seq \in Nat
      /\ Id(pk).epoch = pk.epoch /\ Id(pk).seq = pk.seq
  BY PacketFields
<1>2. old.epoch \in Nat /\ old.high \in Nat
  BY DEF Record
<1> QED
  BY <1>1, <1>2 DEF Acceptable, Late, Distance, Covered

LEMMA NextRecordCovers ==
    ASSUME NEW pk \in Packets, NEW old \in Record, Acceptable(pk, old),
           old # NoRecord => 0 \in old.bitmap
    PROVE  Covered(NextRecord(pk, old), Id(pk))
<1>1. /\ pk.epoch \in Nat /\ pk.seq \in Nat
      /\ Id(pk).epoch = pk.epoch /\ Id(pk).seq = pk.seq
  BY PacketFields
<1>2. old.epoch \in Nat /\ old.high \in Nat
  BY DEF Record
<1>3. CASE Late(pk, old)
  BY <1>1, <1>2, <1>3, NextRecordForm DEF Late, Distance, Covered
<1>4. CASE ~Late(pk, old)
  <2>1. NextRecord(pk, old).epoch = pk.epoch /\ NextRecord(pk, old).high = pk.seq
    BY <1>4, NextRecordForm
  <2>2. 0 \in NextRecord(pk, old).bitmap
    BY NextRecordBit
  <2>3. pk.seq - pk.seq = 0
    BY <1>1
  <2> QED
    BY <1>1, <2>1, <2>2, <2>3 DEF Covered
<1> QED
  BY <1>3, <1>4

LEMMA NextRecordKeepsCovered ==
    ASSUME NEW pk \in Packets, NEW old \in Record, Acceptable(pk, old), old # NoRecord,
           NEW id \in Ids, Covered(old, id)
    PROVE  Covered(NextRecord(pk, old), id)
<1> DEFINE next == NextRecord(pk, old)
<1>1. pk.epoch \in Nat /\ pk.seq \in Nat
  BY PacketFields
<1>2. old.epoch \in Nat /\ old.high \in Nat /\ old.bitmap \in Windows
  BY DEF Record
<1>3. id.epoch \in Nat /\ id.seq \in Nat
  BY IdFields
<1>4. CASE Late(pk, old)
  <2>1. next.epoch = old.epoch /\ next.high = old.high /\ old.bitmap \subseteq next.bitmap
    BY <1>4, NextRecordForm
  <2> QED
    BY <2>1 DEF Covered
<1>5. CASE ~Late(pk, old) /\ pk.epoch = old.epoch
  <2>1. /\ pk.seq - old.high \in Nat
        /\ next.epoch = old.epoch /\ next.high = pk.seq
        /\ next.bitmap = Shifted(old.bitmap, pk.seq - old.high)
    BY <1>5, NextRecordForm
  <2>2. CASE id.epoch < old.epoch
    BY <2>1, <2>2 DEF Covered
  <2>3. CASE ~(id.epoch < old.epoch)
    <3>1. /\ id.epoch = old.epoch /\ id.seq <= old.high
          /\ old.high - id.seq < Window => old.high - id.seq \in old.bitmap
      BY <2>3 DEF Covered
    <3>2. id.seq <= pk.seq /\ pk.seq - id.seq = (old.high - id.seq) + (pk.seq - old.high)
      BY <1>1, <1>2, <1>3, <2>1, <3>1
    <3>3. ASSUME pk.seq - id.seq < Window
          PROVE  pk.seq - id.seq \in next.bitmap
      <4>1. old.high - id.seq \in Nat /\ old.high - id.seq < Window
        BY <1>1, <1>2, <1>3, <2>1, <3>1, <3>3, ConstantsAssumption
      <4>2. old.high - id.seq \in old.bitmap
        BY <3>1, <4>1
      <4>3. pk.seq - id.seq \in 0 .. Window - 1
        BY <1>1, <1>2, <1>3, <3>2, <3>3, ConstantsAssumption
      <4> QED
        BY <2>1, <3>2, <4>2, <4>3 DEF Shifted
    <3> QED
      BY <2>1, <3>1, <3>2, <3>3 DEF Covered
  <2> QED
    BY <2>2, <2>3
<1>6. CASE ~Late(pk, old) /\ pk.epoch # old.epoch
  <2>1. next.epoch = pk.epoch
    BY <1>6, NextRecordForm
  <2>2. pk.epoch > old.epoch
    BY <1>6 DEF Acceptable, Late
  <2> QED
    BY <1>1, <1>2, <1>3, <2>1, <2>2 DEF Covered
<1> QED
  BY <1>4, <1>5, <1>6

LEMMA NextRecordFollows ==
    ASSUME NEW pk \in Packets, NEW old \in Record, Acceptable(pk, old),
           old # NoRecord => 0 \in old.bitmap
    PROVE  RowFollows(NextRecord(pk, old), old)
<1>1. pk.epoch \in Nat /\ pk.seq \in Nat
  BY PacketFields
<1>2. old.epoch \in Nat /\ old.high \in Nat
  BY DEF Record
<1>3. 0 \in NextRecord(pk, old).bitmap
  BY NextRecordBit
<1>4. CASE old = NoRecord
  BY <1>3, <1>4 DEF RowFollows
<1>5. CASE Late(pk, old)
  BY <1>3, <1>5, NextRecordForm DEF RowFollows
<1>6. CASE old # NoRecord /\ ~Late(pk, old) /\ pk.epoch = old.epoch
  <2>1. pk.seq > old.high
    BY <1>1, <1>2, <1>6 DEF Late
  <2> QED
    BY <1>3, <1>6, <2>1, NextRecordForm DEF RowFollows
<1>7. CASE old # NoRecord /\ ~Late(pk, old) /\ pk.epoch # old.epoch
  <2>1. pk.epoch > old.epoch
    BY <1>7 DEF Acceptable, Late
  <2> QED
    BY <1>3, <1>7, <2>1, NextRecordForm DEF RowFollows
<1> QED
  BY <1>4, <1>5, <1>6, <1>7

(***************************************************************************)
(* The journal defeats replays: proofs of the inductive invariant          *)
(* JournalInv, of the safety properties that follow from it, and of the    *)
(* refinement of PeerInbox.                                                *)
(***************************************************************************)

IInv == TypeOK /\ (Journaled => JournalInv)

(* What JournalInv asks of the journal file, said of any file.             *)
SoundFile(file) ==
    /\ file.sound
    /\ ~file.exists => file.rows = NoRecords
    /\ \A s \in Senders : file.rows[s] # NoRecord => 0 \in file.rows[s].bitmap
    /\ Cardinality(Known(file.rows)) <= MaxEntries

CoversUses(file) ==
    \A id \in Ids : uses[id] > 0 =>
        /\ file.rows[id.sender] # NoRecord
        /\ Covered(file.rows[id.sender], id)

(***************************************************************************)
(* Admission under a healthy journal.                                      *)
(***************************************************************************)

(* While the journal is healthy, what is remembered of a sender is its     *)
(* last row on disk, whether or not the cache still has its entry.         *)
LEMMA RememberedIsRow ==
    ASSUME TypeOK, JournalInv, Journaled, up, journal.healthy, NEW s \in Senders
    PROVE  Remembered(s) = disk.rows[s]
<1>1. journal.enabled /\ journal.records = disk.rows
  BY DEF JournalInv, MemoryFollowsDisk
<1>2. CASE disk.rows[s] # NoRecord
  BY <1>1, <1>2 DEF Remembered
<1>3. CASE disk.rows[s] = NoRecord
  <2>1. ASSUME s \in Known(peers) PROVE FALSE
    <3>1. journal.records[s] = [epoch |-> peers[s].epoch, high |-> peers[s].high,
                                bitmap |-> peers[s].bitmap]
      BY <2>1 DEF JournalInv, CacheFollowsJournal, CacheAgreesWithJournal
    <3>2. peers[s].bitmap # {}
      BY <2>1 DEF Known
    <3> QED
      BY <1>1, <1>3, <3>1, <3>2 DEF NoRecord
  <2>2. peers[s] = NoPeer
    BY <2>1 DEF JournalInv, CacheFollowsJournal, Known
  <2> QED
    BY <1>1, <1>3, <2>2 DEF Remembered, NoRecord, NoPeer
<1> QED
  BY <1>2, <1>3

(* The packet about to be admitted was never admitted, and its row extends *)
(* the file to one that load() accepts, that stays within max_entries, and *)
(* that covers every admitted identity and the new one.                    *)
LEMMA AdmissibleRow ==
    ASSUME TypeOK, JournalInv, Journaled, up, rx.busy, Admissible(rx.packet, rx.at)
    PROVE  /\ uses[Id(rx.packet)] = 0
           /\ SoundFile(Appended(disk, rx.packet.sender, Row(rx.packet)))
           /\ CoversUses(Appended(disk, rx.packet.sender, Row(rx.packet)))
           /\ Row(rx.packet) # NoRecord
           /\ 0 \in Row(rx.packet).bitmap
           /\ Covered(Row(rx.packet), Id(rx.packet))
           /\ disk.exists /\ ~disk.torn
<1> DEFINE pk == rx.packet
           s == pk.sender
           old == disk.rows[s]
           file == Appended(disk, s, Row(pk))
<1>1. /\ pk \in Packets /\ s \in Senders
      /\ Id(pk) \in Ids /\ Id(pk).sender = s
  BY BusyRx, PacketFields
<1>2. journal.healthy /\ journal.enabled /\ journal.records = disk.rows
      /\ disk.exists /\ ~disk.torn
  BY DEF Admissible, JournalInv, MemoryFollowsDisk
<1>3. Remembered(s) = old
  BY <1>1, <1>2, RememberedIsRow
<1>4. Acceptable(pk, old) /\ Row(pk) = NextRecord(pk, old) /\ ~JournalFull(s)
  BY <1>3 DEF Admissible, Row
<1>5. old \in Record /\ disk \in FileType /\ Row(pk) \in Record
  BY <1>1, RowType DEF TypeOK, FileType
<1>6. old # NoRecord => 0 \in old.bitmap
  BY <1>1 DEF JournalInv, DiskSound
<1>7. 0 \in Row(pk).bitmap /\ Row(pk) # NoRecord
  BY <1>1, <1>4, <1>5, <1>6, NextRecordBit
<1>8. Covered(Row(pk), Id(pk))
  BY <1>1, <1>4, <1>5, <1>6, NextRecordCovers
<1>9. uses[Id(pk)] = 0
  <2>1. uses[Id(pk)] \in 0 .. 2
    BY <1>1 DEF TypeOK
  <2>2. ASSUME uses[Id(pk)] > 0 PROVE FALSE
    <3>1. old # NoRecord /\ Covered(old, Id(pk))
      BY <1>1, <2>2 DEF JournalInv, UsesCovered
    <3> QED
      BY <1>1, <1>4, <1>5, <3>1, AcceptableNotCovered
  <2> QED
    BY <2>1, <2>2
<1>10. /\ file.rows = [disk.rows EXCEPT ![s] = Row(pk)]
       /\ file.sound = (disk.sound /\ RowFollows(Row(pk), old))
       /\ file.exists = disk.exists
  BY DEF Appended
<1>11. file.rows[s] = Row(pk) /\ \A t \in Senders : t # s => file.rows[t] = disk.rows[t]
  BY <1>1, <1>5, <1>10 DEF FileType
<1>12. RowFollows(Row(pk), old)
  BY <1>1, <1>4, <1>5, <1>6, NextRecordFollows
<1>13. Cardinality(Known(file.rows)) <= MaxEntries
  <2>1. Known(file.rows) = Known(disk.rows) \union {s}
    BY <1>1, <1>7, <1>11 DEF Known
  <2>2. IsFiniteSet(Known(disk.rows))
    BY ConstantsAssumption, FS_Subset DEF Known
  <2>3. Cardinality(Known(disk.rows)) \in Nat /\ Cardinality(Known(disk.rows)) <= MaxEntries
    BY <2>2, FS_CardinalityType DEF JournalInv, DiskSound
  <2>4. CASE s \in Known(disk.rows)
    <3>1. Known(file.rows) = Known(disk.rows)
      BY <2>1, <2>4
    <3> QED
      BY <2>3, <3>1
  <2>5. CASE s \notin Known(disk.rows)
    <3>1. old = NoRecord
      BY <1>1, <1>6, <2>5 DEF Known
    <3>2. ~(Cardinality(Known(disk.rows)) >= MaxEntries)
      BY <1>2, <1>4, <3>1 DEF JournalFull
    <3>3. Cardinality(Known(file.rows)) = Cardinality(Known(disk.rows)) + 1
      BY <2>1, <2>2, <2>5, FS_AddElement
    <3> QED
      BY <2>3, <3>2, <3>3, ConstantsAssumption
  <2> QED
    BY <2>4, <2>5
<1>14. SoundFile(file)
  <2>1. file.sound /\ file.exists
    BY <1>2, <1>10, <1>12 DEF JournalInv, DiskSound
  <2>2. \A t \in Senders : file.rows[t] # NoRecord => 0 \in file.rows[t].bitmap
    BY <1>7, <1>11 DEF JournalInv, DiskSound
  <2> QED
    BY <1>13, <2>1, <2>2 DEF SoundFile
<1>15. CoversUses(file)
  <2> SUFFICES ASSUME NEW id \in Ids, uses[id] > 0
               PROVE  file.rows[id.sender] # NoRecord /\ Covered(file.rows[id.sender], id)
    BY DEF CoversUses
  <2>1. disk.rows[id.sender] # NoRecord /\ Covered(disk.rows[id.sender], id)
    BY DEF JournalInv, UsesCovered
  <2>2. id.sender \in Senders
    BY IdFields
  <2>3. CASE id.sender = s
    BY <1>1, <1>4, <1>5, <1>7, <1>11, <2>1, <2>3, NextRecordKeepsCovered
  <2>4. CASE id.sender # s
    BY <1>11, <2>1, <2>2, <2>4
  <2> QED
    BY <2>3, <2>4
<1> QED
  BY <1>2, <1>7, <1>8, <1>9, <1>14, <1>15

(***************************************************************************)
(* JournalInv is inductive: one lemma per kind of step.                    *)
(***************************************************************************)

(* The journal's part of the invariant depends on these variables only.    *)
LEMMA JournalInvFrame ==
    ASSUME JournalInv,
           up' = up, peers' = peers, journal' = journal, disk' = disk, uses' = uses
    PROVE  JournalInv'
  BY DEF JournalInv, DiskSound, MemoryFollowsDisk, CacheFollowsJournal,
         CacheAgreesWithJournal, UsesCovered, Covered, Known

(* The file and the history keep their part when the file stays sound and  *)
(* covers the admitted identities.                                         *)
LEMMA FileFrame ==
    ASSUME JournalInv, SoundFile(disk'), uses' = uses, CoversUses(disk')
    PROVE  /\ DiskSound' /\ UsesCovered' /\ \A id \in Ids : uses'[id] <= 1
  BY DEF JournalInv, DiskSound, SoundFile, UsesCovered, CoversUses, Covered, Known

(* The process that is down has nothing in memory to disagree with disk.   *)
LEMMA DownFrame ==
    ASSUME Down
    PROVE  MemoryFollowsDisk' /\ CacheFollowsJournal'
<1>1. ~up' /\ peers' = NoPeers
  BY DEF Down
<1>2. \A s \in Senders : peers'[s] = NoPeer
  BY <1>1 DEF NoPeers
<1> QED
  BY <1>1, <1>2 DEF MemoryFollowsDisk, CacheFollowsJournal, CacheAgreesWithJournal

(* Forgetting entries, or changing only what is not replay memory in them, *)
(* keeps the cache in agreement with the journal.                          *)
LEMMA CacheFrame ==
    ASSUME CacheFollowsJournal, up, up' = up, journal'.records = journal.records,
           \A s \in Senders :
              \/ peers'[s] = NoPeer
              \/ /\ s \in Known(peers)
                 /\ peers'[s].epoch = peers[s].epoch
                 /\ peers'[s].high = peers[s].high
                 /\ peers'[s].bitmap = peers[s].bitmap
    PROVE  CacheFollowsJournal'
<1>1. NoPeer.bitmap = {}
  BY DEF NoPeer
<1>2. ASSUME NEW s \in Senders, peers'[s].bitmap = {} PROVE peers'[s] = NoPeer
  BY <1>2 DEF Known
<1>3. ASSUME Journaled, NEW s \in Senders, peers'[s].bitmap # {}
      PROVE  journal'.records[s] = [epoch |-> peers'[s].epoch, high |-> peers'[s].high,
                                    bitmap |-> peers'[s].bitmap]
  <2>1. peers'[s] # NoPeer
    BY <1>1, <1>3
  <2>2. /\ s \in Known(peers)
        /\ peers'[s].epoch = peers[s].epoch
        /\ peers'[s].high = peers[s].high
        /\ peers'[s].bitmap = peers[s].bitmap
    BY <2>1
  <2>3. journal.records[s] = [epoch |-> peers[s].epoch, high |-> peers[s].high,
                              bitmap |-> peers[s].bitmap]
    BY <1>3, <2>2 DEF CacheFollowsJournal, CacheAgreesWithJournal
  <2> QED
    BY <2>2, <2>3
<1> QED
  BY <1>2, <1>3 DEF CacheFollowsJournal, CacheAgreesWithJournal, Known

LEMMA JournalInvInit == Init => JournalInv
<1> SUFFICES ASSUME Init PROVE JournalInv
  OBVIOUS
<1>1. /\ disk.sound /\ disk.rows = NoRecords
      /\ \A s \in Senders : disk.rows[s] = NoRecord /\ disk.rows[s].bitmap = {}
  BY DEF Init, NoFile, NoRecords, NoRecord
<1>2. Known(disk.rows) = {}
  BY <1>1 DEF Known
<1>3. DiskSound
  BY <1>1, <1>2, FS_EmptySet, ConstantsAssumption DEF DiskSound
<1>4. CacheFollowsJournal
  BY DEF Init, NoPeers, NoPeer, CacheFollowsJournal, CacheAgreesWithJournal
<1>5. \A id \in Ids : uses[id] = 0
  BY DEF Init
<1> QED
  BY <1>3, <1>4, <1>5 DEF Init, JournalInv, MemoryFollowsDisk, UsesCovered

(* Whatever way the process starts, it has read the file or is unhealthy.  *)
LEMMA JournalInvStart ==
    ASSUME TypeOK, JournalInv, Journaled, NEW epoch \in Epochs,
           \/ StartFromJournal(epoch) \/ StartNewJournal(epoch) \/ StartWithoutJournal(epoch)
    PROVE  JournalInv'
<1>1. Start(epoch)
  BY DEF StartFromJournal, StartNewJournal, StartWithoutJournal
<1>2. ~up /\ up' /\ peers' = peers /\ uses' = uses
  BY <1>1 DEF Start
<1>3. CacheFollowsJournal'
  <2>1. peers' = NoPeers
    BY <1>2 DEF JournalInv, CacheFollowsJournal
  <2>2. \A s \in Senders : peers'[s] = NoPeer /\ peers'[s].bitmap = {}
    BY <2>1 DEF NoPeers, NoPeer
  <2> QED
    BY <1>2, <2>2 DEF CacheFollowsJournal, CacheAgreesWithJournal, Known
<1>4. disk'.sound = disk.sound /\ disk'.rows = disk.rows /\ (disk.exists => disk'.exists)
  <2>1. disk \in FileType
    BY DEF TypeOK
  <2>2. CASE StartFromJournal(epoch) \/ StartWithoutJournal(epoch)
    BY <2>2 DEF StartFromJournal, StartWithoutJournal
  <2>3. CASE StartNewJournal(epoch)
    BY <2>1, <2>3 DEF StartNewJournal, FileType, Torn
  <2> QED
    BY <2>2, <2>3
<1>5. MemoryFollowsDisk'
  <2> SUFFICES ASSUME TRUE
               PROVE  /\ journal'.enabled
                      /\ journal'.healthy =>
                            disk'.exists /\ ~disk'.torn /\ journal'.records = disk'.rows
    BY DEF MemoryFollowsDisk
  <2>1. ASSUME NEW file, journal' = Configured(file), disk' = file \/ ~file.exists
        PROVE  /\ journal'.enabled
               /\ journal'.healthy =>
                     disk'.exists /\ ~disk'.torn /\ journal'.records = disk'.rows
    BY <2>1 DEF Configured, Loadable
  <2>2. ~NoFile.exists
    BY DEF NoFile
  <2>3. CASE StartFromJournal(epoch)
    BY <2>1, <2>3 DEF StartFromJournal
  <2>4. CASE StartWithoutJournal(epoch)
    BY <2>1, <2>2, <2>4 DEF StartWithoutJournal
  <2>5. CASE StartNewJournal(epoch)
    <3>1. PICK file \in {[disk EXCEPT !.exists = TRUE], Torn([disk EXCEPT !.exists = TRUE])} :
             /\ disk' = file
             /\ journal' \in {Configured(file), [Configured(NoFile) EXCEPT !.healthy = FALSE]}
      BY <2>5 DEF StartNewJournal
    <3>2. CASE journal' = Configured(file)
      BY <2>1, <3>1, <3>2
    <3>3. CASE journal' = [Configured(NoFile) EXCEPT !.healthy = FALSE]
      BY <3>3 DEF Configured
    <3> QED
      BY <3>1, <3>2, <3>3
  <2> QED
    BY <2>3, <2>4, <2>5
<1>6. DiskSound' /\ UsesCovered' /\ \A id \in Ids : uses'[id] <= 1
  <2>1. SoundFile(disk')
    BY <1>4 DEF JournalInv, DiskSound, SoundFile
  <2>2. CoversUses(disk')
    BY <1>4 DEF JournalInv, UsesCovered, CoversUses
  <2> QED
    BY <1>2, <2>1, <2>2, FileFrame
<1> QED
  BY <1>3, <1>5, <1>6 DEF JournalInv

(* A write that goes wrong leaves a file that still loads, or a torn one.  *)
LEMMA FailedWriteSound ==
    ASSUME TypeOK, JournalInv, Journaled, up, rx.busy, Admissible(rx.packet, rx.at),
           disk' \in FailedWrites(rx.packet), uses' = uses
    PROVE  DiskSound' /\ UsesCovered' /\ \A id \in Ids : uses'[id] <= 1
<1>1. SoundFile(disk) /\ CoversUses(disk)
  BY DEF JournalInv, DiskSound, SoundFile, UsesCovered, CoversUses
<1>2. SoundFile(Torn(disk)) /\ CoversUses(Torn(disk))
  <2>1. /\ Torn(disk).sound = disk.sound /\ Torn(disk).rows = disk.rows
        /\ Torn(disk).exists = disk.exists
    BY DEF Torn, TypeOK, FileType
  <2> QED
    BY <1>1, <2>1 DEF SoundFile, CoversUses
<1>3. /\ SoundFile(Appended(disk, rx.packet.sender, Row(rx.packet)))
      /\ CoversUses(Appended(disk, rx.packet.sender, Row(rx.packet)))
  BY AdmissibleRow
<1>4. SoundFile(disk') /\ CoversUses(disk')
  BY <1>1, <1>2, <1>3 DEF FailedWrites
<1> QED
  BY <1>4, FileFrame

(* After a successful persist() the new row is what memory and disk hold,  *)
(* and the packet is counted for the first time.                           *)
LEMMA PersistSound ==
    ASSUME TypeOK, JournalInv, Journaled, up, rx.busy, Admissible(rx.packet, rx.at),
           Persist(rx.packet), uses' = CountedUse(rx.packet), up' = up
    PROVE  /\ DiskSound' /\ MemoryFollowsDisk' /\ UsesCovered'
           /\ \A id \in Ids : uses'[id] <= 1
           /\ uses[Id(rx.packet)] = 0
           /\ uses' = [uses EXCEPT ![Id(rx.packet)] = 1]
           /\ journal'.records = [journal.records EXCEPT ![rx.packet.sender] = Row(rx.packet)]
<1> DEFINE pk == rx.packet
           s == pk.sender
           file == Appended(disk, s, Row(pk))
<1>1. /\ pk \in Packets /\ s \in Senders
      /\ Id(pk) \in Ids /\ Id(pk).sender = s
  BY BusyRx, PacketFields
<1>2. journal.healthy /\ journal.enabled /\ journal.records = disk.rows
  BY DEF Admissible, JournalInv, MemoryFollowsDisk
<1>3. /\ uses[Id(pk)] = 0 /\ SoundFile(file) /\ CoversUses(file)
      /\ Row(pk) # NoRecord /\ Covered(Row(pk), Id(pk))
      /\ disk.exists /\ ~disk.torn
  BY AdmissibleRow
<1>4. disk' = file /\ journal' = [journal EXCEPT !.records[s] = Row(pk)]
  BY <1>2 DEF Persist
<1>5. /\ file.rows = [disk.rows EXCEPT ![s] = Row(pk)]
      /\ file.exists = disk.exists /\ file.torn = disk.torn
  BY DEF Appended
<1>6. file.rows[s] = Row(pk)
  BY <1>1, <1>5 DEF TypeOK, FileType
<1>7. uses \in [Ids -> 0 .. 2]
  BY DEF TypeOK
<1>8. uses' = [uses EXCEPT ![Id(pk)] = 1]
  BY <1>1, <1>3, <1>7 DEF CountedUse
<1>9. \A id \in Ids : uses'[id] = IF id = Id(pk) THEN 1 ELSE uses[id]
  BY <1>1, <1>7, <1>8
<1>10. DiskSound'
  BY <1>3, <1>4 DEF SoundFile, DiskSound, Known
<1>11. /\ journal'.enabled = journal.enabled /\ journal'.healthy = journal.healthy
       /\ journal'.records = [journal.records EXCEPT ![s] = Row(pk)]
  BY <1>4 DEF TypeOK, JournalType
<1>12. MemoryFollowsDisk'
  BY <1>2, <1>3, <1>4, <1>5, <1>11 DEF MemoryFollowsDisk
<1>13. UsesCovered'
  <2> SUFFICES ASSUME NEW id \in Ids, uses'[id] > 0
               PROVE  disk'.rows[id.sender] # NoRecord /\ Covered(disk'.rows[id.sender], id)
    BY DEF UsesCovered, Covered
  <2>1. CASE id = Id(pk)
    BY <1>1, <1>3, <1>4, <1>6, <2>1
  <2>2. CASE id # Id(pk)
    BY <1>3, <1>4, <1>9, <2>2 DEF CoversUses
  <2> QED
    BY <2>1, <2>2
<1>14. \A id \in Ids : uses'[id] <= 1
  BY <1>9 DEF JournalInv
<1> QED
  BY <1>3, <1>8, <1>10, <1>11, <1>12, <1>13, <1>14

LEMMA JournalInvAdmitLate ==
    ASSUME TypeOK, JournalInv, Journaled, AdmitLate
    PROVE  JournalInv'
<1> DEFINE pk == rx.packet
           s == pk.sender
<1>1. /\ up /\ rx.busy /\ Admissible(pk, rx.at) /\ Persist(pk)
      /\ Late(pk, Remembered(s)) /\ uses' = CountedUse(pk) /\ up' = up
  BY DEF AdmitLate
<1>2. pk \in Packets /\ s \in Senders
  BY <1>1, BusyRx, PacketFields
<1>3. /\ DiskSound' /\ MemoryFollowsDisk' /\ UsesCovered' /\ \A id \in Ids : uses'[id] <= 1
      /\ journal'.records = [journal.records EXCEPT ![s] = Row(pk)]
  BY <1>1, PersistSound
<1>4. journal.records \in [Senders -> Record] /\ peers \in [Senders -> Entry]
  BY DEF TypeOK, JournalType
<1>5. Row(pk) # NoRecord /\ 0 \in Row(pk).bitmap
  BY <1>1, AdmissibleRow
<1>6. \A t \in Senders : t # s => peers'[t] = peers[t] /\ journal'.records[t] = journal.records[t]
  BY <1>2, <1>3, <1>4 DEF AdmitLate
<1>7. CASE s \notin Known(peers)
  <2>1. peers' = peers
    BY <1>7 DEF AdmitLate
  <2>2. CacheFollowsJournal'
    BY <1>1, <1>6, <1>7, <2>1 DEF JournalInv, CacheFollowsJournal, CacheAgreesWithJournal, Known
  <2> QED
    BY <1>3, <2>2 DEF JournalInv
<1>8. CASE s \in Known(peers)
  <2>1. peers'[s] = Marked(peers[s], Row(pk).bitmap)
    BY <1>2, <1>4, <1>8 DEF AdmitLate
  <2>2. /\ peers'[s].epoch = peers[s].epoch /\ peers'[s].high = peers[s].high
        /\ peers'[s].bitmap = Row(pk).bitmap
    BY <1>2, <1>4, <2>1 DEF Marked, Entry
  <2>3. journal.records[s] = [epoch |-> peers[s].epoch, high |-> peers[s].high,
                              bitmap |-> peers[s].bitmap]
    BY <1>1, <1>8 DEF JournalInv, CacheFollowsJournal, CacheAgreesWithJournal
  <2>4. Remembered(s) \in Record
    BY <1>2, RememberedType
  <2>5. Remembered(s).epoch = peers[s].epoch /\ Remembered(s).high = peers[s].high
    BY <2>3 DEF Remembered
  <2>6. Row(pk) = [epoch |-> peers[s].epoch, high |-> peers[s].high, bitmap |-> Row(pk).bitmap]
    BY <1>1, <1>2, <2>4, <2>5, NextRecordForm DEF Row
  <2>7. journal'.records[s] = [epoch |-> peers'[s].epoch, high |-> peers'[s].high,
                               bitmap |-> peers'[s].bitmap]
    BY <1>2, <1>3, <1>4, <2>2, <2>6
  <2>8. peers'[s].bitmap # {}
    BY <1>5, <2>2
  <2>9. CacheFollowsJournal'
    BY <1>1, <1>6, <2>7, <2>8 DEF JournalInv, CacheFollowsJournal, CacheAgreesWithJournal, Known
  <2> QED
    BY <1>3, <2>9 DEF JournalInv
<1> QED
  BY <1>7, <1>8

(* What AdmitNew leaves in the cache: the new entry or none for the        *)
(* sender, the old entry or none for every other.                          *)
LEMMA AdmitNewPeers ==
    ASSUME TypeOK, AdmitNew
    PROVE  /\ \A t \in Senders : t # rx.packet.sender =>
                 peers'[t] = peers[t] \/ peers'[t] = NoPeer
           /\ \/ peers'[rx.packet.sender] = NoPeer
              \/ /\ peers'[rx.packet.sender].epoch = rx.packet.epoch
                 /\ peers'[rx.packet.sender].high = rx.packet.seq
                 /\ peers'[rx.packet.sender].bitmap = Row(rx.packet).bitmap
                 /\ peers'[rx.packet.sender].ts = rx.packet.ts
<1> DEFINE pk == rx.packet
           s == pk.sender
           entry == Presented(pk, peers[s], Row(pk).bitmap)
<1>1. pk \in Packets /\ s \in Senders
  BY BusyRx, PacketFields DEF AdmitNew
<1>2. peers \in [Senders -> Entry] /\ peers[s] \in Entry
  BY <1>1 DEF TypeOK
<1>3. Row(pk).bitmap \in Windows
  BY RowType DEF AdmitNew, Record
<1>4. entry \in Entry
  BY <1>1, <1>2, <1>3, PresentedType
<1>5. [peers EXCEPT ![s] = entry] \in [Senders -> Entry]
  BY <1>2, <1>4
<1>6. peers' \in Trimmed([peers EXCEPT ![s] = entry])
  BY DEF AdmitNew
<1>7. \A t \in Senders : peers'[t] = [peers EXCEPT ![s] = entry][t] \/ peers'[t] = NoPeer
  BY <1>5, <1>6, TrimmedForm
<1>8. /\ entry.epoch = pk.epoch /\ entry.high = pk.seq /\ entry.bitmap = Row(pk).bitmap
      /\ entry.ts = pk.ts
  BY DEF Presented
<1> QED
  BY <1>1, <1>2, <1>7, <1>8

LEMMA JournalInvAdmitNew ==
    ASSUME TypeOK, JournalInv, Journaled, AdmitNew
    PROVE  JournalInv'
<1> DEFINE pk == rx.packet
           s == pk.sender
<1>1. /\ up /\ rx.busy /\ Admissible(pk, rx.at) /\ Persist(pk)
      /\ ~Late(pk, Remembered(s)) /\ uses' = CountedUse(pk) /\ up' = up
  BY DEF AdmitNew
<1>2. pk \in Packets /\ s \in Senders
  BY <1>1, BusyRx, PacketFields
<1>3. /\ DiskSound' /\ MemoryFollowsDisk' /\ UsesCovered' /\ \A id \in Ids : uses'[id] <= 1
      /\ journal'.records = [journal.records EXCEPT ![s] = Row(pk)]
  BY <1>1, PersistSound
<1>4. journal.records \in [Senders -> Record]
  BY DEF TypeOK, JournalType
<1>5. journal'.records[s] = Row(pk) /\ \A t \in Senders : t # s => journal'.records[t] = journal.records[t]
  BY <1>2, <1>3, <1>4
<1>6. 0 \in Row(pk).bitmap
  BY <1>1, AdmissibleRow
<1>7. Row(pk) = [epoch |-> pk.epoch, high |-> pk.seq, bitmap |-> Row(pk).bitmap]
  BY <1>1, <1>2, RememberedType, NextRecordForm DEF Row
<1>8. NoPeer.bitmap = {}
  BY DEF NoPeer
<1>9. ASSUME NEW t \in Senders
      PROVE  /\ peers'[t].bitmap = {} => peers'[t] = NoPeer
             /\ peers'[t].bitmap # {} =>
                   journal'.records[t] = [epoch |-> peers'[t].epoch, high |-> peers'[t].high,
                                          bitmap |-> peers'[t].bitmap]
  <2>1. CASE peers'[t] = NoPeer
    BY <1>8, <2>1
  <2>2. CASE t = s /\ peers'[t] # NoPeer
    BY <1>5, <1>6, <1>7, <2>2, AdmitNewPeers
  <2>3. CASE t # s /\ peers'[t] # NoPeer
    <3>1. peers'[t] = peers[t]
      BY <2>3, AdmitNewPeers
    <3>2. peers[t].bitmap # {} =>
            journal.records[t] = [epoch |-> peers[t].epoch, high |-> peers[t].high,
                                  bitmap |-> peers[t].bitmap]
      BY <1>1 DEF JournalInv, CacheFollowsJournal, CacheAgreesWithJournal, Known
    <3> QED
      BY <1>5, <2>3, <3>1, <3>2 DEF JournalInv, CacheFollowsJournal
  <2> QED
    BY <2>1, <2>2, <2>3
<1>10. CacheFollowsJournal'
  BY <1>1, <1>9 DEF CacheFollowsJournal, CacheAgreesWithJournal, Known
<1> QED
  BY <1>3, <1>10 DEF JournalInv

(* Expiry keeps epoch, highest sequence and window of every entry it       *)
(* keeps.                                                                  *)
LEMMA JournalInvExpire ==
    ASSUME TypeOK, JournalInv, Journaled, Expire
    PROVE  JournalInv'
<1>1. /\ up /\ up' = up /\ journal' = journal /\ disk' = disk /\ uses' = uses
      /\ peers' = [s \in Senders |-> IF s \in Known(peers) \ Expired THEN Refreshed(s)
                                                                     ELSE NoPeer]
  BY DEF Expire
<1>2. ASSUME NEW s \in Senders
      PROVE  \/ peers'[s] = NoPeer
             \/ /\ s \in Known(peers)
                /\ peers'[s].epoch = peers[s].epoch
                /\ peers'[s].high = peers[s].high
                /\ peers'[s].bitmap = peers[s].bitmap
  <2>1. peers[s] \in Entry
    BY DEF TypeOK
  <2>2. /\ Refreshed(s).epoch = peers[s].epoch
        /\ Refreshed(s).high = peers[s].high
        /\ Refreshed(s).bitmap = peers[s].bitmap
    BY <2>1 DEF Refreshed, Entry
  <2> QED
    BY <1>1, <2>2
<1>3. CacheFollowsJournal'
  BY <1>1, <1>2, CacheFrame DEF JournalInv
<1>4. DiskSound' /\ MemoryFollowsDisk' /\ UsesCovered' /\ \A id \in Ids : uses'[id] <= 1
  BY <1>1 DEF JournalInv, DiskSound, MemoryFollowsDisk, UsesCovered, Covered, Known
<1> QED
  BY <1>3, <1>4 DEF JournalInv

LEMMA JournalInvStep == Journaled /\ TypeOK /\ JournalInv /\ [Next]_vars => JournalInv'
<1> SUFFICES ASSUME Journaled, TypeOK, JournalInv, [Next]_vars PROVE JournalInv'
  OBVIOUS
<1>1. ASSUME NEW epoch \in Epochs,
             \/ StartInMemory(epoch) \/ StartFromJournal(epoch)
             \/ StartNewJournal(epoch) \/ StartWithoutJournal(epoch)
      PROVE  JournalInv'
  <2>1. ~StartInMemory(epoch)
    BY DEF StartInMemory
  <2> QED
    BY <1>1, <2>1, JournalInvStart
<1>2. CASE Crash
  <2>1. MemoryFollowsDisk' /\ CacheFollowsJournal'
    BY <1>2, DownFrame DEF Crash
  <2>2. disk' = disk /\ uses' = uses
    BY <1>2 DEF Crash
  <2>3. DiskSound' /\ UsesCovered' /\ \A id \in Ids : uses'[id] <= 1
    BY <2>2 DEF JournalInv, DiskSound, UsesCovered, Covered, Known
  <2> QED
    BY <2>1, <2>3 DEF JournalInv
<1>3. CASE ReconfigureLedger
  <2>1. /\ up /\ up' = up /\ peers' = peers /\ disk' = disk /\ uses' = uses
        /\ journal'.enabled /\ ~journal'.healthy /\ journal'.records = journal.records
    BY <1>3 DEF ReconfigureLedger, TypeOK, JournalType
  <2>2. MemoryFollowsDisk'
    BY <2>1 DEF MemoryFollowsDisk
  <2>3. CacheFollowsJournal'
    BY <2>1 DEF JournalInv, CacheFollowsJournal, CacheAgreesWithJournal, Known
  <2>4. DiskSound' /\ UsesCovered' /\ \A id \in Ids : uses'[id] <= 1
    BY <2>1 DEF JournalInv, DiskSound, UsesCovered, Covered, Known
  <2> QED
    BY <2>2, <2>3, <2>4 DEF JournalInv
<1>4. CASE Tick
  BY <1>4, JournalInvFrame DEF Tick
<1>5. ASSUME NEW pk \in Packets, ReceivePacket(pk) PROVE JournalInv'
  BY <1>5, JournalInvFrame DEF ReceivePacket
<1>6. CASE RefusePacket
  BY <1>6, JournalInvFrame DEF RefusePacket
<1>7. CASE PersistFails
  <2>1. /\ up /\ up' = up /\ rx.busy /\ Admissible(rx.packet, rx.at)
        /\ disk' \in FailedWrites(rx.packet) /\ uses' = uses /\ peers' = peers
        /\ journal.enabled
        /\ journal' = [journal EXCEPT !.healthy = FALSE]
    BY <1>7 DEF PersistFails
  <2>2. DiskSound' /\ UsesCovered' /\ \A id \in Ids : uses'[id] <= 1
    BY <2>1, FailedWriteSound
  <2>3. journal'.enabled /\ ~journal'.healthy /\ journal'.records = journal.records
    BY <2>1 DEF TypeOK, JournalType
  <2>4. MemoryFollowsDisk'
    BY <2>3 DEF MemoryFollowsDisk
  <2>5. CacheFollowsJournal'
    BY <2>1, <2>3 DEF JournalInv, CacheFollowsJournal, CacheAgreesWithJournal, Known
  <2> QED
    BY <2>2, <2>4, <2>5 DEF JournalInv
<1>8. CASE CrashInPersist
  <2>1. MemoryFollowsDisk' /\ CacheFollowsJournal'
    BY <1>8, DownFrame DEF CrashInPersist
  <2>2. DiskSound' /\ UsesCovered' /\ \A id \in Ids : uses'[id] <= 1
    BY <1>8, FailedWriteSound DEF CrashInPersist
  <2> QED
    BY <2>1, <2>2 DEF JournalInv
<1>9. CASE AdmitLate
  BY <1>9, JournalInvAdmitLate
<1>10. CASE AdmitNew
  BY <1>10, JournalInvAdmitNew
<1>11. CASE Expire
  BY <1>11, JournalInvExpire
<1>12. CASE Clear
  <2>1. /\ up /\ up' = up /\ journal' = journal /\ disk' = disk /\ uses' = uses
        /\ \A s \in Senders : peers'[s] = NoPeer
    BY <1>12 DEF Clear, NoPeers
  <2>2. CacheFollowsJournal'
    BY <2>1, CacheFrame DEF JournalInv
  <2>3. DiskSound' /\ MemoryFollowsDisk' /\ UsesCovered' /\ \A id \in Ids : uses'[id] <= 1
    BY <2>1 DEF JournalInv, DiskSound, MemoryFollowsDisk, UsesCovered, Covered, Known
  <2> QED
    BY <2>2, <2>3 DEF JournalInv
<1>13. CASE UNCHANGED vars
  BY <1>13, JournalInvFrame DEF vars
<1> QED
  BY <1>1, <1>2, <1>3, <1>4, <1>5, <1>6, <1>7, <1>8, <1>9, <1>10, <1>11, <1>12, <1>13
  DEF Next

(* IInv holds in every state of every behaviour.                           *)
LEMMA IInvHolds == Spec => []IInv
<1>1. Init => IInv
  BY TypeInit, JournalInvInit DEF IInv
<1>2. IInv /\ [Next]_vars => IInv'
  BY TypeStep, JournalInvStep DEF IInv
<1> QED
  BY <1>1, <1>2, PTL DEF Spec

(***************************************************************************)
(* The safety properties.                                                  *)
(***************************************************************************)

(* With a journal no packet identity is admitted twice, whatever is lost,  *)
(* reordered, replayed, expired, cleared, torn or restarted.               *)
THEOREM ReplaysAreRefused == Spec => []AdmittedOnce
<1>1. IInv => AdmittedOnce
  BY DEF IInv, JournalInv, AdmittedOnce
<1> QED
  BY <1>1, IInvHolds, PTL

(* Cache entry and journal record of a sender never disagree.              *)
THEOREM CacheAndJournalAgree == Spec => []CacheAgreesWithJournal
<1>1. IInv => CacheAgreesWithJournal
  BY DEF IInv, JournalInv, CacheFollowsJournal, CacheAgreesWithJournal
<1> QED
  BY <1>1, IInvHolds, PTL

(* Every complete row of the file passes the checks of load(), and the     *)
(* file never holds more senders than a restart accepts.                   *)
THEOREM JournalAlwaysReloads == Spec => []JournalReloads
<1>1. IInv => JournalReloads
  BY DEF IInv, JournalInv, DiskSound, JournalReloads
<1> QED
  BY <1>1, IInvHolds, PTL

(***************************************************************************)
(* Refinement of PeerInbox.                                                *)
(***************************************************************************)

(* What is shown of one sender follows from its entry.                     *)
LEMMA ShownOf ==
    ASSUME NEW s \in Senders
    PROVE  /\ Shown[s] = IF peers[s].bitmap = {} THEN <<>>
                                                 ELSE <<peers[s].epoch, peers[s].high>>
           /\ Shown'[s] = IF peers'[s].bitmap = {} THEN <<>>
                                                   ELSE <<peers'[s].epoch, peers'[s].high>>
  BY DEF Shown

(* Entries that vanish and entries that keep epoch and highest sequence    *)
(* are forgetting, as seen in the inbox.                                   *)
LEMMA ShrinkForgets ==
    ASSUME uses' = uses,
           \A s \in Senders :
              \/ peers'[s].bitmap = {}
              \/ /\ peers[s].bitmap # {}
                 /\ peers'[s].epoch = peers[s].epoch
                 /\ peers'[s].high = peers[s].high
    PROVE  Inbox!Next
<1> DEFINE forgotten == {s \in Senders : peers'[s].bitmap = {}}
<1>1. Shown' = [s \in Senders |-> IF s \in forgotten THEN <<>> ELSE Shown[s]]
  BY DEF Shown
<1>2. Inbox!Forget(forgotten)
  BY <1>1 DEF Inbox!Forget
<1> QED
  BY <1>2 DEF Inbox!Next

(* A packet newer than its sender's record is newer than every packet of   *)
(* the sender admitted before.                                             *)
LEMMA AdmitNewPresents ==
    ASSUME TypeOK, JournalInv, Journaled, AdmitNew
    PROVE  Inbox!Next
<1> DEFINE pk == rx.packet
           s == pk.sender
           forgotten == {t \in Senders : peers'[t].bitmap = {}}
<1>1. /\ up /\ rx.busy /\ Admissible(pk, rx.at) /\ Persist(pk)
      /\ ~Late(pk, Remembered(s)) /\ uses' = CountedUse(pk) /\ up' = up
  BY DEF AdmitNew
<1>2. /\ pk \in Packets /\ s \in Senders /\ Id(pk) \in Ids
      /\ Id(pk).sender = s /\ Id(pk).epoch = pk.epoch /\ Id(pk).seq = pk.seq
      /\ pk.epoch \in Nat /\ pk.seq \in Nat
  BY <1>1, BusyRx, PacketFields
<1>3. uses[Id(pk)] = 0 /\ uses' = [uses EXCEPT ![Id(pk)] = 1]
  BY <1>1, PersistSound
<1>4. \A old \in Inbox!Used(Id(pk).sender) : Inbox!Later(Id(pk), old)
  <2> SUFFICES ASSUME NEW id \in Ids, id.sender = s, uses[id] > 0
               PROVE  Inbox!Later(Id(pk), id)
    BY <1>2 DEF Inbox!Used
  <2>1. disk.rows[s] # NoRecord /\ Covered(disk.rows[s], id)
    BY DEF JournalInv, UsesCovered
  <2>2. Remembered(s) = disk.rows[s]
    BY <1>1, <1>2, RememberedIsRow DEF Admissible
  <2>3. Acceptable(pk, disk.rows[s]) /\ ~Late(pk, disk.rows[s])
    BY <1>1, <2>2 DEF Admissible
  <2>4. disk.rows[s].epoch \in Nat /\ disk.rows[s].high \in Nat
    BY <1>2 DEF TypeOK, FileType, Record
  <2>5. id.epoch \in Nat /\ id.seq \in Nat
    BY IdFields
  <2>6. id.epoch < disk.rows[s].epoch \/ (id.epoch = disk.rows[s].epoch /\ id.seq <= disk.rows[s].high)
    BY <2>1 DEF Covered
  <2>7. pk.epoch > disk.rows[s].epoch \/ (pk.epoch = disk.rows[s].epoch /\ pk.seq > disk.rows[s].high)
    BY <2>1, <2>3 DEF Acceptable
  <2> QED
    BY <1>2, <2>4, <2>5, <2>6, <2>7 DEF Inbox!Later
<1>5. ASSUME NEW t \in Senders
      PROVE  Shown'[t] = IF t \in forgotten THEN <<>>
                         ELSE IF t = Id(pk).sender THEN <<Id(pk).epoch, Id(pk).seq>>
                         ELSE Shown[t]
  <2>1. NoPeer.bitmap = {}
    BY DEF NoPeer
  <2>2. CASE t \in forgotten
    BY <2>2, ShownOf
  <2>3. CASE t \notin forgotten /\ t = s
    <3>1. peers'[t].bitmap # {} /\ peers'[t] # NoPeer
      BY <2>1, <2>3
    <3>2. peers'[t].epoch = pk.epoch /\ peers'[t].high = pk.seq
      BY <2>3, <3>1, AdmitNewPeers
    <3> QED
      BY <1>2, <2>3, <3>1, <3>2, ShownOf
  <2>4. CASE t \notin forgotten /\ t # s
    <3>1. peers'[t] = peers[t]
      BY <2>1, <2>4, AdmitNewPeers
    <3> QED
      BY <1>2, <2>4, <3>1, ShownOf
  <2> QED
    BY <2>2, <2>3, <2>4
<1>6. Shown' = [t \in Senders |-> IF t \in forgotten THEN <<>>
                                  ELSE IF t = Id(pk).sender THEN <<Id(pk).epoch, Id(pk).seq>>
                                  ELSE Shown[t]]
  BY <1>5 DEF Shown
<1>7. Inbox!Present(Id(pk), forgotten)
  BY <1>3, <1>4, <1>6 DEF Inbox!Present
<1> QED
  BY <1>2, <1>7 DEF Inbox!Next

LEMMA AdmitLateHandsOn ==
    ASSUME TypeOK, JournalInv, Journaled, AdmitLate
    PROVE  Inbox!Next
<1> DEFINE pk == rx.packet
           s == pk.sender
<1>1. /\ up /\ rx.busy /\ Admissible(pk, rx.at) /\ Persist(pk)
      /\ uses' = CountedUse(pk) /\ up' = up
  BY DEF AdmitLate
<1>2. pk \in Packets /\ s \in Senders /\ Id(pk) \in Ids
  BY <1>1, BusyRx, PacketFields
<1>3. uses[Id(pk)] = 0 /\ uses' = [uses EXCEPT ![Id(pk)] = 1]
  BY <1>1, PersistSound
<1>4. 0 \in Row(pk).bitmap
  BY <1>1, AdmissibleRow
<1>5. peers \in [Senders -> Entry] /\ peers[s] \in Entry
  BY <1>2 DEF TypeOK
<1>6. ASSUME NEW t \in Senders
      PROVE  Shown'[t] = Shown[t]
  <2>1. CASE t # s \/ s \notin Known(peers)
    <3>1. peers'[t] = peers[t]
      BY <1>2, <1>5, <2>1 DEF AdmitLate
    <3> QED
      BY <3>1, ShownOf
  <2>2. CASE t = s /\ s \in Known(peers)
    <3>1. peers'[s] = Marked(peers[s], Row(pk).bitmap)
      BY <1>2, <1>5, <2>2 DEF AdmitLate
    <3>2. /\ peers'[s].epoch = peers[s].epoch /\ peers'[s].high = peers[s].high
          /\ peers'[s].bitmap = Row(pk).bitmap
      BY <1>5, <3>1 DEF Marked, Entry
    <3>3. peers[s].bitmap # {} /\ peers'[s].bitmap # {}
      BY <1>4, <2>2, <3>2 DEF Known
    <3> QED
      BY <1>2, <2>2, <3>2, <3>3, ShownOf
  <2> QED
    BY <2>1, <2>2
<1>7. Shown' = Shown
  BY <1>6 DEF Shown
<1>8. Inbox!HandOnLate(Id(pk))
  BY <1>3, <1>7 DEF Inbox!HandOnLate
<1> QED
  BY <1>2, <1>8 DEF Inbox!Next

LEMMA InboxStep ==
    Journaled /\ IInv /\ [Next]_vars => [Inbox!Next]_<<uses, Shown>>
<1> SUFFICES ASSUME Journaled, TypeOK, JournalInv, [Next]_vars
             PROVE  Inbox!Next \/ (uses' = uses /\ Shown' = Shown)
  BY DEF IInv
<1>1. ASSUME uses' = uses, peers' = peers
      PROVE  uses' = uses /\ Shown' = Shown
  BY <1>1 DEF Shown
<1>2. ASSUME uses' = uses, \A s \in Senders : peers'[s] = NoPeer
      PROVE  Inbox!Next
  <2>1. NoPeer.bitmap = {}
    BY DEF NoPeer
  <2> QED
    BY <1>2, <2>1, ShrinkForgets
<1>3. CASE \/ \E epoch \in Epochs : \/ StartInMemory(epoch) \/ StartFromJournal(epoch)
                                    \/ StartNewJournal(epoch) \/ StartWithoutJournal(epoch)
           \/ ReconfigureLedger \/ Tick \/ (\E pk \in Packets : ReceivePacket(pk))
           \/ RefusePacket \/ PersistFails \/ UNCHANGED vars
  BY <1>1, <1>3 DEF StartInMemory, StartFromJournal, StartNewJournal, StartWithoutJournal,
     Start, ReconfigureLedger, Tick, ReceivePacket, RefusePacket, PersistFails, vars
<1>4. CASE Crash \/ CrashInPersist \/ Clear
  <2>1. uses' = uses /\ peers' = NoPeers
    BY <1>4 DEF Crash, CrashInPersist, Down, Clear
  <2>2. \A s \in Senders : peers'[s] = NoPeer
    BY <2>1 DEF NoPeers
  <2> QED
    BY <1>2, <2>1, <2>2
<1>5. CASE AdmitLate
  BY <1>5, AdmitLateHandsOn
<1>6. CASE AdmitNew
  BY <1>6, AdmitNewPresents
<1>7. CASE Expire
  <2>1. uses' = uses
    BY <1>7 DEF Expire
  <2>2. ASSUME NEW s \in Senders
        PROVE  \/ peers'[s].bitmap = {}
               \/ /\ peers[s].bitmap # {}
                  /\ peers'[s].epoch = peers[s].epoch
                  /\ peers'[s].high = peers[s].high
    <3>1. peers[s] \in Entry
      BY DEF TypeOK
    <3>2. Refreshed(s).epoch = peers[s].epoch /\ Refreshed(s).high = peers[s].high
      BY <3>1 DEF Refreshed, Entry
    <3>3. NoPeer.bitmap = {}
      BY DEF NoPeer
    <3> QED
      BY <1>7, <3>2, <3>3 DEF Expire, Known
  <2> QED
    BY <2>1, <2>2, ShrinkForgets
<1> QED
  BY <1>3, <1>4, <1>5, <1>6, <1>7 DEF Next

(* With a journal the cache implements the inbox: packets are handed on    *)
(* once, and what is shown of a sender is always the newest handed on.     *)
THEOREM CacheImplementsInbox == Journaled /\ Spec => ImplementsInbox
<1>1. Init => Inbox!Init
  <2> SUFFICES ASSUME Init PROVE Inbox!Init
    OBVIOUS
  <2>1. \A s \in Senders : peers[s].bitmap = {}
    BY DEF Init, NoPeers, NoPeer
  <2>2. Shown = [s \in Senders |-> <<>>]
    BY <2>1 DEF Shown
  <2> QED
    BY <2>2 DEF Init, Inbox!Init
<1> SUFFICES ASSUME Journaled PROVE Spec => ImplementsInbox
  OBVIOUS
<1>2. IInv /\ [Next]_vars => [Inbox!Next]_<<uses, Shown>>
  BY InboxStep
<1> QED
  BY <1>1, <1>2, IInvHolds, PTL DEF Spec, ImplementsInbox, Inbox!Spec

(***************************************************************************)
(* The cache with and without a journal.                                   *)
(***************************************************************************)

(* A packet is judged by the record its sender's entry holds, if there is  *)
(* an entry.                                                               *)
LEMMA RememberedIsEntry ==
    ASSUME IInv, CacheForm, up, NEW s \in Known(peers)
    PROVE  Remembered(s) = [epoch |-> peers[s].epoch, high |-> peers[s].high,
                            bitmap |-> peers[s].bitmap]
<1>1. CASE Journaled
  <2>1. journal.records[s] = [epoch |-> peers[s].epoch, high |-> peers[s].high,
                              bitmap |-> peers[s].bitmap]
    BY <1>1 DEF IInv, JournalInv, CacheFollowsJournal, CacheAgreesWithJournal
  <2> QED
    BY <2>1 DEF Remembered
<1>2. CASE ~Journaled
  BY <1>2 DEF CacheForm, NoJournal, Remembered
<1> QED
  BY <1>1, <1>2

(* Without a journal nothing is remembered of a sender without an entry.   *)
LEMMA ForgottenHasNoRecord ==
    ASSUME CacheForm, ~Journaled, NEW s \in Senders, s \notin Known(peers)
    PROVE  Remembered(s) = NoRecord
  BY DEF CacheForm, NoJournal, Remembered, Known, NoPeer, NoRecord

(* The row of an admissible packet has its newest bit set.                 *)
LEMMA RowHasBit ==
    ASSUME IInv, CacheForm, up, rx.busy, Admissible(rx.packet, rx.at)
    PROVE  0 \in Row(rx.packet).bitmap
<1> DEFINE pk == rx.packet
           s == pk.sender
<1>1. CASE Journaled
  BY <1>1, AdmissibleRow DEF IInv
<1>2. CASE ~Journaled
  <2>1. pk \in Packets /\ s \in Senders /\ Remembered(s) \in Record
    BY BusyRx, PacketFields, RememberedType DEF IInv
  <2>2. Remembered(s) # NoRecord => 0 \in Remembered(s).bitmap
    <3>1. CASE s \in Known(peers)
      <4>1. 0 \in peers[s].bitmap
        BY <2>1, <3>1 DEF CacheForm, Known
      <4> QED
        BY <3>1, <4>1, RememberedIsEntry
    <3>2. CASE s \notin Known(peers)
      BY <1>2, <2>1, <3>2, ForgottenHasNoRecord
    <3> QED
      BY <3>1, <3>2
  <2> QED
    BY <2>1, <2>2, NextRecordBit DEF Row, Admissible
<1> QED
  BY <1>1, <1>2

(* The epoch and the highest sequence of the row of an overtaken packet    *)
(* are those remembered; of any other, the packet's own.                   *)
LEMMA RowHead ==
    ASSUME TypeOK, rx.busy
    PROVE  /\ Late(rx.packet, Remembered(rx.packet.sender)) =>
                /\ Row(rx.packet).epoch = Remembered(rx.packet.sender).epoch
                /\ Row(rx.packet).high = Remembered(rx.packet.sender).high
           /\ ~Late(rx.packet, Remembered(rx.packet.sender)) =>
                /\ Row(rx.packet).epoch = rx.packet.epoch
                /\ Row(rx.packet).high = rx.packet.seq
<1>1. rx.packet \in Packets /\ Remembered(rx.packet.sender) \in Record
  BY BusyRx, PacketFields, RememberedType
<1> QED
  BY <1>1, NextRecordForm DEF Row

(* What a step may do to an entry: drop it, keep its window and its        *)
(* packet, mark an overtaken packet in it, or replace it by a newer one.   *)
Kept(s) ==
    /\ s \in Known(peers)
    /\ peers'[s].epoch = peers[s].epoch
    /\ peers'[s].high = peers[s].high
    /\ peers'[s].bitmap = peers[s].bitmap
    /\ peers'[s].ts = peers[s].ts

MarkedLate(s) ==
    /\ AdmitLate
    /\ s = rx.packet.sender
    /\ s \in Known(peers)
    /\ peers'[s].epoch = peers[s].epoch
    /\ peers'[s].high = peers[s].high
    /\ peers'[s].bitmap = Row(rx.packet).bitmap
    /\ peers'[s].ts = peers[s].ts

Replaced(s) ==
    /\ AdmitNew
    /\ s = rx.packet.sender
    /\ peers'[s].epoch = rx.packet.epoch
    /\ peers'[s].high = rx.packet.seq
    /\ peers'[s].bitmap = Row(rx.packet).bitmap
    /\ peers'[s].ts = rx.packet.ts

LEMMA EntryStep ==
    ASSUME IInv, CacheForm, [Next]_vars, NEW s \in Senders
    PROVE  peers'[s] = NoPeer \/ Kept(s) \/ MarkedLate(s) \/ Replaced(s)
<1> USE DEF IInv
<1>1. peers \in [Senders -> Entry] /\ peers[s] \in Entry
  BY DEF TypeOK
<1>2. ASSUME peers'[s] = peers[s] PROVE peers'[s] = NoPeer \/ Kept(s)
  BY <1>2 DEF CacheForm, Known, Kept
<1>3. CASE peers' = NoPeers
  BY <1>3 DEF NoPeers
<1>4. CASE peers' = peers
  BY <1>2, <1>4
<1>5. CASE AdmitLate
  <2>1. rx.packet.sender \in Senders
    BY <1>5, BusyRx, PacketFields DEF AdmitLate
  <2>2. CASE s # rx.packet.sender \/ s \notin Known(peers)
    <3>1. peers'[s] = peers[s]
      BY <1>1, <1>5, <2>1, <2>2 DEF AdmitLate
    <3> QED
      BY <1>2, <3>1
  <2>3. CASE s = rx.packet.sender /\ s \in Known(peers)
    <3>1. peers'[s] = Marked(peers[s], Row(rx.packet).bitmap)
      BY <1>1, <1>5, <2>3 DEF AdmitLate
    <3>2. /\ peers'[s].epoch = peers[s].epoch /\ peers'[s].high = peers[s].high
          /\ peers'[s].bitmap = Row(rx.packet).bitmap /\ peers'[s].ts = peers[s].ts
      BY <1>1, <3>1 DEF Marked, Entry
    <3> QED
      BY <1>5, <2>3, <3>2 DEF MarkedLate
  <2> QED
    BY <2>2, <2>3
<1>6. CASE AdmitNew
  <2>1. CASE s # rx.packet.sender
    BY <1>2, <1>6, <2>1, AdmitNewPeers
  <2>2. CASE s = rx.packet.sender
    BY <1>6, <2>2, AdmitNewPeers DEF Replaced
  <2> QED
    BY <2>1, <2>2
<1>7. CASE Expire
  <2>1. /\ Refreshed(s).epoch = peers[s].epoch /\ Refreshed(s).high = peers[s].high
        /\ Refreshed(s).bitmap = peers[s].bitmap /\ Refreshed(s).ts = peers[s].ts
    BY <1>1 DEF Refreshed, Entry
  <2> QED
    BY <1>7, <2>1 DEF Expire, Kept
<1>8. \/ peers' = NoPeers \/ peers' = peers \/ AdmitLate \/ AdmitNew \/ Expire
  BY DEF Next, vars, StartInMemory, StartFromJournal, StartNewJournal, StartWithoutJournal,
     Start, Crash, Down, ReconfigureLedger, Tick, ReceivePacket, RefusePacket, PersistFails,
     CrashInPersist, Clear
<1> QED
  BY <1>3, <1>4, <1>5, <1>6, <1>7, <1>8

LEMMA CacheFormInit == Init => CacheForm
<1> SUFFICES ASSUME Init PROVE CacheForm
  OBVIOUS
<1>1. \A s \in Senders : peers[s] = NoPeer
  BY DEF Init, NoPeers
<1> QED
  BY <1>1 DEF Init, CacheForm, NoPeer

LEMMA CacheFormStep == IInv /\ CacheForm /\ [Next]_vars => CacheForm'
<1> SUFFICES ASSUME IInv, CacheForm, [Next]_vars PROVE CacheForm'
  OBVIOUS
<1>1. ASSUME ~up' PROVE peers' = NoPeers
  BY <1>1 DEF CacheForm, Next, vars, StartInMemory, StartFromJournal, StartNewJournal,
     StartWithoutJournal, Start, Crash, Down, ReconfigureLedger, Tick, ReceivePacket,
     RefusePacket, PersistFails, CrashInPersist, AdmitLate, AdmitNew, Expire, Clear
<1>2. ASSUME NEW s \in Senders
      PROVE  /\ peers'[s].bitmap = {} \/ 0 \in peers'[s].bitmap
             /\ peers'[s].bitmap = {} => peers'[s] = NoPeer
  <2>1. CASE peers'[s] = NoPeer
    BY <2>1 DEF NoPeer
  <2>2. CASE Kept(s)
    BY <2>2 DEF Kept, CacheForm, Known
  <2>3. CASE MarkedLate(s) \/ Replaced(s)
    BY <2>3, RowHasBit DEF MarkedLate, Replaced, AdmitLate, AdmitNew
  <2> QED
    BY <2>1, <2>2, <2>3, EntryStep
<1>3. ASSUME ~Journaled PROVE journal' = NoJournal
  <2>1. journal = NoJournal /\ ~journal.enabled
    BY <1>3 DEF CacheForm, NoJournal
  <2> QED
    BY <1>3, <2>1 DEF Next, vars, StartInMemory, StartFromJournal, StartNewJournal,
     StartWithoutJournal, Start, Crash, Down, ReconfigureLedger, Tick, ReceivePacket,
     RefusePacket, PersistFails, CrashInPersist, AdmitLate, AdmitNew, Persist, Expire, Clear
<1> QED
  BY <1>1, <1>2, <1>3 DEF CacheForm

(* With or without a journal, whatever the order of arrival, the packet    *)
(* shown of a sender that stays in the cache never gives way to an older.  *)
THEOREM NewestIsShown == Spec => PresentationNeverRollsBack
<1>1. IInv /\ CacheForm /\ [Next]_vars => [NoRollback]_vars
  <2> SUFFICES ASSUME IInv, CacheForm, [Next]_vars,
                      NEW s \in Known(peers), peers'[s].bitmap # {}
               PROVE  \/ peers'[s].epoch > peers[s].epoch
                      \/ peers'[s].epoch = peers[s].epoch /\ peers'[s].high >= peers[s].high
    BY DEF NoRollback, Known
  <2>1. s \in Senders /\ peers[s].epoch \in Nat /\ peers[s].high \in Nat
    BY DEF IInv, TypeOK, Entry, Known
  <2>2. peers'[s] # NoPeer
    BY DEF NoPeer
  <2>3. CASE Kept(s) \/ MarkedLate(s)
    BY <2>1, <2>3 DEF Kept, MarkedLate
  <2>4. CASE Replaced(s)
    <3>1. /\ up /\ rx.busy /\ Acceptable(rx.packet, Remembered(s))
          /\ ~Late(rx.packet, Remembered(s))
      BY <2>4 DEF Replaced, AdmitNew, Admissible
    <3>2. Remembered(s) = [epoch |-> peers[s].epoch, high |-> peers[s].high,
                           bitmap |-> peers[s].bitmap]
      BY <3>1, RememberedIsEntry
    <3>3. Remembered(s) # NoRecord
      BY <3>2 DEF Known, NoRecord
    <3>4. rx.packet.epoch \in Nat /\ rx.packet.seq \in Nat
      BY <3>1, BusyRx, PacketFields DEF IInv
    <3> QED
      BY <2>1, <2>4, <3>1, <3>2, <3>3, <3>4 DEF Replaced, Acceptable
  <2> QED
    BY <2>1, <2>2, <2>3, <2>4, EntryStep
<1> QED
  BY <1>1, CacheFormInit, CacheFormStep, IInvHolds, PTL DEF Spec, PresentationNeverRollsBack

(***************************************************************************)
(* Every bit of every window stands for a packet that was seen.            *)
(***************************************************************************)

(* The packet at hand becomes part of the history.                         *)
Written ==
    /\ up
    /\ rx.busy
    /\ Admissible(rx.packet, rx.at)
    /\ Id(rx.packet) \in Seen'

(* Only the fields of a record and more history matter.                    *)
LEMMA GroundedFrame ==
    ASSUME NEW s, NEW old, NEW new, NEW ids, NEW more,
           Grounded(s, old, ids), ids \subseteq more,
           new.epoch = old.epoch, new.high = old.high, new.bitmap = old.bitmap
    PROVE  Grounded(s, new, more)
  BY DEF Grounded

LEMMA EmptyGrounded ==
    ASSUME NEW s, NEW ids
    PROVE  Grounded(s, NoRecord, ids) /\ Grounded(s, NoPeer, ids)
  BY DEF Grounded, NoRecord, NoPeer

(* The record that follows a packet is grounded in what its predecessor    *)
(* was grounded in, and that packet.                                       *)
LEMMA NextRecordGrounded ==
    ASSUME NEW pk \in Packets, NEW old \in Record, Acceptable(pk, old),
           NEW ids \in SUBSET Ids, Grounded(pk.sender, old, ids)
    PROVE  Grounded(pk.sender, NextRecord(pk, old), ids \union {Id(pk)})
<1> DEFINE next == NextRecord(pk, old)
           more == ids \union {Id(pk)}
<1>1. /\ pk.epoch \in Nat /\ pk.seq \in Nat
      /\ Id(pk).sender = pk.sender /\ Id(pk).epoch = pk.epoch /\ Id(pk).seq = pk.seq
  BY PacketFields
<1>2. old.epoch \in Nat /\ old.high \in Nat /\ old.bitmap \in Windows
  BY DEF Record
<1>3. CASE Late(pk, old)
  <2>1. /\ next.epoch = old.epoch /\ next.high = old.high
        /\ next.bitmap = old.bitmap \union {Distance(pk, old)}
    BY <1>3, NextRecordForm
  <2>2. pk.epoch = old.epoch /\ pk.seq + Distance(pk, old) = old.high
    BY <1>1, <1>2, <1>3 DEF Late, Distance
  <2> QED
    BY <1>1, <2>1, <2>2 DEF Grounded
<1>4. CASE ~Late(pk, old) /\ old # NoRecord /\ pk.epoch = old.epoch
  <2>1. /\ pk.seq - old.high \in Nat
        /\ next.epoch = pk.epoch /\ next.high = pk.seq
        /\ next.bitmap = Shifted(old.bitmap, pk.seq - old.high)
    BY <1>4, NextRecordForm
  <2> SUFFICES ASSUME NEW d \in next.bitmap
               PROVE  \E id \in more : /\ id.sender = pk.sender /\ id.epoch = pk.epoch
                                       /\ id.seq + d = pk.seq
    BY <2>1 DEF Grounded
  <2>2. CASE d = 0
    BY <1>1, <2>2
  <2>3. CASE d # 0
    <3>1. PICK e \in old.bitmap : d = e + (pk.seq - old.high)
      BY <2>1, <2>3 DEF Shifted
    <3>2. PICK id \in ids : id.sender = pk.sender /\ id.epoch = old.epoch /\ id.seq + e = old.high
      BY DEF Grounded
    <3>3. id.seq \in Nat /\ e \in Nat
      BY <1>2, IdFields, ConstantsAssumption DEF Windows
    <3>4. id.seq + d = pk.seq
      BY <1>1, <1>2, <3>1, <3>2, <3>3
    <3> QED
      BY <1>4, <3>2, <3>4
  <2> QED
    BY <2>2, <2>3
<1>5. CASE ~Late(pk, old) /\ ~(old # NoRecord /\ pk.epoch = old.epoch)
  <2>1. next.epoch = pk.epoch /\ next.high = pk.seq /\ next.bitmap = {0}
    BY <1>5, NextRecordForm
  <2> QED
    BY <1>1, <2>1 DEF Grounded
<1> QED
  BY <1>3, <1>4, <1>5

(* The history only grows, and holds the packet of every admission.        *)
LEMMA SeenGrows ==
    ASSUME TypeOK, [Next]_vars
    PROVE  /\ Seen \subseteq Seen'
           /\ AdmitLate \/ AdmitNew => Written
<1>1. CASE AdmitLate \/ AdmitNew
  <2>1. /\ up /\ rx.busy /\ Admissible(rx.packet, rx.at)
        /\ uses' = CountedUse(rx.packet) /\ burnt' = burnt
    BY <1>1 DEF AdmitLate, AdmitNew
  <2>2. Id(rx.packet) \in Ids /\ uses \in [Ids -> 0 .. 2]
    BY <2>1, BusyRx, PacketFields DEF TypeOK
  <2>3. uses'[Id(rx.packet)] > 0 /\ \A id \in Ids : uses[id] > 0 => uses'[id] > 0
    BY <2>1, <2>2 DEF CountedUse
  <2> QED
    BY <2>1, <2>2, <2>3 DEF Seen, Written
<1>2. CASE ~(AdmitLate \/ AdmitNew)
  <2>1. uses' = uses /\ burnt \subseteq burnt'
    BY <1>2 DEF Next, vars, StartInMemory, StartFromJournal, StartNewJournal,
       StartWithoutJournal, Start, Crash, Down, ReconfigureLedger, Tick, ReceivePacket,
       RefusePacket, PersistFails, CrashInPersist, Unconfirmed, Expire, Clear
  <2> QED
    BY <1>2, <2>1 DEF Seen
<1> QED
  BY <1>1, <1>2

(* What a step may do to the rows on disk.                                 *)
LEMMA DiskStep ==
    ASSUME TypeOK, [Next]_vars
    PROVE  \/ disk'.rows = disk.rows
           \/ Written /\ disk'.rows = [disk.rows EXCEPT ![rx.packet.sender] = Row(rx.packet)]
<1>1. CASE PersistFails \/ CrashInPersist
  <2>1. /\ up /\ rx.busy /\ Admissible(rx.packet, rx.at)
        /\ disk' \in FailedWrites(rx.packet) /\ burnt' = Unconfirmed(rx.packet)
    BY <1>1 DEF PersistFails, CrashInPersist
  <2>2. Id(rx.packet) \in Ids
    BY <2>1, BusyRx, PacketFields
  <2>3. CASE disk'.rows # disk.rows
    <3>1. disk' = Appended(disk, rx.packet.sender, Row(rx.packet))
      BY <2>1, <2>3 DEF FailedWrites, Torn, TypeOK, FileType
    <3>2. Id(rx.packet) \in Seen'
      BY <2>1, <2>2, <2>3 DEF Unconfirmed, Seen
    <3> QED
      BY <2>1, <3>1, <3>2 DEF Appended, Written
  <2> QED
    BY <2>3
<1>2. CASE AdmitLate \/ AdmitNew
  <2>1. Persist(rx.packet) /\ Written
    BY <1>2, SeenGrows DEF AdmitLate, AdmitNew
  <2> QED
    BY <2>1 DEF Persist, Appended
<1>3. CASE ~(PersistFails \/ CrashInPersist \/ AdmitLate \/ AdmitNew)
  BY <1>3 DEF Next, vars, StartInMemory, StartFromJournal, StartNewJournal,
     StartWithoutJournal, Start, Crash, Down, ReconfigureLedger, Tick, ReceivePacket,
     RefusePacket, Expire, Clear, Torn, TypeOK, FileType
<1> QED
  BY <1>1, <1>2, <1>3

(* What a step may do to the records in memory.                            *)
LEMMA JournalStep ==
    ASSUME TypeOK, [Next]_vars
    PROVE  \/ journal'.records \in {journal.records, NoRecords, disk.rows}
           \/ /\ Written
              /\ journal'.records = [journal.records EXCEPT ![rx.packet.sender] = Row(rx.packet)]
<1>1. CASE AdmitLate \/ AdmitNew
  <2>1. Persist(rx.packet) /\ Written
    BY <1>1, SeenGrows DEF AdmitLate, AdmitNew
  <2> QED
    BY <2>1 DEF Persist, TypeOK, JournalType
<1>2. ASSUME NEW epoch \in Epochs,
             \/ StartFromJournal(epoch) \/ StartNewJournal(epoch) \/ StartWithoutJournal(epoch)
      PROVE  journal'.records \in {NoRecords, disk.rows}
  <2>1. ASSUME NEW file \in FileType
        PROVE  /\ Configured(file).records \in {file.rows, NoRecords}
               /\ [Configured(file) EXCEPT !.healthy = FALSE].records \in {file.rows, NoRecords}
    BY DEF Configured
  <2>2. NoFile \in FileType /\ NoFile.rows = NoRecords
    BY EmptyTypes DEF NoFile, FileType
  <2>3. CASE StartFromJournal(epoch)
    BY <2>1, <2>3 DEF StartFromJournal, TypeOK
  <2>4. CASE StartNewJournal(epoch)
    <3>1. PICK file \in {[disk EXCEPT !.exists = TRUE], Torn([disk EXCEPT !.exists = TRUE])} :
             journal' \in {Configured(file), [Configured(NoFile) EXCEPT !.healthy = FALSE]}
      BY <2>4 DEF StartNewJournal
    <3>2. file \in FileType /\ file.rows = disk.rows
      BY <3>1 DEF TypeOK, FileType, Torn
    <3> QED
      BY <2>1, <2>2, <3>1, <3>2
  <2>5. CASE StartWithoutJournal(epoch)
    BY <2>1, <2>2, <2>5 DEF StartWithoutJournal
  <2> QED
    BY <1>2, <2>3, <2>4, <2>5
<1>3. CASE Crash \/ CrashInPersist
  BY <1>3 DEF Crash, CrashInPersist, Down, NoJournal
<1>4. CASE \/ (\E epoch \in Epochs : StartInMemory(epoch)) \/ ReconfigureLedger \/ Tick
           \/ (\E pk \in Packets : ReceivePacket(pk)) \/ RefusePacket \/ PersistFails
           \/ Expire \/ Clear \/ UNCHANGED vars
  BY <1>4 DEF StartInMemory, ReconfigureLedger, Tick, ReceivePacket, RefusePacket, PersistFails,
     Expire, Clear, vars, TypeOK, JournalType
<1> QED
  BY <1>1, <1>2, <1>3, <1>4 DEF Next

LEMMA AllGroundedStep == IInv /\ CacheForm /\ AllGrounded /\ [Next]_vars => AllGrounded'
<1> SUFFICES ASSUME IInv, CacheForm, AllGrounded, [Next]_vars PROVE AllGrounded'
  OBVIOUS
<1> DEFINE pk == rx.packet
<1>1. TypeOK /\ TypeOK' /\ Seen \subseteq Seen'
  BY TypeStep, SeenGrows DEF IInv
<1>2. ASSUME Written
      PROVE  pk.sender \in Senders /\ Grounded(pk.sender, Row(pk), Seen')
  <2>1. pk \in Packets /\ pk.sender \in Senders /\ Remembered(pk.sender) \in Record
    BY <1>1, <1>2, BusyRx, PacketFields, RememberedType DEF Written
  <2>2. Grounded(pk.sender, Remembered(pk.sender), Seen)
    BY <2>1, GroundedFrame DEF AllGrounded, Remembered
  <2>3. Acceptable(pk, Remembered(pk.sender)) /\ Seen \in SUBSET Ids
    BY <1>2 DEF Written, Admissible, Seen
  <2>4. Grounded(pk.sender, Row(pk), Seen \union {Id(pk)})
    BY <2>1, <2>2, <2>3, NextRecordGrounded DEF Row
  <2>5. Seen \union {Id(pk)} \subseteq Seen'
    BY <1>1, <1>2 DEF Written
  <2> QED
    BY <2>1, <2>4, <2>5, GroundedFrame
<1>3. ASSUME NEW s \in Senders
      PROVE  Grounded(s, disk'.rows[s], Seen')
  <2>1. CASE disk'.rows = disk.rows
    BY <1>1, <2>1, GroundedFrame DEF AllGrounded
  <2>2. CASE Written /\ disk'.rows = [disk.rows EXCEPT ![pk.sender] = Row(pk)]
    <3>1. disk'.rows[s] = IF s = pk.sender THEN Row(pk) ELSE disk.rows[s]
      BY <1>1, <2>2 DEF TypeOK, FileType
    <3> QED
      BY <1>1, <1>2, <2>2, <3>1, GroundedFrame DEF AllGrounded
  <2> QED
    BY <1>1, <2>1, <2>2, DiskStep
<1>4. ASSUME NEW s \in Senders
      PROVE  Grounded(s, journal'.records[s], Seen')
  <2>1. CASE journal'.records = journal.records \/ journal'.records = disk.rows
    BY <1>1, <2>1, GroundedFrame DEF AllGrounded
  <2>2. CASE journal'.records = NoRecords
    BY <2>2, EmptyGrounded DEF NoRecords
  <2>3. CASE Written /\ journal'.records = [journal.records EXCEPT ![pk.sender] = Row(pk)]
    <3>1. journal'.records[s] = IF s = pk.sender THEN Row(pk) ELSE journal.records[s]
      BY <1>1, <2>3 DEF TypeOK, JournalType
    <3> QED
      BY <1>1, <1>2, <2>3, <3>1, GroundedFrame DEF AllGrounded
  <2> QED
    BY <1>1, <2>1, <2>2, <2>3, JournalStep
<1>5. ASSUME NEW s \in Senders
      PROVE  Grounded(s, peers'[s], Seen')
  <2>1. CASE peers'[s] = NoPeer
    BY <2>1, EmptyGrounded
  <2>2. CASE Kept(s)
    BY <1>1, <2>2, GroundedFrame DEF AllGrounded, Kept
  <2>3. CASE MarkedLate(s)
    <3>1. /\ s = pk.sender /\ s \in Known(peers) /\ up /\ rx.busy /\ Late(pk, Remembered(s))
          /\ Written
      BY <1>1, <2>3, SeenGrows DEF MarkedLate, AdmitLate
    <3>2. Row(pk).epoch = peers[s].epoch /\ Row(pk).high = peers[s].high
      BY <1>1, <3>1, RowHead, RememberedIsEntry
    <3> QED
      BY <1>2, <2>3, <3>1, <3>2, GroundedFrame DEF MarkedLate
  <2>4. CASE Replaced(s)
    <3>1. s = pk.sender /\ rx.busy /\ ~Late(pk, Remembered(s)) /\ Written
      BY <1>1, <2>4, SeenGrows DEF Replaced, AdmitNew
    <3>2. Row(pk).epoch = pk.epoch /\ Row(pk).high = pk.seq
      BY <1>1, <3>1, RowHead
    <3> QED
      BY <1>2, <2>4, <3>1, <3>2, GroundedFrame DEF Replaced
  <2> QED
    BY <2>1, <2>2, <2>3, <2>4, EntryStep
<1> QED
  BY <1>3, <1>4, <1>5 DEF AllGrounded

(* No packet is taken for a duplicate of one that was never there: every   *)
(* bit of the window it is judged by was set for that very number.         *)
THEOREM NoDuplicateIsImagined == Spec => []NoFalseDuplicate
<1>1. Init => AllGrounded
  <2> SUFFICES ASSUME Init PROVE AllGrounded
    OBVIOUS
  <2>1. \A s \in Senders : /\ peers[s] = NoPeer /\ journal.records[s] = NoRecord
                           /\ disk.rows[s] = NoRecord
    BY DEF Init, NoPeers, NoJournal, NoFile, NoRecords
  <2> QED
    BY <2>1, EmptyGrounded DEF AllGrounded
<1>2. AllGrounded => NoFalseDuplicate
  <2> SUFFICES ASSUME AllGrounded, NEW s \in Senders
               PROVE  Grounded(s, Remembered(s), Seen)
    BY DEF NoFalseDuplicate
  <2> QED
    BY GroundedFrame DEF AllGrounded, Remembered
<1> QED
  BY <1>1, <1>2, CacheFormInit, CacheFormStep, AllGroundedStep, IInvHolds, PTL DEF Spec

(***************************************************************************)
(* Replays without a journal.                                              *)
(***************************************************************************)

(* An overtaken packet removes no entry.                                   *)
LEMMA AdmitLateKeeps ==
    ASSUME IInv, CacheForm, AdmitLate, NEW s \in Known(peers)
    PROVE  Kept(s) \/ MarkedLate(s)
<1>1. peers'[s].bitmap # {}
  <2>1. peers \in [Senders -> Entry] /\ peers[s] \in Entry
    BY DEF IInv, TypeOK, Known
  <2>2. rx.packet.sender \in Senders
    BY BusyRx, PacketFields DEF IInv, AdmitLate
  <2>3. CASE s = rx.packet.sender
    <3>1. 0 \in Row(rx.packet).bitmap
      BY RowHasBit DEF AdmitLate
    <3>2. peers'[s] = [peers[s] EXCEPT !.bitmap = Row(rx.packet).bitmap]
      BY <2>1, <2>2, <2>3 DEF AdmitLate, Marked
    <3> QED
      BY <2>1, <3>1, <3>2 DEF Entry
  <2>4. CASE s # rx.packet.sender
    <3>1. peers'[s] = peers[s]
      BY <2>1, <2>2, <2>4 DEF AdmitLate, Known
    <3> QED
      BY <3>1 DEF Known
  <2> QED
    BY <2>3, <2>4
<1>2. s \in Senders /\ peers'[s] # NoPeer /\ ~AdmitNew
  BY <1>1 DEF Known, NoPeer, AdmitLate, AdmitNew
<1>3. [Next]_vars
  BY DEF Next
<1> QED
  BY <1>2, <1>3, EntryStep DEF Replaced

LEMMA CoveredFrame ==
    ASSUME NEW old, NEW new, NEW id, Covered(old, id),
           new.epoch = old.epoch, new.high = old.high, new.bitmap = old.bitmap
    PROVE  Covered(new, id)
  BY DEF Covered

(* An entry that was marked or replaced holds the row of the packet.       *)
LEMMA NewEntryIsRow ==
    ASSUME IInv, CacheForm, NEW s \in Senders, MarkedLate(s) \/ Replaced(s)
    PROVE  /\ up /\ rx.busy /\ Admissible(rx.packet, rx.at) /\ s = rx.packet.sender
           /\ peers'[s].epoch = Row(rx.packet).epoch
           /\ peers'[s].high = Row(rx.packet).high
           /\ peers'[s].bitmap = Row(rx.packet).bitmap
           /\ s \in Known(peers')
<1>1. up /\ rx.busy /\ Admissible(rx.packet, rx.at) /\ s = rx.packet.sender
  BY DEF MarkedLate, Replaced, AdmitLate, AdmitNew
<1>2. peers'[s].bitmap = Row(rx.packet).bitmap /\ s \in Known(peers')
  BY <1>1, RowHasBit DEF MarkedLate, Replaced, Known
<1>3. CASE MarkedLate(s)
  BY <1>1, <1>2, <1>3, RowHead, RememberedIsEntry DEF IInv, MarkedLate, AdmitLate
<1>4. CASE Replaced(s)
  BY <1>1, <1>2, <1>4, RowHead DEF IInv, Replaced, AdmitNew
<1> QED
  BY <1>1, <1>2, <1>3, <1>4

(* What an entry refuses it keeps refusing as long as it is kept.          *)
LEMMA EntryKeepsRefusing ==
    ASSUME IInv, CacheForm, NEW id \in Ids, Refused(id),
           Kept(id.sender) \/ MarkedLate(id.sender) \/ Replaced(id.sender)
    PROVE  Refused(id)'
<1> DEFINE s == id.sender
<1>1. s \in Senders /\ s \in Known(peers) /\ Covered(peers[s], id)
  BY IdFields DEF Refused
<1>2. CASE Kept(s)
  BY <1>1, <1>2, CoveredFrame DEF Kept, Known, Refused
<1>3. CASE MarkedLate(s) \/ Replaced(s)
  <2>1. /\ up /\ rx.busy /\ Admissible(rx.packet, rx.at) /\ s = rx.packet.sender
        /\ peers'[s].epoch = Row(rx.packet).epoch
        /\ peers'[s].high = Row(rx.packet).high
        /\ peers'[s].bitmap = Row(rx.packet).bitmap
        /\ s \in Known(peers')
    BY <1>1, <1>3, NewEntryIsRow
  <2>2. /\ rx.packet \in Packets /\ Remembered(s) \in Record
        /\ Acceptable(rx.packet, Remembered(s)) /\ Row(rx.packet) = NextRecord(rx.packet, Remembered(s))
    BY <1>1, <2>1, BusyRx, RememberedType DEF IInv, Admissible, Row
  <2>3. Remembered(s) # NoRecord /\ Covered(Remembered(s), id)
    BY <1>1, <2>1, RememberedIsEntry, CoveredFrame DEF NoRecord, Known
  <2>4. Covered(Row(rx.packet), id)
    BY <2>2, <2>3, NextRecordKeepsCovered
  <2> QED
    BY <2>1, <2>4, CoveredFrame DEF Refused
<1> QED
  BY <1>2, <1>3

(* Without a journal, the packet about to be admitted was never admitted   *)
(* before, unless its sender was lost.                                     *)
LEMMA MemoryNotUsed ==
    ASSUME IInv, CacheForm, ~Journaled, MemoryInv,
           up, rx.busy, Admissible(rx.packet, rx.at), rx.packet.sender \notin lost
    PROVE  uses[Id(rx.packet)] = 0
<1> DEFINE id == Id(rx.packet)
<1>1. rx.packet \in Packets /\ id \in Ids /\ id.sender = rx.packet.sender
  BY BusyRx, PacketFields DEF IInv
<1>2. uses[id] \in 0 .. 2
  BY <1>1 DEF IInv, TypeOK
<1>3. ASSUME uses[id] > 0 PROVE FALSE
  <2>1. Refused(id)
    BY <1>1, <1>3 DEF MemoryInv, TooOld
  <2>2. id.sender \in Known(peers) /\ Covered(peers[id.sender], id) /\ id.sender \in Senders
    BY <1>1, <2>1, IdFields DEF Refused
  <2>3. Remembered(id.sender) # NoRecord /\ Covered(Remembered(id.sender), id)
    BY <2>2, RememberedIsEntry, CoveredFrame DEF NoRecord, Known
  <2>4. Remembered(id.sender) \in Record /\ Acceptable(rx.packet, Remembered(id.sender))
    BY <1>1, <2>2, RememberedType DEF IInv, Admissible
  <2> QED
    BY <1>1, <2>3, <2>4, AcceptableNotCovered
<1> QED
  BY <1>2, <1>3

(* When an entry expires, every packet it refused is too old by itself,    *)
(* unless the receive thread holds one already.                            *)
LEMMA ExpiredIsTooOld ==
    ASSUME IInv, CacheForm, NumberedInTime, EntriesShowPackets,
           NEW id \in Ids, id.epoch = trust, Refused(id), id.sender \in Expired
    PROVE  \A pk \in Packets : Id(pk) = id /\ pk.ttl <= MaxTTL => ~Fresh(pk, now)
<1> DEFINE s == id.sender
<1>1. /\ s \in Known(peers) /\ Covered(peers[s], id) /\ peers[s].epoch = trust
  BY DEF Refused, EntriesShowPackets
<1>2. PICK q \in Packets : /\ q.sender = s /\ q.epoch = trust
                           /\ q.seq = peers[s].high /\ q.ts = peers[s].ts
  BY <1>1 DEF EntriesShowPackets
<1>3. trust \in Nat /\ now \in Nat /\ peers[s].ts \in Nat
  BY <1>1 DEF IInv, TypeOK, Entry, Known
<1>4. id.seq <= peers[s].high
  BY <1>1, <1>3 DEF Covered
<1>5. now - peers[s].ts > Retention /\ Retention \in Nat
  <2>1. Age(s) > Retention /\ Retention \in Nat
    BY ConstantsAssumption DEF Expired, Retention
  <2> QED
    BY <1>3, <2>1 DEF Age
<1> SUFFICES ASSUME NEW pk \in Packets, Id(pk) = id, pk.ttl <= MaxTTL, Fresh(pk, now)
             PROVE  FALSE
  OBVIOUS
<1>6. pk.sender = s /\ pk.epoch = trust /\ pk.seq = id.seq
  BY DEF Id
<1>7. pk.ts + pk.ttl + Skew <= q.ts + Retention
  BY <1>2, <1>4, <1>6 DEF NumberedInTime
<1>8. pk.ts \in Nat /\ pk.ttl \in Nat /\ Skew \in Nat
  BY ConstantsAssumption DEF PacketType
<1> QED
  BY <1>2, <1>3, <1>5, <1>7, <1>8 DEF Fresh

LEMMA MemoryInvInit == Init => MemoryInv
<1> SUFFICES ASSUME Init PROVE MemoryInv
  OBVIOUS
<1>1. Known(peers) = {} /\ ~rx.busy /\ \A id \in Ids : uses[id] = 0
  BY DEF Init, NoPeers, NoPeer, Known, Idle
<1> QED
  BY <1>1 DEF MemoryInv, EntriesShowPackets, RxAuthentic, RepeatOnlyAfterLoss

(* The parts of MemoryInv about the entries and about the packet at hand.  *)
LEMMA MemoryFrameStep ==
    ASSUME IInv, CacheForm, EntriesShowPackets, RxAuthentic, [Next]_vars
    PROVE  EntriesShowPackets' /\ RxAuthentic'
<1>1. ASSUME NEW s \in Senders, s \in Known(peers')
      PROVE  /\ peers'[s].epoch = trust'
             /\ \E pk \in Packets : /\ pk.sender = s /\ pk.epoch = trust'
                                    /\ pk.seq = peers'[s].high /\ pk.ts = peers'[s].ts
  <2>1. peers'[s] # NoPeer
    BY <1>1 DEF Known, NoPeer
  <2>2. trust' = trust
    <3>1. peers' # NoPeers
      BY <2>1 DEF NoPeers
    <3> QED
      BY <3>1 DEF CacheForm, Next, vars, StartInMemory, StartFromJournal, StartNewJournal,
      StartWithoutJournal, Start, Crash, ReconfigureLedger, Tick, ReceivePacket, RefusePacket,
      PersistFails, CrashInPersist, AdmitLate, AdmitNew, Expire, Clear
  <2>3. CASE Kept(s) \/ MarkedLate(s)
    BY <2>2, <2>3 DEF Kept, MarkedLate, EntriesShowPackets
  <2>4. CASE Replaced(s)
    <3>1. rx.busy /\ rx.packet \in Packets /\ rx.packet.epoch = trust
      BY <2>4, BusyRx DEF IInv, Replaced, AdmitNew, RxAuthentic
    <3> QED
      BY <2>2, <2>4, <3>1 DEF Replaced
  <2> QED
    BY <2>1, <2>3, <2>4, EntryStep
<1>2. EntriesShowPackets'
  BY <1>1 DEF EntriesShowPackets, Known
<1>3. RxAuthentic'
  <2>1. CASE rx' = Idle
    BY <2>1 DEF RxAuthentic, Idle
  <2>2. CASE \E pk \in Packets : ReceivePacket(pk)
    <3>1. PICK pk \in Packets : ReceivePacket(pk)
      BY <2>2
    <3>2. pk.ttl <= MaxTTL
      BY <3>1, ConstantsAssumption DEF ReceivePacket, Authentic, PacketType
    <3> QED
      BY <3>1, <3>2 DEF ReceivePacket, Authentic, RxAuthentic
  <2>3. CASE rx' = rx /\ ((up' = up /\ trust' = trust) \/ ~up)
    BY <2>3 DEF RxAuthentic
  <2>4. \/ rx' = Idle
        \/ \E pk \in Packets : ReceivePacket(pk)
        \/ rx' = rx /\ ((up' = up /\ trust' = trust) \/ ~up)
    BY DEF Next, vars, StartInMemory, StartFromJournal, StartNewJournal,
      StartWithoutJournal, Start, Crash, Down, ReconfigureLedger, Tick, RefusePacket,
      PersistFails, CrashInPersist, AdmitLate, AdmitNew, Expire, Clear
  <2> QED
    BY <2>1, <2>2, <2>3, <2>4
<1> QED
  BY <1>2, <1>3

(* What the rest of MemoryInv says of one identity.                        *)
Guarded(id) ==
    uses[id] > 0 /\ id.sender \notin lost =>
        /\ up
        /\ id.epoch = trust
        /\ uses[id] <= 1
        /\ Refused(id) \/ TooOld(id)

LEMMA MemoryInvGuards ==
    ASSUME TypeOK
    PROVE  MemoryInv <=> /\ EntriesShowPackets /\ RxAuthentic
                         /\ \A id \in Ids : Guarded(id)
<1>1. \A id \in Ids : uses[id] \in 0 .. 2
  BY DEF TypeOK
<1>2. \A id \in Ids : (uses[id] > 1 => uses[id] > 0) /\ (uses[id] <= 1 <=> ~(uses[id] > 1))
  BY <1>1
<1> QED
  BY <1>2 DEF MemoryInv, Guarded, RepeatOnlyAfterLoss

(* Admission guards the identity admitted, and leaves the others guarded.  *)
LEMMA GuardedAdmit ==
    ASSUME IInv, CacheForm, ~Journaled, MemoryInv, AdmitLate \/ AdmitNew, NEW id \in Ids
    PROVE  Guarded(id)'
<1> DEFINE pk == rx.packet
           s == pk.sender
<1>1. /\ up /\ rx.busy /\ Admissible(pk, rx.at) /\ uses' = CountedUse(pk)
      /\ up' = up /\ trust' = trust /\ now' = now /\ rx' = Idle
  BY DEF AdmitLate, AdmitNew
<1>2. /\ pk \in Packets /\ s \in Senders /\ Id(pk) \in Ids
      /\ Id(pk).sender = s /\ Id(pk).epoch = pk.epoch
  BY <1>1, BusyRx, PacketFields DEF IInv
<1>3. uses \in [Ids -> 0 .. 2] /\ [Next]_vars /\ id.sender \in Senders
  BY IdFields DEF IInv, TypeOK, Next
<1>4. pk.epoch = trust
  BY <1>1 DEF MemoryInv, RxAuthentic
<1>5. lost \subseteq lost'
  BY DEF AdmitLate, AdmitNew
<1>6. ASSUME NEW t \in Senders, t \in Known(peers) \/ t = s, t \notin lost'
      PROVE  Kept(t) \/ MarkedLate(t) \/ Replaced(t)
  <2>1. CASE AdmitLate
    <3>1. t \in Known(peers)
      <4>1. CASE t = s
        BY <1>2, <2>1, <4>1, ForgottenHasNoRecord DEF AdmitLate, Late
      <4> QED
        BY <1>6, <4>1
    <3> QED
      BY <2>1, <3>1, AdmitLateKeeps
  <2>2. CASE AdmitNew
    <3>1. t \in Known(peers')
      BY <1>6, <2>2 DEF AdmitNew, CacheForm, NoJournal
    <3>2. peers'[t] # NoPeer
      BY <3>1 DEF Known, NoPeer
    <3> QED
      BY <1>3, <3>2, EntryStep
  <2> QED
    BY <2>1, <2>2
<1> SUFFICES ASSUME uses'[id] > 0, id.sender \notin lost'
             PROVE  id.epoch = trust /\ uses'[id] <= 1 /\ (Refused(id)' \/ TooOld(id)')
  BY <1>1 DEF Guarded
<1>7. CASE id = Id(pk)
  <2>1. uses[id] = 0
    BY <1>1, <1>2, <1>5, <1>7, MemoryNotUsed
  <2>2. uses'[id] = 1
    BY <1>1, <1>3, <1>7, <2>1 DEF CountedUse
  <2>3. Covered(Row(pk), id)
    <3>1. Remembered(s) \in Record /\ Acceptable(pk, Remembered(s))
      BY <1>1, <1>2, RememberedType DEF IInv, Admissible
    <3>2. Remembered(s) # NoRecord => 0 \in Remembered(s).bitmap
      <4>1. CASE s \in Known(peers)
        <5>1. 0 \in peers[s].bitmap
          BY <1>2, <4>1 DEF CacheForm, Known
        <5> QED
          BY <1>1, <4>1, <5>1, RememberedIsEntry
      <4>2. CASE s \notin Known(peers)
        BY <1>2, <4>2, ForgottenHasNoRecord
      <4> QED
        BY <4>1, <4>2
    <3> QED
      BY <1>2, <1>7, <3>1, <3>2, NextRecordCovers DEF Row
  <2>4. Kept(s) \/ MarkedLate(s) \/ Replaced(s)
    BY <1>2, <1>6, <1>7
  <2>5. Refused(id)'
    <3>1. CASE MarkedLate(s) \/ Replaced(s)
      BY <1>2, <1>7, <2>3, <3>1, NewEntryIsRow, CoveredFrame DEF Refused
    <3>2. CASE Kept(s) /\ ~MarkedLate(s) /\ ~Replaced(s)
      <4>1. CASE AdmitLate
        <5>1. peers'[s] = [peers[s] EXCEPT !.bitmap = Row(pk).bitmap] /\ peers[s] \in Entry
          BY <1>2, <3>2, <4>1 DEF AdmitLate, Marked, Kept, IInv, TypeOK
        <5> QED
          BY <3>2, <4>1, <5>1 DEF Entry, MarkedLate, Kept
      <4>2. CASE AdmitNew
        <5>1. peers'[s] # NoPeer
          BY <3>2 DEF Kept, Known, NoPeer
        <5> QED
          BY <3>2, <4>2, <5>1, AdmitNewPeers DEF Replaced, IInv
      <4> QED
        BY <4>1, <4>2
    <3> QED
      BY <2>4, <3>1, <3>2
  <2> QED
    BY <1>2, <1>4, <1>7, <2>2, <2>5
<1>8. CASE id # Id(pk)
  <2>1. uses'[id] = uses[id]
    BY <1>1, <1>2, <1>3, <1>8 DEF CountedUse
  <2>2. id.epoch = trust /\ uses[id] <= 1 /\ (Refused(id) \/ TooOld(id))
    BY <1>3, <1>5, <2>1, MemoryInvGuards DEF Guarded, IInv
  <2>3. CASE TooOld(id)
    BY <1>1, <2>1, <2>2, <2>3 DEF TooOld, Idle, Fresh
  <2>4. CASE Refused(id)
    <3>1. Kept(id.sender) \/ MarkedLate(id.sender) \/ Replaced(id.sender)
      BY <1>3, <1>6, <2>4 DEF Refused
    <3> QED
      BY <2>1, <2>2, <2>4, <3>1, EntryKeepsRefusing
  <2> QED
    BY <2>2, <2>3, <2>4
<1> QED
  BY <1>7, <1>8

(* Expiry forgets only what is too old.                                    *)
LEMMA GuardedExpire ==
    ASSUME IInv, CacheForm, ~Journaled, NumberedInTime, MemoryInv, Expire, NEW id \in Ids
    PROVE  Guarded(id)'
<1>1. /\ up' = up /\ trust' = trust /\ now' = now /\ rx' = rx /\ uses' = uses
      /\ lost \subseteq lost' /\ ~journal.enabled
  BY DEF Expire, CacheForm, NoJournal
<1>2. id.sender \in Senders /\ [Next]_vars
  BY IdFields DEF Next
<1> SUFFICES ASSUME uses[id] > 0, id.sender \notin lost'
             PROVE  up /\ id.epoch = trust /\ uses[id] <= 1 /\ (Refused(id)' \/ TooOld(id)')
  BY <1>1 DEF Guarded
<1>3. up /\ id.epoch = trust /\ uses[id] <= 1 /\ (Refused(id) \/ TooOld(id))
  BY <1>1, MemoryInvGuards DEF Guarded, IInv
<1>4. CASE TooOld(id)
  BY <1>1, <1>3, <1>4 DEF TooOld, Fresh
<1>5. CASE Refused(id) /\ id.sender \in Expired
  <2>1. \A pk \in Packets : Id(pk) = id /\ pk.ttl <= MaxTTL => ~Fresh(pk, now)
    BY <1>3, <1>5, ExpiredIsTooOld DEF MemoryInv
  <2>2. rx.busy => Id(rx.packet) # id
    BY <1>1, <1>5, BusyRx, PacketFields DEF Expire, IInv
  <2> QED
    BY <1>1, <1>3, <2>1, <2>2 DEF TooOld, Fresh
<1>6. CASE Refused(id) /\ id.sender \notin Expired
  <2>1. peers[id.sender] \in Entry /\ id.sender \in Known(peers)
    BY <1>2, <1>6 DEF IInv, TypeOK, Refused
  <2>2. peers'[id.sender] = Refreshed(id.sender)
    BY <1>2, <1>6, <2>1 DEF Expire
  <2>3. Kept(id.sender)
    BY <2>1, <2>2 DEF Refreshed, Entry, Kept
  <2> QED
    BY <1>3, <1>6, <2>3, EntryKeepsRefusing
<1> QED
  BY <1>3, <1>4, <1>5, <1>6

LEMMA MemoryInvStep ==
    ASSUME IInv, IInv', CacheForm, ~Journaled, NumberedInTime, MemoryInv, [Next]_vars
    PROVE  MemoryInv'
<1>1. EntriesShowPackets' /\ RxAuthentic'
  BY MemoryFrameStep DEF MemoryInv
<1>2. ASSUME NEW id \in Ids PROVE Guarded(id)'
  <2>1. Guarded(id) /\ ~journal.enabled /\ id.sender \in Senders
    BY MemoryInvGuards, IdFields DEF IInv, CacheForm, NoJournal
  <2>2. CASE lost' = Senders
    BY <2>1, <2>2 DEF Guarded
  <2>3. ASSUME NEW epoch \in Epochs, StartInMemory(epoch)
        PROVE  Guarded(id)'
    BY <2>1, <2>3 DEF StartInMemory, Start, Guarded
  <2>4. CASE Tick
    <3>1. \A pk \in Packets : Fresh(pk, now + 1) => Fresh(pk, now)
      BY ConstantsAssumption DEF Fresh, PacketType, IInv, TypeOK
    <3> QED
      BY <2>1, <2>4, <3>1 DEF Tick, Guarded, Refused, TooOld, Fresh
  <2>5. ASSUME NEW pk \in Packets, ReceivePacket(pk)
        PROVE  Guarded(id)'
    <3>1. Fresh(pk, now) /\ pk.ttl <= MaxTTL
      BY <2>5, ConstantsAssumption DEF ReceivePacket, Authentic, PacketType
    <3> QED
      BY <2>1, <2>5, <3>1 DEF ReceivePacket, Guarded, Refused, TooOld, Fresh
  <2>6. CASE RefusePacket \/ UNCHANGED vars
    BY <2>1, <2>6 DEF RefusePacket, Idle, vars, Guarded, Refused, TooOld, Fresh
  <2>7. CASE AdmitLate \/ AdmitNew
    BY <2>7, GuardedAdmit
  <2>8. CASE Expire
    BY <2>8, GuardedExpire
  <2>9. CASE Crash \/ Clear
    BY <2>1, <2>2, <2>9 DEF Crash, Down, Clear
  <2>10. ~ReconfigureLedger /\ ~PersistFails /\ ~CrashInPersist
         /\ \A epoch \in Epochs : /\ ~StartFromJournal(epoch) /\ ~StartNewJournal(epoch)
                                  /\ ~StartWithoutJournal(epoch)
    BY <2>1 DEF ReconfigureLedger, PersistFails, CrashInPersist, StartFromJournal,
       StartNewJournal, StartWithoutJournal
  <2> QED
    BY <2>3, <2>4, <2>5, <2>6, <2>7, <2>8, <2>9, <2>10 DEF Next
<1> QED
  <2>1. \A id \in Ids : uses'[id] \in 0 .. 2
    BY DEF IInv, TypeOK
  <2>2. \A id \in Ids : (uses'[id] > 1 => uses'[id] > 0) /\ (uses'[id] <= 1 <=> ~(uses'[id] > 1))
    BY <2>1
  <2> QED
    BY <1>1, <1>2, <2>2 DEF MemoryInv, Guarded, RepeatOnlyAfterLoss

ReplayInv == IInv /\ CacheForm /\ (~Journaled => MemoryInv)

(* A packet is admitted a second time only after its sender's window was   *)
(* really lost. Expiry by itself opens no window, if a sender never stamps *)
(* a later packet so much earlier that its entry expires too soon.         *)
THEOREM ReplayNeedsLoss == NumberedInTime => (Spec => []RepeatOnlyAfterLoss)
<1> SUFFICES ASSUME NumberedInTime PROVE Spec => []RepeatOnlyAfterLoss
  OBVIOUS
<1>1. Init => ReplayInv
  BY TypeInit, JournalInvInit, CacheFormInit, MemoryInvInit DEF ReplayInv, IInv
<1>2. ReplayInv /\ [Next]_vars => ReplayInv'
  <2>1. IInv /\ [Next]_vars => IInv'
    BY TypeStep, JournalInvStep DEF IInv
  <2> QED
    BY <2>1, CacheFormStep, MemoryInvStep DEF ReplayInv
<1>3. ReplayInv => RepeatOnlyAfterLoss
  <2> USE DEF ReplayInv
  <2>1. CASE Journaled
    <3>1. IInv => \A id \in Ids : uses[id] \in 0 .. 2 /\ uses[id] <= 1
      BY <2>1 DEF IInv, TypeOK, JournalInv
    <3> QED
      BY <3>1 DEF RepeatOnlyAfterLoss
  <2>2. CASE ~Journaled
    BY <2>2 DEF MemoryInv
  <2> QED
    BY <2>1, <2>2
<1> QED
  BY <1>1, <1>2, <1>3, PTL DEF Spec

(* The hypothesis of ReplayNeedsLoss holds of every sender whose packets   *)
(* are stamped in the order of their numbers.                              *)
THEOREM StampedInOrder ==
    ASSUME \A p, q \in Packets :
              p.sender = q.sender /\ p.epoch = q.epoch /\ p.seq <= q.seq => p.ts <= q.ts
    PROVE  NumberedInTime
<1>1. Retention \in Nat /\ Skew + MaxTTL <= Retention
  BY ConstantsAssumption DEF Retention
<1> SUFFICES ASSUME NEW p \in Packets, NEW q \in Packets, p.sender = q.sender,
                    p.epoch = q.epoch, p.seq <= q.seq, p.ttl <= MaxTTL
             PROVE  p.ts + p.ttl + Skew <= q.ts + Retention
  BY DEF NumberedInTime
<1>2. p.ts \in Nat /\ q.ts \in Nat /\ p.ttl \in Nat /\ Skew \in Nat /\ MaxTTL \in Nat
  BY ConstantsAssumption DEF PacketType
<1> QED
  BY <1>1, <1>2
=============================================================================
