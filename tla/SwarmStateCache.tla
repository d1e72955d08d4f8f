-------------------------- MODULE SwarmStateCache --------------------------
(***************************************************************************)
(* Admission of authenticated peer packets on one drone: the receive       *)
(* thread (V2XMeshNetwork::handle_edge_packet), the bounded peer cache     *)
(* with its sliding replay window (SwarmStateCache), the durable replay    *)
(* journal (ReplayJournal), the expiry pass of the heartbeat thread, and   *)
(* crashes and restarts of the process.                                    *)
(*                                                                         *)
(* The radio may lose, delay, duplicate and reorder packets at will: any   *)
(* packet of Packets may arrive at any moment at which it is authentic.    *)
(***************************************************************************)
EXTENDS Naturals, FiniteSets

CONSTANTS
    Senders,        \* node ids of the peers (never 0)
    Packets,        \* every packet that is ever on the air
    Epochs,         \* trust epochs the operator configures at a start
    Window,         \* replay_window_size: 64 in the code
    MaxEntries,     \* SwarmStateCacheConfig::max_entries
    StaleTimeout,   \* stale_peer_timeout_ms
    EntryExpiry,    \* entry_expiry_ms
    Skew,           \* accepted_clock_skew_ms = PacketAuthConfig::max_clock_skew_ms
    MaxTTL,         \* maximum_authenticated_ttl_ms = max_packet_ttl_ms
    Journaled,      \* is a replay_ledger_path configured?
    MaxTime,        \* bound: the clock stops here
    MaxStarts       \* bound: how often the process is started

Kinds == {"heartbeat", "edge_health", "consensus_state", "peer_goodbye", "other"}

PacketType ==
    [sender : Senders, epoch : Nat, seq : Nat, ts : Nat, ttl : Nat,
     kind : Kinds, fault : BOOLEAN, disconnected : BOOLEAN]

ASSUME ConstantsAssumption ==
    /\ IsFiniteSet(Senders)
    /\ Packets \subseteq PacketType
    /\ Epochs \subseteq Nat
    /\ Window \in Nat \ {0}
    /\ {MaxEntries, StaleTimeout, EntryExpiry, Skew, MaxTTL, MaxTime, MaxStarts} \subseteq Nat
    /\ Journaled \in BOOLEAN

VARIABLES
    now,        \* system_clock in the units of the packet timestamps
    up,         \* is the process running?
    starts,     \* how often it has been started
    trust,      \* PacketAuthConfig::trust_epoch of this run of the process
    rx,         \* packet inside handle_edge_packet, with the clock it read
    peers,      \* SwarmStateCache::peers_
    journal,    \* the ReplayJournal object in memory
    disk,       \* the journal file
    uses,       \* history: was each identity admitted never (0), once, or more (2)
    burnt,      \* history: identities on disk whose admission never happened
    lost        \* history: senders whose replay memory was really lost

vars == <<now, up, starts, trust, rx, peers, journal, disk, uses, burnt, lost>>

Id(pk) == [sender |-> pk.sender, epoch |-> pk.epoch, seq |-> pk.seq]
Ids == {Id(pk) : pk \in Packets}

(* A window holds the distances below the highest sequence that were seen: *)
(* bit d of the 64-bit bitmap is set iff d is in the set. Bit 0 is always  *)
(* set, so the empty window marks a sender without a record.               *)
Windows == SUBSET (0 .. Window - 1)
Record == [epoch : Nat, high : Nat, bitmap : Windows]
NoRecord == [epoch |-> 0, high |-> 0, bitmap |-> {}]

Entry == [epoch : Nat, high : Nat, bitmap : Windows, ts : Nat, stale : BOOLEAN,
          isolated : BOOLEAN, fault : BOOLEAN, disconnected : BOOLEAN]
NoPeer == [epoch |-> 0, high |-> 0, bitmap |-> {}, ts |-> 0, stale |-> FALSE,
           isolated |-> FALSE, fault |-> FALSE, disconnected |-> FALSE]

Known(table) == {s \in Senders : table[s].bitmap # {}}

NoRecords == [s \in Senders |-> NoRecord]
NoPeers == [s \in Senders |-> NoPeer]
Idle == [busy |-> FALSE]

(***************************************************************************)
(* The replay window.                                                      *)
(***************************************************************************)
ShiftedUnbounded(bitmap, n) == {0} \union {d + n : d \in bitmap}      \* faulty
ShiftedOverGap(bitmap, n) == (0 .. n) \intersect (0 .. Window - 1)    \* faulty

Shifted(bitmap, n) == {0} \union ({d + n : d \in bitmap} \intersect (0 .. Window - 1))

Distance(pk, old) == old.high - pk.seq

Late(pk, old) ==
    /\ old # NoRecord
    /\ pk.epoch = old.epoch
    /\ pk.seq <= old.high

Acceptable(pk, old) ==
    \/ old = NoRecord
    \/ pk.epoch > old.epoch
    \/ pk.epoch = old.epoch /\ pk.seq > old.high
    \/ /\ Late(pk, old)
       /\ Distance(pk, old) < Window
       /\ Distance(pk, old) \notin old.bitmap

NextRecordUnmarked(pk, old) ==                                    \* faulty
    IF Late(pk, old) THEN old
    ELSE [epoch |-> pk.epoch, high |-> pk.seq,
          bitmap |-> IF old # NoRecord /\ pk.epoch = old.epoch
                       THEN Shifted(old.bitmap, pk.seq - old.high) ELSE {0}]

NextRecord(pk, old) ==
    IF Late(pk, old)
      THEN [epoch |-> old.epoch,
            high |-> old.high,
            bitmap |-> old.bitmap \union {Distance(pk, old)}]
      ELSE [epoch |-> pk.epoch,
            high |-> pk.seq,
            bitmap |-> IF old # NoRecord /\ pk.epoch = old.epoch
                         THEN Shifted(old.bitmap, pk.seq - old.high)
                         ELSE {0}]

(* What observe_packet remembers of a sender: the journal's record first,  *)
(* the cache entry only when the journal has none.                         *)
Remembered(s) ==
    IF journal.enabled /\ journal.records[s] # NoRecord
      THEN journal.records[s]
      ELSE [epoch |-> peers[s].epoch, high |-> peers[s].high, bitmap |-> peers[s].bitmap]

(***************************************************************************)
(* The journal. Its file is a header and one row per admission; load()     *)
(* folds over the rows, checking each against the row before it of the     *)
(* same sender. The file is kept as the result of that fold: the last row  *)
(* of each sender, whether every row so far follows its predecessor        *)
(* (sound), and whether the last line has lost its end (torn).             *)
(***************************************************************************)
RowFollows(row, old) ==
    /\ 0 \in row.bitmap
    /\ \/ old = NoRecord
       \/ row.epoch > old.epoch /\ row.bitmap = {0}
       \/ /\ row.epoch = old.epoch /\ row.high = old.high
          /\ old.bitmap \subseteq row.bitmap
       \/ /\ row.epoch = old.epoch /\ row.high > old.high
          /\ row.bitmap = Shifted(old.bitmap, row.high - old.high)

Appended(file, s, row) ==
    [exists |-> file.exists,
     torn |-> file.torn,
     sound |-> file.sound /\ RowFollows(row, file.rows[s]),
     rows |-> [file.rows EXCEPT ![s] = row]]

Torn(file) == [file EXCEPT !.torn = TRUE]

Loadable(file) == file.exists /\ ~file.torn /\ file.sound

NoFile == [exists |-> FALSE, torn |-> FALSE, sound |-> TRUE, rows |-> NoRecords]

NoJournal == [enabled |-> FALSE, healthy |-> TRUE, records |-> NoRecords]

(* configure_replay_ledger on a fresh cache, once the file is there: load  *)
(* it; refuse to run with a history longer than max_entries.               *)
Configured(file) ==
    [enabled |-> TRUE,
     healthy |-> Loadable(file) /\ Cardinality(Known(file.rows)) <= MaxEntries,
     records |-> IF Loadable(file) THEN file.rows ELSE NoRecords]

JournalFullUnbounded(s) == FALSE                                  \* faulty

JournalFull(s) ==
    /\ journal.enabled
    /\ journal.records[s] = NoRecord
    /\ Cardinality(Known(journal.records)) >= MaxEntries

(***************************************************************************)
(* Life of the process.                                                    *)
(***************************************************************************)
Init ==
    /\ now = 0
    /\ up = FALSE
    /\ starts = 0
    /\ trust = 0
    /\ rx = Idle
    /\ peers = NoPeers
    /\ journal = NoJournal
    /\ disk = NoFile
    /\ uses = [id \in Ids |-> 0]
    /\ burnt = {}
    /\ lost = {}

(* What is gone with the process.                                          *)
Down ==
    /\ up' = FALSE
    /\ rx' = Idle
    /\ peers' = NoPeers
    /\ journal' = NoJournal
    /\ lost' = IF Journaled THEN lost ELSE Senders

Start(epoch) ==
    /\ ~up
    /\ starts < MaxStarts
    /\ up' = TRUE
    /\ starts' = starts + 1
    /\ trust' = epoch
    /\ UNCHANGED <<now, rx, peers, uses, burnt, lost>>

StartInMemory(epoch) ==
    /\ ~Journaled
    /\ Start(epoch)
    /\ UNCHANGED <<journal, disk>>

StartFromJournal(epoch) ==
    /\ Journaled
    /\ disk.exists
    /\ Start(epoch)
    /\ journal' = Configured(disk)
    /\ UNCHANGED disk

(* initialize_new_replay_ledger with no file yet: create_empty writes the  *)
(* header, and may fail before, in the middle of or after the write.       *)
StartNewJournal(epoch) ==
    /\ Journaled
    /\ ~disk.exists
    /\ Start(epoch)
    /\ \E file \in {[disk EXCEPT !.exists = TRUE], Torn([disk EXCEPT !.exists = TRUE])} :
          /\ disk' = file
          /\ journal' \in {Configured(file), [Configured(NoFile) EXCEPT !.healthy = FALSE]}

(* No file and no leave to make one: the journal stays unhealthy.          *)
StartWithoutJournal(epoch) ==
    /\ Journaled
    /\ ~disk.exists
    /\ Start(epoch)
    /\ journal' = Configured(NoFile)
    /\ UNCHANGED disk

Crash ==
    /\ up
    /\ Down
    /\ UNCHANGED <<now, starts, trust, disk, uses, burnt>>

(* A second configure_packet_auth with a ledger path: the journal object   *)
(* has a path already, or peers were admitted, and fails closed.           *)
ReconfigureLedger ==
    /\ up
    /\ Journaled
    /\ journal' = [journal EXCEPT !.enabled = TRUE, !.healthy = FALSE]
    /\ UNCHANGED <<now, up, starts, trust, rx, peers, disk, uses, burnt, lost>>

Tick ==
    /\ now < MaxTime
    /\ now' = now + 1
    /\ UNCHANGED <<up, starts, trust, rx, peers, journal, disk, uses, burnt, lost>>

(***************************************************************************)
(* The receive thread: read the clock, authenticate, then admit under the  *)
(* cache mutex. The heartbeat thread and the clock run in between.         *)
(***************************************************************************)
Fresh(pk, at) == at <= pk.ts + pk.ttl + Skew

Authentic(pk, at) ==
    /\ pk.ttl \in 1 .. MaxTTL
    /\ pk.ts <= at + Skew
    /\ Fresh(pk, at)
    /\ pk.epoch = trust

ReceivePacket(pk) ==
    /\ up
    /\ ~rx.busy
    /\ Authentic(pk, now)
    /\ rx' = [busy |-> TRUE, packet |-> pk, at |-> now]
    /\ UNCHANGED <<now, up, starts, trust, peers, journal, disk, uses, burnt, lost>>

Admissible(pk, at) ==
    /\ journal.healthy
    /\ Fresh(pk, at)
    /\ Acceptable(pk, Remembered(pk.sender))
    /\ ~JournalFull(pk.sender)

Row(pk) == NextRecord(pk, Remembered(pk.sender))

RefusePacket ==
    /\ up
    /\ rx.busy
    /\ ~Admissible(rx.packet, rx.at)
    /\ rx' = Idle
    /\ UNCHANGED <<now, up, starts, trust, peers, journal, disk, uses, burnt, lost>>

(* The rows a write may leave behind when it, its fsync or its fclose goes *)
(* wrong: nothing, part of the row, or all of it.                          *)
FailedWrites(pk) ==
    {disk, Torn(disk), Appended(disk, pk.sender, Row(pk))}

Unconfirmed(pk) ==
    IF disk'.rows = disk.rows THEN burnt ELSE burnt \union {Id(pk)}

PersistFails ==
    /\ up
    /\ rx.busy
    /\ journal.enabled
    /\ Admissible(rx.packet, rx.at)
    /\ disk' \in FailedWrites(rx.packet)
    /\ burnt' = Unconfirmed(rx.packet)
    /\ journal' = [journal EXCEPT !.healthy = FALSE]
    /\ rx' = Idle
    /\ UNCHANGED <<now, up, starts, trust, peers, uses, lost>>

CrashInPersist ==
    /\ up
    /\ rx.busy
    /\ journal.enabled
    /\ Admissible(rx.packet, rx.at)
    /\ disk' \in FailedWrites(rx.packet)
    /\ burnt' = Unconfirmed(rx.packet)
    /\ Down
    /\ UNCHANGED <<now, starts, trust, uses>>

(* The row is on disk before the packet is admitted.                       *)
Persist(pk) ==
    IF journal.enabled
      THEN /\ disk' = Appended(disk, pk.sender, Row(pk))
           /\ journal' = [journal EXCEPT !.records[pk.sender] = Row(pk)]
      ELSE UNCHANGED <<disk, journal>>

(* Every payload of the packet lands in the entry; of these only the flags *)
(* that decide eligibility are kept here.                                  *)
Presented(pk, old, bitmap) ==
    [epoch |-> pk.epoch,
     high |-> pk.seq,
     bitmap |-> bitmap,
     ts |-> pk.ts,
     stale |-> pk.kind = "peer_goodbye",
     isolated |-> pk.kind = "peer_goodbye",
     fault |-> IF pk.kind \in {"heartbeat", "edge_health"} THEN pk.fault ELSE old.fault,
     disconnected |-> IF pk.kind = "edge_health" THEN pk.disconnected
                      ELSE old.disconnected]

(* trim_to_limit_locked: one entry with the oldest packet goes, whichever  *)
(* of them the hash map yields first, the new one included.                *)
Oldest(table) ==
    {s \in Known(table) : \A other \in Known(table) : table[s].ts <= table[other].ts}

Trimmed(table) ==
    IF Cardinality(Known(table)) <= MaxEntries
      THEN {table}
      ELSE {[table EXCEPT ![s] = NoPeer] : s \in Oldest(table)}

CountedUse(pk) == [uses EXCEPT ![Id(pk)] = IF @ = 0 THEN 1 ELSE 2]

(* Only the window of an entry changes when an overtaken packet arrives.   *)
MarkedUnchanged(entry, bitmap) == entry                           \* faulty
MarkedShowing(entry, bitmap) ==                                   \* faulty
    [entry EXCEPT !.bitmap = bitmap, !.high = IF @ > 0 THEN @ - 1 ELSE 0]

Marked(entry, bitmap) == [entry EXCEPT !.bitmap = bitmap]

AdmitLate ==
    /\ up
    /\ rx.busy
    /\ Admissible(rx.packet, rx.at)
    /\ Late(rx.packet, Remembered(rx.packet.sender))
    /\ Persist(rx.packet)
    /\ peers' = IF rx.packet.sender \in Known(peers)
                  THEN [peers EXCEPT ![rx.packet.sender] = Marked(@, Row(rx.packet).bitmap)]
                  ELSE peers
    /\ uses' = CountedUse(rx.packet)
    /\ rx' = Idle
    /\ UNCHANGED <<now, up, starts, trust, burnt, lost>>

AdmitNew ==
    /\ up
    /\ rx.busy
    /\ Admissible(rx.packet, rx.at)
    /\ ~Late(rx.packet, Remembered(rx.packet.sender))
    /\ Persist(rx.packet)
    /\ LET s == rx.packet.sender
           entry == Presented(rx.packet, peers[s], Row(rx.packet).bitmap)
       IN /\ peers' \in Trimmed([peers EXCEPT ![s] = entry])
          /\ lost' = IF journal.enabled THEN lost
                     ELSE lost \union ((Known(peers) \union {s}) \ Known(peers'))
    /\ uses' = CountedUse(rx.packet)
    /\ rx' = Idle
    /\ UNCHANGED <<now, up, starts, trust, burnt>>

(***************************************************************************)
(* The heartbeat thread's expiry pass, and clear().                        *)
(***************************************************************************)
Age(s) == IF now > peers[s].ts THEN now - peers[s].ts ELSE 0

RetentionOfEntries == EntryExpiry                                 \* faulty

Retention == IF EntryExpiry >= Skew + MaxTTL THEN EntryExpiry ELSE Skew + MaxTTL

Expired == {s \in Known(peers) : Age(s) > Retention}

Refreshed(s) ==
    LET stale == Age(s) > StaleTimeout
    IN [peers[s] EXCEPT !.stale = stale, !.isolated = stale \/ peers[s].disconnected]

(* A sender is really forgotten when the receive thread already holds one  *)
(* of its packets, found fresh by an older reading of the clock.           *)
Expire ==
    /\ up
    /\ peers' = [s \in Senders |-> IF s \in Known(peers) \ Expired THEN Refreshed(s)
                                                                   ELSE NoPeer]
    /\ lost' = IF journal.enabled \/ ~rx.busy THEN lost
               ELSE lost \union (Expired \intersect {rx.packet.sender})
    /\ UNCHANGED <<now, up, starts, trust, rx, journal, disk, uses, burnt>>

Clear ==
    /\ up
    /\ peers' = NoPeers
    /\ lost' = IF journal.enabled THEN lost ELSE Senders
    /\ UNCHANGED <<now, up, starts, trust, rx, journal, disk, uses, burnt>>

Next ==
    \/ \E epoch \in Epochs :
          \/ StartInMemory(epoch)
          \/ StartFromJournal(epoch)
          \/ StartNewJournal(epoch)
          \/ StartWithoutJournal(epoch)
    \/ Crash
    \/ ReconfigureLedger
    \/ Tick
    \/ \E pk \in Packets : ReceivePacket(pk)
    \/ RefusePacket
    \/ PersistFails
    \/ CrashInPersist
    \/ AdmitLate
    \/ AdmitNew
    \/ Expire
    \/ Clear

Spec == Init /\ [][Next]_vars

(***************************************************************************)
(* Properties.                                                             *)
(***************************************************************************)
RxType ==
    {Idle} \union [busy : {TRUE}, packet : Packets, at : Nat]

JournalType ==
    [enabled : BOOLEAN, healthy : BOOLEAN, records : [Senders -> Record]]

FileType == [exists : BOOLEAN, torn : BOOLEAN, sound : BOOLEAN, rows : [Senders -> Record]]

(* Every variable keeps its type; in particular the bitmap of a record     *)
(* never holds a distance outside the window (64 bits in the code).        *)
TypeOK ==
    /\ now \in Nat
    /\ up \in BOOLEAN
    /\ starts \in Nat
    /\ trust \in Nat
    /\ rx \in RxType
    /\ peers \in [Senders -> Entry]
    /\ journal \in JournalType
    /\ disk \in FileType
    /\ uses \in [Ids -> 0 .. 2]
    /\ burnt \subseteq Ids
    /\ lost \subseteq Senders

(* With a journal, no packet identity is ever admitted twice: neither      *)
(* reordering, nor expiry or clear() of the cache, nor a failed write, nor *)
(* a crash inside persist() followed by a restart makes observe_packet     *)
(* accept a replay.                                                        *)
AdmittedOnce ==
    Journaled => \A id \in Ids : uses[id] <= 1

(* Without a journal a replay is admitted only if the sender's window was  *)
(* really lost: by a restart, clear(), trim_to_limit_locked, or an expiry  *)
(* pass that runs while a packet of the sender sits between its freshness  *)
(* check and its admission. Expiry by itself never opens the window: the   *)
(* retention of expire() outlives every packet still fresh.                *)
RepeatOnlyAfterLoss ==
    \A id \in Ids : uses[id] > 1 => id.sender \in lost

(* The identities that were admitted, and those whose row reached the disk *)
(* just before a failure.                                                  *)
Seen == {id \in Ids : uses[id] > 0 \/ id \in burnt}

(* Every bit of the window stands for one of these identities.             *)
Grounded(s, record, ids) ==
    \A d \in record.bitmap : \E id \in ids :
        id.sender = s /\ id.epoch = record.epoch /\ id.seq + d = record.high

(* A packet is refused as a duplicate only if that very sequence number    *)
(* was admitted, or its row reached the disk just before a failure.        *)
NoFalseDuplicate ==
    up => \A s \in Senders : Grounded(s, Remembered(s), Seen)

(* The cache entry of a sender, when there is one, and its journal record  *)
(* agree on epoch, highest sequence and window, so that it never matters   *)
(* which of the two observe_packet consults.                               *)
CacheAgreesWithJournal ==
    up /\ Journaled => \A s \in Known(peers) :
        journal.records[s] = [epoch |-> peers[s].epoch, high |-> peers[s].high,
                              bitmap |-> peers[s].bitmap]

(* Whatever persist() wrote, completely or not at all, a restart accepts:  *)
(* load() rejects a file only if its last line was torn, and the history   *)
(* of a file never exceeds max_entries senders.                            *)
JournalReloads ==
    Journaled => /\ disk.sound
                 /\ Cardinality(Known(disk.rows)) <= MaxEntries

(* While a sender stays in the cache, what is presented of it never goes   *)
(* back to an older packet, in whatever order its packets arrive.          *)
NoRollback ==
    \A s \in Known(peers) \intersect Known(peers') :
        \/ peers'[s].epoch > peers[s].epoch
        \/ peers'[s].epoch = peers[s].epoch /\ peers'[s].high >= peers[s].high

PresentationNeverRollsBack == [][NoRollback]_vars

(***************************************************************************)
(* The inductive invariant behind AdmittedOnce. An identity is covered by  *)
(* a record that will refuse it; every admitted identity is covered by the *)
(* row on disk, the part of the state that survives everything.            *)
(***************************************************************************)
Covered(record, id) ==
    \/ id.epoch < record.epoch
    \/ /\ id.epoch = record.epoch
       /\ id.seq <= record.high
       /\ record.high - id.seq < Window => record.high - id.seq \in record.bitmap

UsesCovered ==
    \A id \in Ids : uses[id] > 0 =>
        /\ disk.rows[id.sender] # NoRecord
        /\ Covered(disk.rows[id.sender], id)

DiskSound ==
    /\ disk.sound
    /\ ~disk.exists => disk.rows = NoRecords
    /\ \A s \in Senders : disk.rows[s] # NoRecord => 0 \in disk.rows[s].bitmap
    /\ Cardinality(Known(disk.rows)) <= MaxEntries

MemoryFollowsDisk ==
    /\ up => journal.enabled
    /\ up /\ journal.healthy =>
          disk.exists /\ ~disk.torn /\ journal.records = disk.rows

CacheFollowsJournal ==
    /\ ~up => peers = NoPeers
    /\ \A s \in Senders : peers[s].bitmap = {} => peers[s] = NoPeer
    /\ CacheAgreesWithJournal

JournalInv ==
    /\ DiskSound
    /\ MemoryFollowsDisk
    /\ CacheFollowsJournal
    /\ UsesCovered
    /\ \A id \in Ids : uses[id] <= 1

(***************************************************************************)
(* What holds with and without a journal, and makes NoFalseDuplicate and   *)
(* PresentationNeverRollsBack inductive.                                   *)
(***************************************************************************)
CacheForm ==
    /\ ~up => peers = NoPeers
    /\ \A s \in Senders : peers[s].bitmap = {} \/ 0 \in peers[s].bitmap
    /\ \A s \in Senders : peers[s].bitmap = {} => peers[s] = NoPeer
    /\ ~Journaled => journal = NoJournal

AllGrounded ==
    \A s \in Senders : /\ Grounded(s, peers[s], Seen)
                       /\ Grounded(s, journal.records[s], Seen)
                       /\ Grounded(s, disk.rows[s], Seen)

(***************************************************************************)
(* The inductive invariant behind RepeatOnlyAfterLoss, for a process       *)
(* without a journal.                                                      *)
(***************************************************************************)

(* A sender reads its clock, then takes the next sequence number; it may   *)
(* be overtaken in between. A packet numbered later is not stamped so much *)
(* earlier that the entry it leaves expires while the other is fresh.      *)
NumberedInTime ==
    \A p, q \in Packets :
        p.sender = q.sender /\ p.epoch = q.epoch /\ p.seq <= q.seq /\ p.ttl <= MaxTTL
            => p.ts + p.ttl + Skew <= q.ts + Retention

(* Every entry is of this run's trust epoch and shows its newest packet.   *)
EntriesShowPackets ==
    \A s \in Known(peers) :
        /\ peers[s].epoch = trust
        /\ \E pk \in Packets : /\ pk.sender = s
                                /\ pk.epoch = trust
                                /\ pk.seq = peers[s].high
                                /\ pk.ts = peers[s].ts

RxAuthentic ==
    rx.busy => /\ up
               /\ rx.packet.epoch = trust
               /\ rx.packet.ttl <= MaxTTL

Refused(id) ==
    /\ id.sender \in Known(peers)
    /\ Covered(peers[id.sender], id)

(* No packet with this identity can be received any more.                  *)
TooOld(id) ==
    /\ \A pk \in Packets : Id(pk) = id /\ pk.ttl <= MaxTTL => ~Fresh(pk, now)
    /\ rx.busy => Id(rx.packet) # id

MemoryInv ==
    /\ EntriesShowPackets
    /\ RxAuthentic
    /\ \A id \in Ids : uses[id] > 0 /\ id.sender \notin lost =>
          /\ up
          /\ id.epoch = trust
          /\ Refused(id) \/ TooOld(id)
    /\ RepeatOnlyAfterLoss

(***************************************************************************)
(* With a journal the cache implements the inbox of PeerInbox: what is     *)
(* shown of a sender is its cache entry.                                   *)
(***************************************************************************)
Shown ==
    [s \in Senders |-> IF peers[s].bitmap = {} THEN <<>>
                                               ELSE <<peers[s].epoch, peers[s].high>>]

Inbox == INSTANCE PeerInbox WITH shown <- Shown, Nothing <- <<>>

(* Every step admits a new identity, shows only what is newest, or forgets.*)
ImplementsInbox == Inbox!Spec
=============================================================================
