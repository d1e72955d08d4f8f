SPECIFICATION Spec
CONSTANTS
    Senders <- JournalSenders
    Packets <- JournalPackets
    Epochs = {1, 2}
    Window = 2
    MaxEntries = 1
    StaleTimeout = 1
    EntryExpiry = 1
    Skew = 1
    MaxTTL = 1
    Journaled = TRUE
    MaxTime = 3
    MaxStarts = 3
INVARIANTS
    TypeOK
    AdmittedOnce
    NoFalseDuplicate
    CacheAgreesWithJournal
    JournalReloads
PROPERTIES
    ImplementsInbox
CHECK_DEADLOCK FALSE
