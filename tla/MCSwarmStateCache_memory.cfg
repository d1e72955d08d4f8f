SPECIFICATION Spec
CONSTANTS
    Senders <- MemorySenders
    Packets <- MemoryPackets
    Epochs = {1}
    Window = 2
    MaxEntries = 1
    StaleTimeout = 1
    EntryExpiry = 1
    Skew = 1
    MaxTTL = 1
    Journaled = FALSE
    MaxTime = 4
    MaxStarts = 1
INVARIANTS
    RepeatOnlyAfterLoss
PROPERTIES
    PresentationNeverRollsBack
CHECK_DEADLOCK FALSE
