SPECIFICATION Spec
CONSTANTS
    Local <- MCLocal
    Peers <- MCPeers
    Profiles <- MCProfiles
    DefaultQuorum = 2
    Descriptors = {"a", "b"}
    MaxKeyframes = 2
    MaxRows = 3
    MaxRowsSent = 2
    MinFeatures = 1
INVARIANTS
    LedgerIsComplete
    VerifiedIffGenuine
    SupportersSupport
    MapIsConsistent
PROPERTY SilentPeersLoseTheirVote
CHECK_DEADLOCK FALSE
