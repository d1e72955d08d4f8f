SPECIFICATION Spec
CONSTANTS
    AuthWindow = 1
    TrustWindow = 1
    MaxSamples = 2
    TickMs = 500
    Interval = 2
    Backoff <- MCBackoff
    Profiles <- MCProfiles
    Readings <- MCReadings
    MaxPeerEvents = 2
    Rejections <- MCRejections
    Answers <- MCAnswers
INVARIANTS
    EveryStopIsObeyed
