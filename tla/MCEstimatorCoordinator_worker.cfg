SPECIFICATION FairSpec
CONSTANTS
    Capacities <- SmallCapacities
    Policies <- BothPolicies
    EventLimit = 1
    MayThrow = TRUE
    MaxMeasurements = 2
    MaxGenerations = 3
INVARIANTS
    TypeOK
    PublishedIsCurrent
    EveryMeasurementAccounted
    DepthMatchesQueue
    StoppedIsQuiet
PROPERTIES
    ProcessedInOrder
    CoordinatorReturns
    StopReturnsWhileSensed
    QueueDrains
CHECK_DEADLOCK FALSE
