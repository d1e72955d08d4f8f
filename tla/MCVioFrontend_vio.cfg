SPECIFICATION Spec
CONSTANTS
    MaxImuDt = 2
    WeakAge = 1
    DegradedAge = 2
    LostAge = 3
    Window = 3
    EnterCount = 2
    ExitCount = 2
    MinRest = 1
    ZuptPeriod = 1
    MinObservations = 2
    MinTrackLength = 2
    Points = {p}
    MaxTracks = 1
    Configurations <- AllConfigurations
    Placeholders = TRUE
    MaxTime = 5
    MaxFrames = 5
    MaxResets = 1
INVARIANTS
    WindowAgrees
    NoStaleReference
    MarkedIffFused
    BoundedWindow
    EveryZuptBilled
PROPERTIES
    NoZuptInMotion
    PointsArePermanent
CHECK_DEADLOCK FALSE
