SPECIFICATION Spec
CONSTANTS
    Capacities <- SmallCapacities
    Policies <- DropOldestOnly
    EventLimit = 1
    MayThrow = FALSE
    MaxMeasurements = 2
    MaxGenerations = 3
INVARIANTS
    ShadowUncontaminated
CHECK_DEADLOCK FALSE
