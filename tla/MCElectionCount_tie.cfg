SPECIFICATION Spec
CONSTANTS
    Drones = {1, 2, 3}
    Scores <- NearScores
    Batteries <- NearBatteries
    TieWindow = 2
INVARIANTS
    SameFiguresSameLeader
CHECK_DEADLOCK FALSE
