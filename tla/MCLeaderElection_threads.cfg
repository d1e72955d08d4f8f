SPECIFICATION Spec
CONSTANTS
    Scores <- Figs
    Batteries <- Figs
    TieWindow = 2
    Local = 2
    Peers = {1, 3}
    Healths <- StrongAndWeak
    FullBattery = 4
INVARIANTS
    OneElectionAtATime
    WinnerIsBest
PROPERTIES
    ElectionEnds
    LostLeaderAbandoned
