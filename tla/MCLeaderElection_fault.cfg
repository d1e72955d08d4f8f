SPECIFICATION Spec
CONSTANTS
    Scores <- Figs
    Batteries <- Figs
    TieWindow = 2
    Local = 2
    Peers = {3}
    Healths <- SoundWeakAndFaulty
    FullBattery = 4
INVARIANTS
    FaultyNeverElected
