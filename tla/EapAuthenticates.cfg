\* An undisturbed exchange ends authenticated.
SPECIFICATION EapFairSpec
CONSTANTS
    FlightParts = 4
    InCap = 4
    Epochs = 3
    Ids = 4
    MaxRetries = 1
    MaxLosses = 0
    MaxFaults = 0
    Initiates = FALSE
    MainKeepsUp = TRUE
    Nil = Nil
INVARIANTS
    OnTrack
PROPERTIES
    Authenticates
    NeverRejected
