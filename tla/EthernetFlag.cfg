\* The link flag after a lost address.
SPECIFICATION EapSpec
CONSTANTS
    FlightParts = 2
    InCap = 2
    Epochs = 3
    Ids = 4
    MaxRetries = 1
    MaxLosses = 0
    MaxFaults = 1
    Initiates = FALSE
    MainKeepsUp = TRUE
    Nil = Nil
INVARIANTS
    LinkFlagIsPhysical
