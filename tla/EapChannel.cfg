\* The state AUTHENTICATED after one lost frame.
SPECIFICATION EapSpec
CONSTANTS
    FlightParts = 2
    InCap = 2
    Epochs = 3
    Ids = 4
    MaxRetries = 1
    MaxLosses = 1
    MaxFaults = 0
    Initiates = FALSE
    MainKeepsUp = TRUE
    Nil = Nil
INVARIANTS
    ChannelReady
