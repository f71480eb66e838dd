\* The restart after an overflow.
SPECIFICATION EapSpec
CONSTANTS
    FlightParts = 2
    InCap = 2
    Epochs = 3
    Ids = 4
    MaxRetries = 1
    MaxLosses = 0
    MaxFaults = 0
    Initiates = TRUE
    MainKeepsUp = FALSE
    Nil = Nil
PROPERTIES
    OverflowRestarts
