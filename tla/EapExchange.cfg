\* Lost frames, a link failure, an authenticator that also initiates.
SPECIFICATION EapSpec
CONSTANTS
    FlightParts = 2
    InCap = 2
    Epochs = 3
    Ids = 4
    MaxRetries = 1
    MaxLosses = 1
    MaxFaults = 1
    Initiates = TRUE
    MainKeepsUp = FALSE
    Nil = Nil
INVARIANTS
    EapTypeOK
    InputIsCurrent
    ExchangeInv
PROPERTIES
    SuccessAfterHandshake
