\* The table against the abstract sessions.
SPECIFICATION TokenSpec
CONSTANTS
    t1 = t1
    t2 = t2
    t3 = t3
    t4 = t4
    t5 = t5
    NoToken = NoToken
    Tokens <- MCTokens
    MaxTokens = 3
    SessionLife = 1
    RememberLife = 3
    MaxTime = 4
SYMMETRY Symmetry
INVARIANT TokenTypeOK
PROPERTIES
    OnlySlotZeroDisplaced
    ImplementsSessions
