\* Credentials under file faults and restarts.
SPECIFICATION AuthSpec
CONSTANTS
    t1 = t1
    t2 = t2
    pw1 = pw1
    pw2 = pw2
    default = default
    admin = admin
    other = other
    NoToken = NoToken
    Tokens <- MCTokens
    MaxTokens = 1
    SessionLife = 1
    RememberLife = 2
    MaxTime = 2
    Passwords <- MCPasswords
    DefaultPassword <- default
    Admin <- admin
    Usernames <- MCUsernames
    FileFaults = TRUE
SYMMETRY Symmetry
INVARIANTS
    AuthTypeOK
    AnswerTellsStored
PROPERTIES
    SessionNeedsCredentials
    PasswordNeedsKnowledge
