\* The handlers, the web API and the token array together.
SPECIFICATION GatewaySpec
CONSTANTS
    httpd = httpd
    b1 = b1
    b2 = b2
    Nil = Nil
    Callers <- MCCallers
    Blocks <- MCBlocks
    Commands = {"GET", "AUTH_LOGIN", "AUTH_CHANGE_PASSWORD", "REBOOT"}
    QueueLen = 1
    MaxCalls = 3
    TaskCreateFails = TRUE
INVARIANTS
    GatewayTypeOK
    TableExclusive
    StillAuthorized
PROPERTIES
    AnswersOwnOrLate
    RequestsAnswered
CHECK_DEADLOCK FALSE
