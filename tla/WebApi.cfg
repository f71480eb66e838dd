\* Timeouts, recycled reply queues, dangling sends, reboots.
SPECIFICATION FairSpec
CONSTANTS
    httpd = httpd
    b1 = b1
    b2 = b2
    Nil = Nil
    Callers <- MCCallers
    Blocks <- MCBlocks
    Commands = {"GET", "SET_NETWORK"}
    QueueLen = 2
    MaxCalls = 4
    TaskCreateFails = TRUE
INVARIANTS
    TypeOK
    ReplyQueuesAlive
    OwnReplies
    ExecutesInOrder
    UnqueuedNeverRuns
PROPERTY AcceptedReboots
CHECK_DEADLOCK FALSE
