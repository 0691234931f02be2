CONSTANTS
    c1 = c1
    status = status
    w1 = w1
    Chats = {c1}
    Status = status
    Workers = {w1}
    MaxSessions = 1
    MaxMoves = 2
    MaxOps = 1
    MaxFaults = 0
SPECIFICATION FairSpec
PROPERTIES RejoinDrained
CHECK_DEADLOCK FALSE
