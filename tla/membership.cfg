CONSTANTS
    c1 = c1
    status = status
    w1 = w1
    Chats = {c1}
    Status = status
    Workers = {w1}
    MaxSessions = 2
    MaxMoves = 1
    MaxOps = 1
    MaxFaults = 0
SPECIFICATION FairSpec
INVARIANTS MembershipTypeOK MarkedIndexed
PROPERTIES Settles PokeHeeded
CHECK_DEADLOCK FALSE
