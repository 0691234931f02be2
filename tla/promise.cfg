CONSTANTS
    g = g
    s1 = s1
    w1 = w1
    w2 = w2
    sw = sw
    Chats = {s1}
    Basic = {}
    Ids = {1, 2}
    History <- SuperHistory1
    Cmds = {2}
    Service = {}
    Erasable = {1, 2}
    Workers = {w1}
    Sweeper = sw
    TTLs = {1}
    PageLimit = 1
    SearchWindow = 2
    DeleteBatch = 1
    MaxDrainPasses = 2
    MaxNow = 1
    MaxOps = 1
    MaxFaults = 1
    MaxSessions = 1
    MaxCrashes = 0
    MaxStops = 0
SPECIFICATION FairSpec
INVARIANTS ConfirmedGone
PROPERTIES Retains InstantDeletes KeepsPromise RetriesDelete
CHECK_DEADLOCK FALSE
