CONSTANTS
    g = g
    s1 = s1
    w1 = w1
    w2 = w2
    sw = sw
    Chats = {s1}
    Basic = {}
    Ids = {1, 2}
    History <- SuperHistory1
    Cmds = {}
    Service = {}
    Erasable = {1, 2}
    Workers = {w1, w2}
    Sweeper = sw
    TTLs = {1}
    PageLimit = 1
    SearchWindow = 2
    DeleteBatch = 1
    MaxDrainPasses = 2
    MaxNow = 1
    MaxOps = 2
    MaxFaults = 0
    MaxSessions = 1
    MaxCrashes = 0
    MaxStops = 0
SYMMETRY WorkerSymmetry
SPECIFICATION Spec
PROPERTIES DrainStops
CHECK_DEADLOCK FALSE
