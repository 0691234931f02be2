CONSTANTS
    g = g
    s1 = s1
    w1 = w1
    w2 = w2
    sw = sw
    Chats = {s1}
    Basic = {}
    Ids = {1, 2}
    History <- SuperHistory2
    Cmds = {}
    Service = {}
    Erasable = {}
    Workers = {w1, w2}
    Sweeper = sw
    TTLs = {1}
    PageLimit = 1
    SearchWindow = 1
    DeleteBatch = 2
    MaxDrainPasses = 2
    MaxNow = 1
    MaxOps = 2
    MaxFaults = 0
    MaxSessions = 2
    MaxCrashes = 0
    MaxStops = 1
SYMMETRY WorkerSymmetry
VIEW Uncounted
SPECIFICATION Spec
INVARIANTS TypeOK
PROPERTIES Retains
CHECK_DEADLOCK FALSE
