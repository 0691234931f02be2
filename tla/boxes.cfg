CONSTANTS
    g = g
    s1 = s1
    w1 = w1
    w2 = w2
    sw = sw
    Chats = {g, s1}
    Basic = {g}
    Ids = {1}
    History <- SuperHistory1
    Cmds = {}
    Service = {}
    Erasable = {1}
    Workers = {w1, w2}
    Sweeper = sw
    TTLs = {1}
    PageLimit = 1
    SearchWindow = 2
    DeleteBatch = 1
    MaxDrainPasses = 2
    MaxNow = 1
    MaxOps = 2
    MaxFaults = 0
    MaxSessions = 1
    MaxCrashes = 0
    MaxStops = 0
SYMMETRY WorkerSymmetry
VIEW Uncounted
SPECIFICATION Spec
INVARIANTS Coverage
PROPERTIES Rightful NoSilentDrop
CHECK_DEADLOCK FALSE
