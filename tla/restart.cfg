CONSTANTS
    g = g
    s1 = s1
    w1 = w1
    w2 = w2
    sw = sw
    Chats = {s1}
    Basic = {}
    Ids = {1, 2, 3}
    History <- SuperHistory1
    Cmds = {3}
    Service = {2}
    Erasable = {1, 2, 3}
    Workers = {w1, w2}
    Sweeper = sw
    TTLs = {1}
    PageLimit = 2
    SearchWindow = 3
    DeleteBatch = 2
    MaxDrainPasses = 2
    MaxNow = 1
    MaxOps = 1
    MaxFaults = 0
    MaxSessions = 2
    MaxCrashes = 1
    MaxStops = 0
SYMMETRY WorkerSymmetry
VIEW Uncounted
SPECIFICATION Spec
INVARIANTS Coverage Entitled
PROPERTIES Rightful
CHECK_DEADLOCK FALSE
