CONSTANTS
    a = a
    b = b
    p = p
    h1 = h1
    h2 = h2
    none = none
    Chats = {a, b}
    Minutes = {1}
    Patterns = {p}
    Handlers = {h1, h2}
    None = none
    MaxTaps = 5
    MaxFaults = 0
    MaxCrashes = 0
SYMMETRY HandlerSymmetry
SPECIFICATION Spec
INVARIANTS OptedIn
CHECK_DEADLOCK FALSE
