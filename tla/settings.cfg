CONSTANTS
    a = a
    b = b
    p = p
    h1 = h1
    h2 = h2
    none = none
    Chats = {a, b}
    Minutes = {1}
    Patterns = {p}
    Handlers = {h1, h2}
    None = none
    MaxTaps = 6
    MaxFaults = 1
    MaxCrashes = 1
SYMMETRY HandlerSymmetry
SPECIFICATION Spec
INVARIANTS SettingsTypeOK CacheFollowsDisk
PROPERTIES Implements
CHECK_DEADLOCK FALSE
