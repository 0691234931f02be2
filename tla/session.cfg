CONSTANTS
    h1 = h1
    h2 = h2
    main = main
    Main = main
    Handlers = {h1, h2}
    MaxStacks = 3
    Channels = {1, 2, 3, 4, 5}
    MaxTaps = 1
    RestartLimit = 1
    StopsOverlap = FALSE
SPECIFICATION FairSpec
INVARIANTS SessionTypeOK OneClient Answerable
PROPERTIES StopHalts StartEnds StopEnds
CHECK_DEADLOCK FALSE
