CONSTANTS
    h1 = h1
    h2 = h2
    main = main
    Main = main
    Handlers = {h1, h2}
    MaxStacks = 2
    Channels = {1, 2, 3, 4, 5}
    MaxTaps = 1
    RestartLimit = 1
    StopsOverlap = FALSE
SPECIFICATION FairSpec
PROPERTIES LoginEnds
CHECK_DEADLOCK FALSE
