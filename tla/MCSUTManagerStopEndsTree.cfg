CONSTANTS
    h1 = h1
    h2 = h2
    Handlers = {h1, h2}
    Reaper = reaper
    Closer = closer
    Nobody = nobody
    MaxProcs = 3
    Platforms = {"unix"}
    Forks = TRUE
    ExitsAlone = FALSE
    BoundToRequest = FALSE
SPECIFICATION Spec
INVARIANT StopEndsTree
CHECK_DEADLOCK FALSE
