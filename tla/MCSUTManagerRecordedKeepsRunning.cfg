CONSTANTS
    h1 = h1
    h2 = h2
    Handlers = {h1, h2}
    Reaper = reaper
    Closer = closer
    Nobody = nobody
    MaxProcs = 3
    Platforms = {"unix", "windows"}
    Forks = FALSE
    ExitsAlone = FALSE
    BoundToRequest = TRUE
SPECIFICATION Spec
PROPERTY RecordedKeepsRunning
CHECK_DEADLOCK FALSE
