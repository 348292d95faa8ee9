CONSTANTS
    h1 = h1
    h2 = h2
    Handlers = {h1, h2}
    Reaper = reaper
    Closer = closer
    Nobody = nobody
    MaxProcs = 3
    Platforms = {"unix", "windows"}
    Forks = TRUE
    ExitsAlone = TRUE
    BoundToRequest = FALSE
SPECIFICATION Spec
SYMMETRY Symmetry
INVARIANTS
    TypeOK
    NoneForgotten
    OneBesidesStopped
    StopEndsVictim
    JobEndsTree
    StopLeavesOnly
PROPERTIES
    ProbeAnsweredBy
    RecordedEndsJustly
    SUTServiceSpec
CHECK_DEADLOCK FALSE
