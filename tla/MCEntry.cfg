CONSTANTS
    t1 = t1
    t2 = t2
    Tests = {t1, t2}
    Settings <- MCSettings
    Characters = {"temp", "default", "root", "old", "addr", "p", "q", "s", "x", "y", "/", "_"}
    Directories = {"dir1", "dir2"}
    Environments <- MCEnvironments
SPECIFICATION Spec
INVARIANTS
    TypeOK
    SpawnedServes
    ProjectShares
    ProjectsApart
    TokenAccepted
CHECK_DEADLOCK FALSE
