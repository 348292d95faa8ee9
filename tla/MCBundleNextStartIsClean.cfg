CONSTANTS
    N = 3
    Workers = 2
    WithInit = {1, 3}
    Named = {1, 2}
    MaxStarts = 2
    StartMayLeak = FALSE
    TerminateMayFail = FALSE
SPECIFICATION Spec
PROPERTY NextStartIsClean
CHECK_DEADLOCK FALSE
