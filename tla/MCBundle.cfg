CONSTANTS
    N = 4
    Workers = 2
    WithInit = {1, 3}
    Named = {1, 2}
    MaxStarts = 3
    StartMayLeak = TRUE
    TerminateMayFail = TRUE
SPECIFICATION FairSpec
INVARIANTS
    TypeOK
    NothingForgotten
    InitSeesAll
    StartedMeansAll
    ContainersListsRunning
PROPERTIES
    ReverseOrder
    CallReturns
    EnvironmentSpec
CHECK_DEADLOCK FALSE
