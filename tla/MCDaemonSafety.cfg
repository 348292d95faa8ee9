SPECIFICATION Spec
CONSTANTS
    c1 = c1
    c2 = c2
    Clients = {c1, c2}
    Prompt = {c1}
    Nobody = Nobody
    Closer = Closer
    LeaseTTL = 2
    HeartbeatInterval = 1
    ReaperPeriod = 2
    IdleTTL = 2
    SUTIdleTTL = 1
    SUTEnabled = TRUE
    AllNamed = FALSE
    MaxLag = 1
INVARIANTS
    TypeOK
    EnvironmentStays
    PromptLeaseKept
    ReaperSparesSettled
    StartStopExclusive
    NobodyStuck
PROPERTIES
    ServiceSpec
    SUTServiceSpec
CHECK_DEADLOCK FALSE
