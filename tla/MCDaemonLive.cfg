SPECIFICATION FairSpec
CONSTANTS
    c1 = c1
    c2 = c2
    Clients = {c1, c2}
    Prompt = {c1}
    Nobody = Nobody
    Closer = Closer
    LeaseTTL = 2
    HeartbeatInterval = 1
    ReaperPeriod = 1
    IdleTTL = 1
    SUTIdleTTL = 1
    SUTEnabled = FALSE
    AllNamed = FALSE
    MaxLag = 0
PROPERTIES
    QuietThenExit
    AbandonedLeaseReclaimed
    AcquireAnswered
CHECK_DEADLOCK FALSE
