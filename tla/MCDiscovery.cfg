CONSTANTS
    c1 = c1
    c2 = c2
    c3 = c3
    Clients = {c1, c2}
    Earlier = Earlier
    Nobody = Nobody
    MaxDaemons = 3
    Mortal = {c1}
    MayDie = TRUE
    SlowBoot = FALSE
    Ports = {"random", "fixed"}
SPECIFICATION FairSpec
INVARIANTS
    TypeOK
    OneOwner
    OneDaemon
    BootsOneByOne
PROPERTIES
    OwnerSparesHealthy
    SharedUnlessRaced
    AllSettle
CHECK_DEADLOCK FALSE
