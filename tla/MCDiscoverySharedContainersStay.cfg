CONSTANTS
    c1 = c1
    c2 = c2
    c3 = c3
    Clients = {c1, c2, c3}
    Earlier = Earlier
    Nobody = Nobody
    MaxDaemons = 3
    Mortal = {}
    MayDie = FALSE
    SlowBoot = FALSE
    Ports = {"random"}
SPECIFICATION Spec
PROPERTY SharedContainersStay
SYMMETRY Symmetry
CHECK_DEADLOCK FALSE
