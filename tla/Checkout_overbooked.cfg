CONSTANTS
    r1 = r1
    r2 = r2
    r3 = r3
    soup = soup
    rice = rice
    k1 = k1
    None = None
    Requests = {r1, r2}
    Items = {soup, rice}
    Keys = {}
    Baskets <- MCSoup
    InitStock <- MCPlenty
    MaxPerSlot = 1
    LastWindow = 0
    MaxUnits = 2
    PoolSize = 4
    Failing = {"readItems"}
    Lapsing = {}
    MayCrash = FALSE
SPECIFICATION Spec
SYMMETRY MCSymmetry
INVARIANTS
    NoDoubleAllocation
