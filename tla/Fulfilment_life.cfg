CONSTANTS
    o1 = o1
    w1 = w1
    p1 = p1
    p2 = p2
    c1 = c1
    c2 = c2
    None = None
    Orders = {o1}
    Workers = {w1}
    MaxAttempts = 2
    MaxStalls = 0
    Failing = {"confirm"}
    Losing = {"charge", "confirm"}
    LocksLapse = FALSE
    MayCrash = FALSE
    Calls = {c1, c2}
    Partners = {p1, p2}
    Ops = {"claim", "assign", "report", "locate"}
    Reports = {"DELIVERED"}
    MayFail = TRUE
    Decisions = {"PENDING", "CONFIRMED", "PREPARING", "OUT_FOR_DELIVERY", "DELIVERED", "CANCELLED"}
SPECIFICATION Spec
SYMMETRY MCSymmetry
INVARIANTS
    LeavesAccepted
    OneCourier
    NoPartnerlessTrip
PROPERTIES
    ImplementsLife
    DeliveredStays
