CONSTANTS
    o1 = o1
    o2 = o2
    c1 = c1
    c2 = c2
    None = None
    Orders = {o1, o2}
    Active = {o1}
    Calls = {c1}
    MaxNotices = 1
    MaxWire = 1
    MayDrop = TRUE
    Decisions = {"PENDING", "CONFIRMED", "PREPARING", "OUT_FOR_DELIVERY", "DELIVERED", "CANCELLED"}
SPECIFICATION FairSpec
INVARIANTS
    TypeOK
    TickedIsEarned
PROPERTIES
    ShownConverges
