SPECIFICATION Spec
CONSTANTS
    v1 = v1
    v2 = v2
    r1 = r1
    p1 = p1
    p2 = p2
    g1 = g1
    g2 = g2
    i1 = i1
    i2 = i2
    n1 = n1
    x1 = x1
    x2 = x2
    s1 = s1
    s2 = s2
    VendorIds = {v1, v2}
    RfqIds = {r1}
    QuoteIds = {1, 2}
    PoIds = {p1, p2}
    GrnIds = {g1, g2}
    InvIds = {i1, i2}
    Numbers = {n1}
    PayRefs = {x1, x2}
    Amounts = {1, 2}
    Threshold = 2
    Tolerance = 2
    Sessions = {s1, s2}
    None = None
    Worlds <- MCWorlds
SYMMETRY Symmetry
INVARIANTS
    TypeOK
    OpenPosCountsOrders
    OneOrderPerAward
    ClearedWasApproved
    PostedWasReleased
    ClearedIsMatched
    SettlementLands
PROPERTIES
    PaidByPayment
    OrdersRespectSuspension
