SPECIFICATION MCSpec
CONSTANTS
    Papers = {p1, p2}
    Warehouses = {w1, w2}
    Second = w2
    Buyers = {b1, b2}
    Types = {"PURCHASE_INVOICE", "PURCHASE_RETURN", "GOODS_RECEIPT"}
    Amounts = {1, 2}
    UnitCosts = {1, 3}
    MaxPaperLines = 1
    MaxSold = 1
    Nobody = Nobody
    Carriers = {c1, c2}
    MaxBills = 2
    MaxEdits = 2
    Details = {"vehicle", "distance", "ship_to"}
    AtHand = {"vehicle", "ship_to"}
SYMMETRY MCSymmetry
CHECK_DEADLOCK FALSE
INVARIANTS
    LedgersFollowPurchases
    BillsAreComplete
PROPERTIES
    RaiseOnlyRaises
    CapturedForGood
