SPECIFICATION MCSpec
CONSTANTS
    Docs = {d1, d2}
    LineIds = {l1, l2}
    Branches = {b1}
    Txs = {t1, t2}
    Types = {"DELIVERY_CHALLAN", "TAX_INVOICE", "SALES_RETURN"}
    Quantities = {1, 2}
    None = None
SYMMETRY MCSymmetry
CHECK_DEADLOCK FALSE
INVARIANTS
    StockFollowsDocument
    LedgerFollowsDocument
    NumbersGapFree
    EInvoiceQueuedIffIssued
PROPERTIES
    IssuedIsImmutable
