SPECIFICATION MCSpec
CONSTANTS
    Docs = {d1}
    LineIds = {l1}
    Branches = {b1}
    Txs = {t1, t2}
    Types = {"TAX_INVOICE"}
    Quantities = {1}
    None = None
SYMMETRY MCSymmetry
CHECK_DEADLOCK FALSE
INVARIANT BookedOnce
