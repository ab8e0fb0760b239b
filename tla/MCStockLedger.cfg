SPECIFICATION Spec
CONSTANTS
    c1 = c1
    c2 = c2
    Cells = {c1, c2}
    Seeded = {c1, c2}
    InitialStock = 1
    Txs = {t1, t2, t3}
    Reservations = {r1, r2}
    Adjustments <- MCAdjustments
    Documents <- MCDocuments
    Quantities = {1}
    None = None
SYMMETRY MCSymmetry
CHECK_DEADLOCK FALSE
INVARIANTS
    SeededBalanceIsLedger
    NeverOversold
    ReservationsAndLots
