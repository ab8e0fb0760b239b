CONSTANTS
    Territories = {"35"}
    KnownStates = {"27", "29", "35"}
    Docs = {d, e}
    Companies <- MCCompanies
    Sheets <- MCSheets
    RateRows <- MCRateRows
    RateOffers <- MCRateOffers
    MaxDay = 2
    MaxReads = 2
    LargeInvoice = 20
    d = d
    e = e
SYMMETRY MCSymmetry
SPECIFICATION TaxationSpec







CHECK_DEADLOCK FALSE
INVARIANT TrialBalanceAsOf
