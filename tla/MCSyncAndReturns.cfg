CONSTANTS
    d1 = d1
    d2 = d2
    w1 = w1
    w2 = w2
    w3 = w3
    r1 = r1
    r2 = r2
    r3 = r3
    Devices = {d1, d2}
    Server = Server
    Rows = {r1, r2, r3}
    Dated = {r1, r2}
    Parent <- MCParent
    Rivals <- MCRivals
    Runners = {w1, w2, w3}
    InstallOf <- MCInstall
    Page = 1
    MaxClock = 2
    MaxLinks = 2
    MaxLost = 1
    NoRow = NoRow
    Territories = {"35"}
    KnownStates = {"27", "29", "35"}
    Docs = {d, e}
    Companies <- MCCompanies
    Sheets <- MCSheets
    RateRows <- MCRateRows
    RateOffers <- MCRateOffers
    MaxDay = 2
    MaxReads = 2
    LargeInvoice = 20
    d = d
    e = e
SYMMETRY MCSymmetry
SPECIFICATION MCSpec
CHECK_DEADLOCK FALSE
INVARIANTS
    InstallsAgree
    ReportsAgree
    PackageIsSound
PROPERTIES
    RoundAdvances
