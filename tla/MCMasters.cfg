SPECIFICATION MCSpec
CONSTANTS
    Names = {"rice", "dal"}
    SkuOf <- MCSkuOf
    Units = {"KG"}
    Barcodes = {"b1"}
    Sheets <- MCSheets
    Managers = {m1, m2}
    Second = m2
    Empty = Empty
    MaxProducts = 2
    MaxLists = 2
    MaxStops = 1
    MaxTouches = 1
    Callers = {c1, c2}
    NewParties <- MCNewParties
    PartyFiles <- MCPartyFiles
    BalanceFiles <- MCBalanceFiles
    InvoiceFiles <- MCInvoiceFiles
    NoPhone = NoPhone
    MaxParties = 3
    MaxImports = 2
    MaxBreaks = 1
    Drafts <- MCDrafts
    LeadFiles <- MCLeadFiles
    Stages <- MCStages
    FirstStage = "New"
    Sellers = {"u1"}
    Agents = {a1, a2}
    NoParty = NoParty
    NoEmail = NoEmail
    NoSeller = NoSeller
    MaxLeads = 3
    MaxActivities = 1
    MaxRuns = 2
    MaxHitches = 1
    Papers = {d1}
    Prints = {p1, p2}
    FirstPrint = p1
    Visitors = {v1, v2}
    Staff = {s1, s2}
    Labels = {l1}
    NoLabel = NoLabel
    NoPaper = NoPaper
    MaxSignatures = 1
    MaxRevisions = 2
    Keep = 2
    LastSecond = 3
    MaxChanges = 1
    MaxTroubles = 1
    Handwork <- MCHandwork
    Begun <- MCBegun
SYMMETRY MCSymmetry
CHECK_DEADLOCK FALSE
INVARIANTS
    CatalogueIsSound
    BroughtOver
    LeadsAreSound
    MarksHold
    BackupsAreKept
