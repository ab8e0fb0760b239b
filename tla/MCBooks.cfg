SPECIFICATION MCSpec
CONSTANTS
    Calls = {a, b}
    d1 = d1
    p1 = p1
    Docs = {d1}
    Total <- MCTotal
    Amounts = {1}
    Refs = {r1}
    BankKinds = {"BANK"}
    Days = {0, 1}
    Periods = {p1}
    Covers <- MCCovers
    MaxJournals = 3
    SetUp = {TRUE, FALSE}
    Entries <- MCEntries
    MaxLinks = 1
    MaxBatches = 2
    MaxCuts = 1
    LedgerLines <- MCLines
    MaxRows = 4
    AsOf = 92
    None = None
SYMMETRY MCSymmetry
CHECK_DEADLOCK FALSE
INVARIANTS
    ReceiptsAreSound
    AgeingIsOldestFirst
    CollectedOnce
