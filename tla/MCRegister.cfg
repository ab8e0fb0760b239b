SPECIFICATION MCSpec
CONSTANTS
    Invoices = {i1, i2}
    NoInvoice = NoInvoice
    Clerks = {c1, c2}
    LastClerk = c2
    Senders = {poller, desk}
    Poller = poller
    BatchSize = 1
    MaxRecords = 3
    MaxSubmitted = 2
    MaxTime = 1
    MaxFaults = 1
CHECK_DEADLOCK FALSE
INVARIANTS
    RegisterIsSound
PROPERTIES
    EventuallySent
