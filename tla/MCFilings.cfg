SPECIFICATION MCSpec
CONSTANTS
    Docs = {d1}
    NoDoc = NoDoc
    IrnWorkers = {w1}
    Users = {u1}
    MaxTrouble = 1
    MaxCut = 1
    Endpoints = {e1}
    NoDelivery = NoDelivery
    MaxAttempts = 2
    MaxDown = 3
CHECK_DEADLOCK FALSE
INVARIANTS
    ToldAsItIs
PROPERTIES
    IrnIsKept
    EventuallyTold
