SPECIFICATION MCSpec
CONSTANTS
    Schedules = {s1}
    RecurringWorkers = {w1, w2}
    Rhythms <- MCRhythms
    FirstDates <- MCFirstDates
    EndDates <- MCEndDates
    Calendar <- MCCalendar
    MaxCatchUp = 3
    MaxCuts = 1
    MaxToggles = 1
    Never = Never
    Visitors = {v1, v2}
    Clerks = {c1, c2}
    Products = {p1, p2}
    Emails = {e1}
    Prices = {1, 2}
    MaxCart = 2
    MaxEdits = 1
    MaxFailures = 1
    Assets = {a1}
    Plans = {m1}
    Keepers = {k1, k2}
    Rests = {1}
    LastDay = 3
    MaxIncidents = 3
    MaxChanges = 2
    Manual = Manual
    Bills = {b1, b2}
    Loops = {l1}
    After = {0}
    Every = {2}
    Limits = {1, 2}
    LinkDays = 1
    LastDate = 3
    MaxLosses = 1
    MaxSettings = 1
CHECK_DEADLOCK FALSE
INVARIANTS
    InvoicedAsScheduled
    OrdersInvoicedOnce
    ServicedOnce
    RemindedRightly
PROPERTIES
    EventuallyDone
