SPECIFICATION Spec
CONSTANTS
    k1 = k1
    k2 = k2
    t1 = t1
    t2 = t2
    c1 = c1
    c2 = c2
    c3 = c3
    Callers = {k1}
    Tasks = {t1, t2}
    Clients = {c1, c2, c3}
    NoTask = NoTask
    NoClient = NoClient
    HasSerial = TRUE
    CancelSwallowed = TRUE
    OwnReports = {TRUE, FALSE}
    Slots = 2
    Faults = {"connect", "subscribe", "write", "disconnect", "drop", "consumer"}
    MaxFaults = 2
    MaxCalls = 3
    MaxReconnects = 1
    BackoffInitial = 1
    BackoffMax = 3
INVARIANTS
    TypeOK
    OneRunLoop
    NoLostUpdate
    NoUpdateOnceStopped
SYMMETRY MCSymmetry
CHECK_DEADLOCK FALSE
