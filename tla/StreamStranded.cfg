SPECIFICATION FairSpec
CONSTANTS
    k1 = k1
    k2 = k2
    t1 = t1
    t2 = t2
    c1 = c1
    c2 = c2
    c3 = c3
    Callers = {k1}
    Tasks = {t1}
    Clients = {c1, c2}
    NoTask = NoTask
    NoClient = NoClient
    HasSerial = TRUE
    CancelSwallowed = TRUE
    OwnReports = {TRUE}
    Slots = 1
    Faults = {"drop", "subscribe"}
    MaxFaults = 2
    MaxCalls = 1
    MaxReconnects = 1
    BackoffInitial = 1
    BackoffMax = 3
PROPERTIES
    MaintainsItself
CHECK_DEADLOCK FALSE
