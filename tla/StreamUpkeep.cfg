SPECIFICATION FairSpec
CONSTANTS
    k1 = k1
    k2 = k2
    t1 = t1
    t2 = t2
    c1 = c1
    c2 = c2
    c3 = c3
    Callers = {k1}
    Tasks = {t1, t2}
    Clients = {c1, c2}
    NoTask = NoTask
    NoClient = NoClient
    HasSerial = TRUE
    CancelSwallowed = TRUE
    OwnReports = {TRUE, FALSE}
    Slots = 1
    Faults = {"connect", "drop"}
    MaxFaults = 3
    MaxCalls = 4
    MaxReconnects = 1
    BackoffInitial = 1
    BackoffMax = 3
INVARIANTS
    StoppedIsFree
    OwnFramesOnly
    OnlyTheDroppedGivenUp
PROPERTIES
    ToldNothingOnceStopped
    BreakerSpec
    UpdateDelivered
    MaintainsItself
CHECK_DEADLOCK FALSE
