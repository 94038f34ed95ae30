SPECIFICATION Spec
CONSTANTS
    b1 = b1
    b2 = b2
    bx = bx
    Batteries = {b1, b2}
    None = None
    Garbled = Garbled
    MaxBatteries = 8
    CellCount = 16
    CellLists <- MCCellLists
    Summaries <- MCSummaries
    AlarmFields <- MCAlarmFields
    RelayBytes <- MCRelayBytes
    Rosters <- MCRosters
    MaxHeard = 4
INVARIANTS
    TypeOK
    FieldAccountedFor
    UnreadPairsOnly
    DisagreementIsSeen
    StatusHasACause
    RelaysReadBack
    RosterIsPrefix
CHECK_DEADLOCK FALSE
