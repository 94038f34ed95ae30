SPECIFICATION Spec
CONSTANTS
    s1 = s1
    s2 = s2
    Serials = {s1, s2}
    NoSerial = NoSerial
    Given = NoSerial
    Counts = {2, 3, 4}
    MaxBatteries = 3
    Kinds = {"cells", "temperatures", "topology", "other", "foreign"}
    Burst = 2
INVARIANTS
    TypeOK
    MasterIsCurrent
    NewestIsHeld
PROPERTIES
    DataChangesAreReturned
SYMMETRY MCSymmetry
