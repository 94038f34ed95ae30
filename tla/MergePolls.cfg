SPECIFICATION Spec
CONSTANTS
    s1 = s1
    s2 = s2
    Serials = {s1, s2}
    Fields = {"summary"}
    BankFields = {"master"}
    Nothing = Nothing
    MaxPolls = 3
INVARIANTS
    TypeOK
    FreshestWins
    CellsAgeIsTheirOwn
    BatchingAgrees
SYMMETRY MCSymmetry
CHECK_DEADLOCK FALSE
