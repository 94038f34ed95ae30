SPECIFICATION FairCommand
CONSTANTS
    s1 = s1
    s2 = s2
    Cli = Cli
    NoBattery = NoBattery
    Unknown = Unknown
    Silent = Silent
    Readers = {Cli}
    Serials = {s1, s2}
    Expect = 2
    MaxFaults = 2
    Strengths <- MCStrengths
    Attempts = 2
INVARIANTS
    CommandTypeOK
    LinkGivenBack
    EarlyIsComplete
    GivenUpUnheard
    RightBattery
    StatusTells
PROPERTIES
    StrongestOfAll
    ProgramEnds
