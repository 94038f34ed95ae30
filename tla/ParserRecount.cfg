SPECIFICATION Spec
CONSTANTS
    Start = 94
    End = 126
    Flag = 1
    Literal = 2
    MaxPayload = 1
    Slack = 2
    Alphabet <- MCAlphabet
    Messages <- MCEscaped
    Noise <- MCNoise
    Chunks = {1, 4}
    MaxSent = 2
    MaxFaults = 1
INVARIANTS
    CandidateCountedOnce
CHECK_DEADLOCK FALSE
