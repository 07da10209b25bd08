SPECIFICATION Spec
CONSTANTS
    Nil = Nil
    NaN = NaN
    NegZero = NegZero
    Lower <- MCLower
    Floats <- MCFloats
    Percent = 100
    Cases <- MCCases
    Binary <- MCBinary
    MaxWorkers = 2
INVARIANTS
    Parsed
    Answers
    RequestBlamed
    WorldBlamed
