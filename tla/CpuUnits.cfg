CONSTANTS
    B = 2
    L = 4
    Funct7 <- MCFunct7
    Triples <- MCTriples
SPECIFICATION UnitsSpec
INVARIANT
    AluAgrees
    MduAgrees
    JumpsAgree
    AccessesAgree
    DecodersAgree
    OnlyReferenceDecodes
