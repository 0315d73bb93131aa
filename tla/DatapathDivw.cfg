CONSTANTS
    B = 2
    L = 4
SPECIFICATION Spec
INVARIANT
    DivwOverflows
