SPECIFICATION PlicSpec
CONSTANTS
    NrSource = 2
    NrContext = 2
    WordBits = 32
    MaxPriority = 2
    Priorities = {0, 1, 2}
    Thresholds = {0, 1}
INVARIANT FoundIsInterrupt
