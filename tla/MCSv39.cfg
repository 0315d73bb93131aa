SPECIFICATION TlbSpec
CONSTANTS
    Index = {0, 1}
    Va <- MCVa
    Asid = {1, 2}
    Root <- MCRoot
    Tables = {"r1", "r2", "m", "z"}
    Data = {0}
    Memories <- MCMemories
    Writes <- MCWrites
    NrTlbEntry = 2
INVARIANT TlbInv
INVARIANT OneMatch
INVARIANT HitsAreCurrent
