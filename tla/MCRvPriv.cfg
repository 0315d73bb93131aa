SPECIFICATION Spec
CONSTANTS
    StartPc = 4
    Interrupts = {1, 7}
    OnlyModeM = FALSE
    Pc <- MCPc
    NextPc <- MCNextPc
    Aligned <- MCAligned
    Mapped <- MCMapped
    Vector <- MCVector
    Tvecs <- MCTvecs
    ZeroTvec <- MCZeroTvec
    Lines <- MCLines
    Exceptions <- MCExceptions
    Causes <- MCCauses
INVARIANT PrivTypeOK
INVARIANT InterruptBeforeInstruction
INVARIANT MprvOnlyInMachine
INVARIANT TrapOncePerCall
PROPERTY UserOnlyTraps
PROPERTY EntryOnlyAtVector
PROPERTY ImplementsTrapStack
