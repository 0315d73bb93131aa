SPECIFICATION DifftestSpec
CONSTANTS
    RvTest = TRUE
    InitGprs = TRUE
    A0 = 1
    A7 = 2
    ExitCall = 5
    TrapPc = 0
    MaxCycle = 14
    SimTime = 200
    ResetTicks = 2
    CommitTimeout = 14
    Delay = 12
    Options <- OnlySimple
    Programs <- InitGprPrograms
    Reg <- MCReg
    Word <- MCWord
    Inst <- MCInst
    Line <- MCLine
    Images <- MCImages
    PcInit <- MCPcInit
    NextPc <- MCNextPc
    PrevPc <- MCPrevPc
    AluMdu <- MCAluMdu
    Holds <- MCHolds
    Target <- MCTarget
    LineOf <- MCLineOf
    Merge <- MCMerge
    Extract <- MCExtract
    Aligned <- MCAligned
    Mapped <- MCMapped
    Faults <- MCFaults
    EndsTest <- MCEndsTest
    CodeLine <- MCCodeLine
INVARIANT NoFalseAlarm
