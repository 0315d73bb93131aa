SPECIFICATION DifftestSpec
CONSTANTS
    RvTest = TRUE
    InitGprs = FALSE
    A0 = 1
    A7 = 2
    ExitCall = 5
    TrapPc = 0
    MaxCycle = 16
    SimTime = 44
    ResetTicks = 2
    CommitTimeout = 14
    Delay = 12
    Options <- MCOptions
    Programs <- MCPrograms
    Reg <- MCReg
    Word <- MCWord
    Inst <- MCInst
    Line <- MCLine
    Images <- MCImages
    PcInit <- MCPcInit
    NextPc <- MCNextPc
    PrevPc <- MCPrevPc
    AluMdu <- MCAluMdu
    Holds <- MCHolds
    Target <- MCTarget
    LineOf <- MCLineOf
    Merge <- MCMerge
    Extract <- MCExtract
    Aligned <- MCAligned
    Mapped <- MCMapped
    Faults <- MCFaults
    EndsTest <- MCEndsTest
    CodeLine <- MCCodeLine
INVARIANT DifftestTypeOK
INVARIANT NoFalseAlarm
INVARIANT ComparisonIsSound
INVARIANT MemoriesAgree
INVARIANT BudgetEndsTheRun
INVARIANT DifftestInv
PROPERTY Terminates
