SPECIFICATION RuledSpec
CONSTANTS
    ProgLen = 3
    Programs <- MCPrograms
    Reg <- MCReg
    Word <- MCWord
    Inst <- MCInst
    Line <- MCLine
    Images <- MCImages
    PcInit <- MCPcInit
    NextPc <- MCNextPc
    PrevPc <- MCPrevPc
    AluMdu <- MCAluMdu
    Holds <- MCHolds
    Target <- MCTarget
    LineOf <- MCLineOf
    Merge <- MCMerge
    Extract <- MCExtract
INVARIANT TypeOK
INVARIANT PipelineInv
INVARIANT LoadDataFresh
PROPERTY ImplementsISA
PROPERTY CommitsEveryCycle
PROPERTY SequentialWhileRuled
