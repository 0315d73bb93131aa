------------------------ MODULE RuledPipelineProofs ------------------------
(***************************************************************************)
(* Proof that the pipeline runs a program which keeps the rules as a       *)
(* sequential machine does: it implements the exposed-timing machine with  *)
(* its observer, of which RuledISAProofs shows that it implements the      *)
(* sequential one.                                                         *)
(***************************************************************************)
EXTENDS PipelineProofs, RuledPipeline

RP == INSTANCE RuledISAProofs WITH pcs <- NextPcs,
                                   pending <- <<CommitInWb, CommitInMem, CommitInEx>>,
                                   memory <- DmemNext

rpVars == <<RP!vars, slots, broken>>

\* What RuledISAProofs shows of the exposed-timing machine holds under the mapping.
LEMMA RuledFacts ==
    /\ RP!RuledInit => RP!RuledInv /\ RP!SEQ!Init
    /\ RP!RuledInv /\ [RP!RuledNext]_rpVars => RP!RuledInv' /\ [RP!SEQ!Next]_RP!SEQ!vars
  <1>1. RP!InstAssumption
    BY InstAssumption DEF RP!InstAssumption, RP!Undecoded, Undecoded, RP!DecodeRows, DecodeRows
  <1>2. RP!RuledInit => RP!RuledInv
    BY <1>1, RegAssumption, WordAssumption, MemoryAssumption, PcAssumption, UnitAssumption,
       OperandAssumption, RP!RuledInitInv
  <1>3. RP!RuledInit => RP!SEQ!Init
    BY <1>1, RegAssumption, WordAssumption, MemoryAssumption, PcAssumption, UnitAssumption,
       OperandAssumption, RP!RuledInitRefines
  <1>4. RP!RuledInv /\ [RP!RuledNext]_rpVars => RP!RuledInv'
    BY <1>1, RegAssumption, WordAssumption, MemoryAssumption, PcAssumption, UnitAssumption,
       OperandAssumption, RP!RuledNextInv DEF rpVars
  <1>5. RP!RuledInv /\ [RP!RuledNext]_rpVars => [RP!SEQ!Next]_RP!SEQ!vars
    BY <1>1, RegAssumption, WordAssumption, MemoryAssumption, PcAssumption, UnitAssumption,
       OperandAssumption, RP!RuledNextRefines DEF rpVars
  <1> QED BY <1>2, <1>3, <1>4, <1>5

\* Both instances of the exposed-timing machine are the same.
LEMMA SameExposed ==
    /\ ISA!Init => RP!Init
    /\ ISA!Issue => RP!Issue
    /\ ISA!vars = RP!vars /\ ISA!vars' = RP!vars'
    /\ Ruled!Observe => RP!Observe
  <1>1. /\ \A i : ISA!Dest(i) = RP!Dest(i)
        /\ \A i : ISA!IsLoad(i) = RP!IsLoad(i) /\ ISA!IsStore(i) = RP!IsStore(i)
        /\ \A i, rf : ISA!Src1(i, rf) = RP!Src1(i, rf) /\ ISA!Src2(i, rf) = RP!Src2(i, rf)
        /\ \A i, a, b : ISA!Branches(i, a, b) = RP!Branches(i, a, b)
        /\ \A i, p, a, b : ISA!Result(i, p, a, b) = RP!Result(i, p, a, b)
        /\ \A i, a, b, m : ISA!Stored(i, a, b, m) = RP!Stored(i, a, b, m)
        /\ \A rf, r, v : ISA!Written(rf, r, v) = RP!Written(rf, r, v)
        /\ \A p, r, v : ISA!Commit(p, r, v) = RP!Commit(p, r, v)
    BY DEF ISA!Dest, RP!Dest, ISA!RegWen, RP!RegWen, ISA!IsLoad, RP!IsLoad, ISA!IsStore,
           RP!IsStore, ISA!Src1, RP!Src1, ISA!Src2, RP!Src2, ISA!Branches, RP!Branches,
           ISA!Result, RP!Result, ISA!Stored, RP!Stored, ISA!Written, RP!Written,
           ISA!Commit, RP!Commit
  <1>2. ISA!Init => RP!Init
    BY DEF ISA!Init, RP!Init, ISA!Bubble, RP!Bubble
  <1>3. \A i, p, a, b : ISA!CommitOf(i, p, a, b) = RP!CommitOf(i, p, a, b)
    BY <1>1 DEF ISA!CommitOf, RP!CommitOf
  <1>4. ISA!Issue => RP!Issue
    BY <1>1, <1>3 DEF ISA!Issue, RP!Issue
  <1>5. ISA!vars = RP!vars /\ ISA!vars' = RP!vars'
    BY DEF ISA!vars, RP!vars
  <1>6. Ruled!Observe => RP!Observe
    BY DEF Ruled!Observe, RP!Observe, Ruled!KeepsRules, RP!KeepsRules, Ruled!Idle, RP!Idle,
           Ruled!Settled, RP!Settled, Ruled!Reads, RP!Reads, Ruled!Dest, RP!Dest,
           Ruled!RegWen, RP!RegWen, Ruled!IsStore, RP!IsStore, Ruled!Branches, RP!Branches,
           Ruled!Src1, RP!Src1, Ruled!Src2, RP!Src2
  <1> QED BY <1>2, <1>4, <1>5, <1>6

\* So are both instances of the sequential machine.
LEMMA SameSequential ==
    /\ RP!SEQ!Init => SEQ!Init
    /\ [RP!SEQ!Next]_RP!SEQ!vars => [SEQ!Next]_SEQ!vars
  <1>1. /\ \A i : RP!SEQ!Dest(i) = SEQ!Dest(i)
        /\ \A i : RP!SEQ!IsLoad(i) = SEQ!IsLoad(i) /\ RP!SEQ!IsStore(i) = SEQ!IsStore(i)
        /\ \A i, rf : RP!SEQ!Src1(i, rf) = SEQ!Src1(i, rf) /\ RP!SEQ!Src2(i, rf) = SEQ!Src2(i, rf)
        /\ \A i, a, b : RP!SEQ!Branches(i, a, b) = SEQ!Branches(i, a, b)
        /\ \A i, p, a, b : RP!SEQ!Result(i, p, a, b) = SEQ!Result(i, p, a, b)
        /\ \A i, a, b, m : RP!SEQ!Stored(i, a, b, m) = SEQ!Stored(i, a, b, m)
        /\ \A rf, r, v : RP!SEQ!Written(rf, r, v) = SEQ!Written(rf, r, v)
    BY DEF RP!SEQ!Dest, SEQ!Dest, RP!SEQ!RegWen, SEQ!RegWen, RP!SEQ!IsLoad, SEQ!IsLoad,
           RP!SEQ!IsStore, SEQ!IsStore, RP!SEQ!Src1, SEQ!Src1, RP!SEQ!Src2, SEQ!Src2,
           RP!SEQ!Branches, SEQ!Branches, RP!SEQ!Result, SEQ!Result, RP!SEQ!Stored,
           SEQ!Stored, RP!SEQ!Written, SEQ!Written
  <1>2. RP!FinalRegs = Ruled!FinalRegs /\ RP!FinalRegs' = Ruled!FinalRegs'
    BY DEF RP!FinalRegs, Ruled!FinalRegs, RP!Written, Ruled!Written
  <1>3. RP!SEQ!vars = SEQ!vars /\ RP!SEQ!vars' = SEQ!vars'
    BY <1>2 DEF RP!SEQ!vars, SEQ!vars
  <1>4. RP!SEQ!Init => SEQ!Init
    BY <1>2 DEF RP!SEQ!Init, SEQ!Init
  <1>5. RP!SEQ!Step => SEQ!Step
    BY <1>1, <1>2 DEF RP!SEQ!Step, SEQ!Step
  <1> QED BY <1>3, <1>4, <1>5 DEF RP!SEQ!Next, SEQ!Next

\* A clock edge is an observed step of the exposed-timing machine, or none.
LEMMA ClockIsObserved ==
    PipelineInv /\ [RuledNext]_ruledVars => [RP!RuledNext]_rpVars
  <1> SUFFICES ASSUME PipelineInv, [RuledNext]_ruledVars PROVE [RP!RuledNext]_rpVars
    OBVIOUS
  <1>1. CASE UNCHANGED ruledVars
    BY <1>1 DEF ruledVars, vars, rpVars, RP!vars, NextPcs, InstAddr, BranchTaken, CommitInWb,
                CommitInMem, CommitInEx, MemResult, DmemNext, DataLine
  <1>2. CASE RuledNext /\ id.valid
    BY <1>2, DecodeIssues, SameExposed DEF RuledNext, Next, RP!RuledNext
  <1>3. CASE RuledNext /\ ~id.valid
    BY <1>3, FillingStutters, SameExposed DEF RuledNext, Next, rpVars
  <1> QED BY <1>1, <1>2, <1>3

\* The pipeline runs a program that keeps the rules as a sequential machine does, for
\* every data path (Core.scala:30-50).
THEOREM RunsSequentially == RuledSpec => SequentialWhileRuled
  <1>1. RuledInit => RP!RuledInit
    BY InitRefines, SameExposed DEF RuledInit, RP!RuledInit
  <1>2. RuledInit => PipelineInv
    BY InitInv DEF RuledInit
  <1>3. PipelineInv /\ [RuledNext]_ruledVars => PipelineInv'
    BY NextInv DEF RuledNext, ruledVars
  <1> QED
    BY <1>1, <1>2, <1>3, ClockIsObserved, RuledFacts, SameSequential, PTL
       DEF RuledSpec, SequentialWhileRuled, SEQ!Safety
=============================================================================
