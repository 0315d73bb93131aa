--------------------------- MODULE PipelineProofs ---------------------------
(***************************************************************************)
(* Proofs, for every data path, register file, memory and program, that    *)
(* the pipeline keeps its types and its invariant and implements the       *)
(* exposed-timing machine.                                                 *)
(***************************************************************************)
EXTENDS PipelineRefinesISA, IsaLemmas

\* The reset values have the types of their registers.
LEMMA InitType == Init => TypeOK
  BY RegAssumption, WordAssumption, InstAssumption, PcAssumption, MemoryAssumption
     DEF Init, ResetPc, TypeOK

\* A clock edge keeps every register of the design and every port typed.
LEMMA NextType == TypeOK /\ [Next]_vars => TypeOK'
  <1> SUFFICES ASSUME TypeOK, [Next]_vars PROVE TypeOK'
    OBVIOUS
  <1>1. CASE UNCHANGED vars
    BY <1>1 DEF vars, TypeOK
  <1>2. CASE Clock
    <2>1. prog' \in [Word -> Inst]
      BY <1>2 DEF Clock, TypeOK
    <2>2. InstAddr \in Word
      BY UnitAssumption, PcAssumption DEF InstAddr, TypeOK
    <2>3. fstate' \in {"boot", "send", "receive"} /\ pc' \in Word
      BY <1>2, <2>2 DEF Clock, Fetch, TypeOK
    <2>4. irdata' \in Inst
      BY <1>2, <2>2 DEF Clock, InstChannel, TypeOK
    <2>5. id' \in [valid : BOOLEAN, pc : Word, inst : Inst]
      BY <1>2 DEF Clock, DecodeStage, TypeOK
    <2>6. ex' \in [valid : BOOLEAN, pc : Word, inst : Inst, src1 : Word, src2 : Word]
      BY <1>2, OperandTypes DEF Clock, ExecuteStage, TypeOK
    <2>7. FuResult \in Word
      BY ResultType DEF FuResult, TypeOK
    <2>8. mem' \in [valid : BOOLEAN, pc : Word, inst : Inst, src1 : Word, wdata : Word]
      BY <1>2, <2>7 DEF Clock, MemoryStage, TypeOK
    <2>9. MemResult \in Word
      BY UnitAssumption DEF MemResult, TypeOK
    <2>10. wb' \in [valid : BOOLEAN, pc : Word, inst : Inst, wdata : Word]
      BY <1>2, <2>9 DEF Clock, WriteBackStage, TypeOK
    <2>11. regs' \in [Reg -> Word]
      BY <1>2, WrittenType, DestType DEF Clock, ARegFile, TypeOK
    <2>12. DmemNext \in [Line -> Word] /\ DataLine \in Line
      BY StoredType, UnitAssumption DEF DmemNext, DataLine, TypeOK
    <2>13. dmem' \in [Line -> Word] /\ drdata' \in Word
      BY <1>2, <2>12 DEF Clock, DataChannel, TypeOK
    <2> QED
      BY <2>1, <2>3, <2>4, <2>5, <2>6, <2>8, <2>10, <2>11, <2>13 DEF TypeOK
  <1> QED BY <1>1, <1>2 DEF Next

\* The registers of the design hold values of their types (Bundles.scala).
THEOREM TypeCorrect == Spec => []TypeOK
  <1>1. Init => TypeOK
    BY InitType
  <1>2. TypeOK /\ [Next]_vars => TypeOK'
    BY NextType
  <1> QED BY <1>1, <1>2, PTL DEF Spec
-----------------------------------------------------------------------------
(* The inductive invariant.  TypeOK is what the others are read under; that  *)
(* bubbles are inert keeps junk out of memory and the fetch; that the        *)
(* instruction travels with its pc ties decode to the program.               *)

\* Out of reset every stage is empty, and what is empty satisfies the invariant.
LEMMA InitInv == Init => PipelineInv
  BY InitType, PcAssumption
     DEF Init, ResetPc, PipelineInv, BubblesAreInert, InstMatchesPc, LoadDataFresh, NoEcallInMem,
         IsLoad, Undecoded, Latched

\* A clock edge preserves the invariant; one step per conjunct.
LEMMA NextInv == PipelineInv /\ [Next]_vars => PipelineInv'
  <1> SUFFICES ASSUME PipelineInv, [Next]_vars PROVE PipelineInv'
    OBVIOUS
  <1>1. CASE UNCHANGED vars
    BY <1>1 DEF vars, PipelineInv, TypeOK, BubblesAreInert, InstMatchesPc, LoadDataFresh,
                NoEcallInMem, DataLine
  <1>2. CASE Clock
    <2>1. TypeOK /\ TypeOK'
      BY NextType DEF PipelineInv
    <2>2. BubblesAreInert'
      BY <1>2 DEF Clock, Fetch, InstChannel, DecodeStage, ExecuteStage, MemoryStage,
                  WriteBackStage, PipelineInv, BubblesAreInert, NoEcallInMem
    <2>3. InstMatchesPc'
      <3>1. ~id.valid => InstAddr = NextPc(pc)
        BY DEF PipelineInv, BubblesAreInert, InstAddr, BranchTaken
      <3> QED
        BY <1>2, <3>1, PcAssumption
           DEF Clock, Fetch, InstChannel, DecodeStage, PipelineInv, BubblesAreInert,
               InstMatchesPc
    <2>4. LoadDataFresh'
      <3>1. CASE ex.inst.fusel \in Latched
        <4>1. mem'.inst = ex.inst /\ mem'.src1 = ex.src1 /\ dmem' = DmemNext
          BY <1>2, <3>1 DEF Clock, MemoryStage, DataChannel
        <4>2. IsLoad(ex.inst) => drdata' = DmemNext[DataLine]
          BY <1>2 DEF Clock, DataChannel, IsLoad
        <4> QED
          BY <4>1, <4>2 DEF LoadDataFresh, DataLine
      <3>2. CASE ex.inst.fusel \notin Latched
        <4>1. mem' = mem /\ drdata' = drdata /\ dmem' = dmem
          BY <1>2, <3>2 DEF Clock, MemoryStage, DataChannel, DmemNext, IsStore, Latched
        <4> QED
          BY <4>1 DEF LoadDataFresh, PipelineInv
      <3> QED BY <3>1, <3>2
    <2>5. NoEcallInMem'
      BY <1>2 DEF Clock, MemoryStage, WriteBackStage, PipelineInv, NoEcallInMem
    <2> QED BY <2>1, <2>2, <2>3, <2>4, <2>5 DEF PipelineInv
  <1> QED BY <1>1, <1>2 DEF Next

\* Whatever the program, bubbles are inert, instructions travel with their pc,
\* a load in the memory stage finds its line on the read port, and no ecall
\* gets past execute (MemoryStage.scala:31, MemoryUnit.scala:26).
THEOREM InvariantHolds == Spec => []PipelineInv
  <1>1. Init => PipelineInv
    BY InitInv
  <1>2. PipelineInv /\ [Next]_vars => PipelineInv'
    BY NextInv
  <1> QED BY <1>1, <1>2, PTL DEF Spec

\* A load in the memory stage finds its line on the read port, whatever accesses
\* came between and however long an ecall keeps it there (MemoryUnit.scala:26).
THEOREM LoadsAreFresh == Spec => []LoadDataFresh
  <1>1. PipelineInv => LoadDataFresh
    BY DEF PipelineInv
  <1> QED BY <1>1, InvariantHolds, PTL
-----------------------------------------------------------------------------
(* The pipeline implements the exposed-timing machine: the initial states  *)
(* map to initial states; a clock edge with an instruction in decode maps  *)
(* to Issue, any other one to a stuttering step.                           *)

\* ExposedISA, under the refinement mapping, decodes and computes as Isa does.
LEMMA SameDecode ==
    /\ \A i : ISA!Dest(i) = Dest(i)
    /\ \A i : ISA!IsLoad(i) = IsLoad(i) /\ ISA!IsStore(i) = IsStore(i)
    /\ \A i, rf : ISA!Src1(i, rf) = Src1(i, rf) /\ ISA!Src2(i, rf) = Src2(i, rf)
    /\ \A i, a, b : ISA!Branches(i, a, b) = Branches(i, a, b)
  BY DEF ISA!Dest, Dest, ISA!RegWen, RegWen, ISA!IsLoad, IsLoad, ISA!IsStore, IsStore,
         ISA!Src1, Src1, ISA!Src2, Src2, ISA!Branches, Branches

\* So do results, stores, register writes and commits.
LEMMA SameEffects ==
    /\ \A i, p, a, b : ISA!Result(i, p, a, b) = Result(i, p, a, b)
    /\ \A i, a, b, m : ISA!Stored(i, a, b, m) = Stored(i, a, b, m)
    /\ \A rf, r, v : ISA!Written(rf, r, v) = Written(rf, r, v)
    /\ \A p, r, v : ISA!Commit(p, r, v) = Commit(p, r, v)
    /\ ISA!Bubble = Bubble
  BY DEF ISA!Result, Result, ISA!Stored, Stored, ISA!Written, Written, ISA!Commit, Commit,
         ISA!Bubble, Bubble

\* Initial states map to initial states.
LEMMA InitRefines == Init => ISA!Init
  <1> SUFFICES ASSUME Init PROVE ISA!Init
    OBVIOUS
  <1>1. NextPcs = <<PcInit, NextPc(PcInit), NextPc(NextPc(PcInit))>>
    BY PcAssumption DEF Init, ResetPc, NextPcs
  <1>2. CommitInWb = Bubble /\ CommitInMem = Bubble /\ CommitInEx = Bubble
    BY DEF Init, CommitInWb, CommitInMem, CommitInEx, Undecoded
  <1>3. DmemNext = dmem
    BY DEF Init, DmemNext, IsStore, Undecoded
  <1> QED
    BY <1>1, <1>2, <1>3, SameEffects DEF Init, ISA!Init
-----------------------------------------------------------------------------
(* What the mapped variables become at a clock edge. *)

\* The commit in write-back goes to the register file, those in the memory and
\* execute stages move up by one stage.
LEMMA CommitsMoveUp ==
    ASSUME PipelineInv, Clock
    PROVE  /\ regs' = Written(regs, CommitInWb.rd, CommitInWb.wdata)
           /\ CommitInWb' = CommitInMem
           /\ CommitInMem' = CommitInEx
  <1>1. regs' = Written(regs, CommitInWb.rd, CommitInWb.wdata)
    BY DEF Clock, ARegFile, CommitInWb, Commit, Bubble, Written
  <1>2. CommitInWb' = CommitInMem
    BY DEF Clock, WriteBackStage, CommitInWb, CommitInMem, PipelineInv, NoEcallInMem
  <1>3. CommitInMem' = CommitInEx
    <2>1. CASE ex.inst.fusel = "csr"
      <3>1. mem' = mem /\ drdata' = drdata
        BY <2>1 DEF Clock, MemoryStage, DataChannel, Latched
      <3> QED
        BY <2>1, <3>1 DEF CommitInMem, CommitInEx, MemResult
    <2>2. CASE ex.inst.fusel # "csr"
      <3>1. mem' = [valid |-> ex.valid, pc |-> ex.pc, inst |-> ex.inst,
                    src1 |-> ex.src1, wdata |-> FuResult]
        BY <2>2, InstFields DEF Clock, MemoryStage, PipelineInv, TypeOK, Latched
      <3>2. CASE ~ex.valid
        BY <2>2, <3>1, <3>2 DEF CommitInMem, CommitInEx
      <3>3. CASE ex.valid /\ IsLoad(ex.inst)
        <4>1. drdata' = dmem[DataLine]
          BY <3>3 DEF Clock, DataChannel, DmemNext, IsLoad, IsStore
        <4>2. MemResult' = Extract(ex.inst, ex.src1, dmem[DataLine])
          BY <3>1, <3>3, <4>1 DEF MemResult
        <4> QED
          BY <2>2, <3>1, <3>3, <4>2 DEF CommitInMem, CommitInEx
      <3>4. CASE ex.valid /\ ~IsLoad(ex.inst)
        <4>1. MemResult' = FuResult
          BY <3>1, <3>4 DEF MemResult
        <4>2. Dest(ex.inst) = 0 \/ FuResult = Result(ex.inst, ex.pc, ex.src1, ex.src2)
          <5>1. CASE ex.inst.fusel = "lsu"
            <6>1. ex.inst.type = "S"
              <7>1. ex.inst \in Inst
                BY DEF PipelineInv, TypeOK
              <7> QED BY <7>1, <5>1, <3>4, InstFields DEF IsLoad
            <6> QED BY <6>1 DEF Dest, RegWen
          <5>2. CASE ex.inst.fusel # "lsu"
            BY <5>2 DEF FuResult
          <5> QED BY <5>1, <5>2
        <4> QED
          BY <2>2, <3>1, <3>4, <4>1, <4>2 DEF CommitInMem, CommitInEx, Commit
      <3> QED BY <3>2, <3>3, <3>4
    <2> QED BY <2>1, <2>2
  <1> QED BY <1>1, <1>2, <1>3

\* While nothing is in decode, nothing is further down the pipeline either.
LEMMA FillingIsSilent ==
    ASSUME PipelineInv, ~id.valid
    PROVE  /\ CommitInWb = Bubble /\ CommitInMem = Bubble /\ CommitInEx = Bubble
           /\ ~BranchTaken /\ InstAddr = NextPc(pc)
           /\ DmemNext = dmem
  BY DEF PipelineInv, BubblesAreInert, CommitInWb, CommitInMem, CommitInEx, BranchTaken,
         InstAddr, DmemNext, IsStore, Undecoded

\* A clock edge with no instruction in decode changes nothing the programmer sees.
LEMMA FillingStutters ==
    ASSUME PipelineInv, Clock, ~id.valid
    PROVE  UNCHANGED ISA!vars
  <1>1. ex' = [valid |-> FALSE, pc |-> id.pc, inst |-> Undecoded,
               src1 |-> Src1(Undecoded, regs), src2 |-> Src2(Undecoded, regs)]
    <2>1. id.valid = FALSE /\ id.inst = Undecoded
      BY DEF PipelineInv, TypeOK, BubblesAreInert
    <2> QED BY <2>1 DEF Clock, ExecuteStage
  <1>2. CommitInEx' = Bubble
    BY <1>1 DEF CommitInEx, Undecoded
  <1>3. UNCHANGED <<CommitInWb, CommitInMem, CommitInEx>>
    BY <1>2, CommitsMoveUp, FillingIsSilent
  <1>4. regs' = regs
    BY CommitsMoveUp, FillingIsSilent DEF Bubble, Written
  <1>5. DmemNext' = DmemNext
    <2>1. DmemNext' = dmem'
      BY <1>1 DEF DmemNext, IsStore, Undecoded
    <2> QED BY <2>1 DEF Clock, DataChannel
  <1>6. NextPcs' = NextPcs
    <2>1. InstAddr' = NextPc(pc')
      BY <1>1 DEF InstAddr, BranchTaken
    <2>2. CASE fstate = "boot"
      BY <2>2 DEF Clock, Fetch, NextPcs
    <2>3. CASE fstate = "send"
      BY <2>3, FillingIsSilent DEF Clock, Fetch, DecodeStage, NextPcs
    <2>4. CASE fstate = "receive"
      BY <2>4, <2>1, FillingIsSilent DEF Clock, Fetch, DecodeStage, NextPcs
    <2> QED BY <2>2, <2>3, <2>4 DEF PipelineInv, TypeOK
  <1>7. prog' = prog
    BY DEF Clock
  <1> QED BY <1>3, <1>4, <1>5, <1>6, <1>7 DEF ISA!vars

\* A clock edge at which an instruction leaves decode issues it.
LEMMA DecodeIssues ==
    ASSUME PipelineInv, Clock, id.valid
    PROVE  ISA!Issue
  <1> DEFINE i == prog[id.pc]
             a == Src1(i, regs)
             b == Src2(i, regs)
  <1>1. fstate = "receive" /\ i = id.inst
    BY DEF PipelineInv, BubblesAreInert, InstMatchesPc
  <1>2. ex' = [valid |-> TRUE, pc |-> id.pc, inst |-> i, src1 |-> a, src2 |-> b]
    BY <1>1 DEF Clock, ExecuteStage
  <1>3. NextPcs = <<id.pc, pc, InstAddr>>
    BY <1>1 DEF NextPcs
  <1>4. NextPcs' = <<pc, InstAddr,
                     IF Branches(i, a, b) THEN Target(i, id.pc, a) ELSE NextPc(InstAddr)>>
    <2>1. fstate' = "receive" /\ pc' = InstAddr /\ id'.valid /\ id'.pc = pc
      BY <1>1 DEF Clock, Fetch, DecodeStage
    <2>2. InstAddr' = IF Branches(i, a, b) THEN Target(i, id.pc, a) ELSE NextPc(pc')
      BY <1>2 DEF InstAddr, BranchTaken
    <2> QED BY <2>1, <2>2 DEF NextPcs
  <1>5. CommitInEx' = IF i.fusel = "csr" THEN CommitInEx
                      ELSE Commit(id.pc, Dest(i),
                                  IF IsLoad(i) THEN Extract(i, a, DmemNext[LineOf(i, a)])
                                  ELSE Result(i, id.pc, a, b))
    <2>1. dmem' = DmemNext
      BY DEF Clock, DataChannel
    <2> QED BY <1>2, <2>1, CommitsMoveUp DEF CommitInEx, DataLine
  <1>6. DmemNext' = IF IsStore(i) THEN Stored(i, a, b, DmemNext) ELSE DmemNext
    BY <1>2 DEF DmemNext, Clock, DataChannel
  <1>7. prog' = prog
    BY DEF Clock
  <1> HIDE DEF i, a, b
  <1>8. /\ NextPcs[1] = id.pc /\ NextPcs[2] = pc /\ NextPcs[3] = InstAddr
    BY <1>3
  <1>9. ISA!Issue
    BY <1>4, <1>5, <1>6, <1>7, <1>8, CommitsMoveUp, SameDecode, SameEffects
       DEF ISA!Issue, ISA!CommitOf, i, a, b
  <1> QED BY <1>9

\* The pipeline implements the exposed-timing machine: what the five stages do
\* together is one instruction after the other, with the delays the machine
\* names and no others (Core.scala:30-50).
THEOREM Refinement == Spec => ImplementsISA
  <1>1. Init => ISA!Init
    BY InitRefines
  <1>2. PipelineInv /\ [Next]_vars => [ISA!Next]_ISA!vars
    <2> SUFFICES ASSUME PipelineInv, [Next]_vars PROVE [ISA!Next]_ISA!vars
      OBVIOUS
    <2>1. CASE UNCHANGED vars
      BY <2>1 DEF vars, ISA!vars, NextPcs, InstAddr, BranchTaken, CommitInWb, CommitInMem,
                  CommitInEx, MemResult, DmemNext, DataLine
    <2>2. CASE Clock /\ id.valid
      BY <2>2, DecodeIssues DEF ISA!Next
    <2>3. CASE Clock /\ ~id.valid
      BY <2>3, FillingStutters
    <2> QED BY <2>1, <2>2, <2>3 DEF Next
  <1> QED
    BY <1>1, <1>2, InvariantHolds, PTL DEF Spec, ImplementsISA, ISA!Safety
=============================================================================
