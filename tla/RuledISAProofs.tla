--------------------------- MODULE RuledISAProofs ---------------------------
(***************************************************************************)
(* Proof, for every program and data path, that a program which keeps the  *)
(* rules cannot tell the exposed-timing machine from a sequential one.     *)
(***************************************************************************)
EXTENDS RuledISA, IsaLemmas

ISATypeOK ==
    /\ prog \in [Word -> Inst]
    /\ pcs \in Word \X Word \X Word
    /\ regs \in [Reg -> Word]
    /\ \A k \in 1..3 : pending[k].rd \in Reg /\ pending[k].wdata \in Word
    /\ memory \in [Line -> Word]
    /\ slots \in 0..2
    /\ broken \in BOOLEAN

\* The program counters behind the delay slots still to be issued follow each other.
InSequence == /\ slots = 0 => pcs[2] = NextPc(pcs[1])
              /\ slots < 2 => pcs[3] = NextPc(pcs[2])

RuledInv == ISATypeOK /\ (broken \/ InSequence)
-----------------------------------------------------------------------------
\* The initial states have their types, and fetch in sequence.
LEMMA RuledInitInv == RuledInit => RuledInv
  <1> SUFFICES ASSUME RuledInit PROVE ISATypeOK /\ InSequence
    BY DEF RuledInv
  <1>1. pcs \in Word \X Word \X Word /\ InSequence
    BY PcAssumption, WordAssumption DEF RuledInit, Init, InSequence
  <1>2. \A k \in 1..3 : pending[k].rd \in Reg /\ pending[k].wdata \in Word
    <2>1. \A k \in 1..3 : pending[k] = Bubble
      BY DEF RuledInit, Init
    <2> QED BY <2>1, RegAssumption, WordAssumption DEF Bubble
  <1>3. prog \in [Word -> Inst] /\ memory \in [Line -> Word]
    BY MemoryAssumption DEF RuledInit, Init
  <1>4. regs \in [Reg -> Word]
    <2>1. regs = [r \in Reg |-> 0] /\ 0 \in Word
      BY WordAssumption DEF RuledInit, Init
    <2> QED BY <2>1
  <1>5. slots \in 0..2
    BY DEF RuledInit
  <1>6. broken \in BOOLEAN
    BY DEF RuledInit
  <1> QED BY <1>1, <1>2, <1>3, <1>4, <1>5, <1>6 DEF ISATypeOK

\* What an instruction commits, an ecall included, is a register and a word.
LEMMA CommitType ==
    ASSUME ISATypeOK, NEW i \in Inst, NEW p \in Word, NEW a \in Word, NEW b \in Word
    PROVE  CommitOf(i, p, a, b).rd \in Reg /\ CommitOf(i, p, a, b).wdata \in Word
  <1>1. memory[LineOf(i, a)] \in Word
    BY UnitAssumption DEF ISATypeOK
  <1>2. Extract(i, a, memory[LineOf(i, a)]) \in Word /\ Result(i, p, a, b) \in Word
    BY <1>1, UnitAssumption, ResultType
  <1>3. Dest(i) \in Reg /\ 0 \in Word
    BY DestType, WordAssumption
  <1> QED BY <1>2, <1>3 DEF CommitOf, Commit, ISATypeOK

\* Issuing an instruction keeps the types.
LEMMA IssueType ==
    ASSUME ISATypeOK, RuledNext
    PROVE  ISATypeOK'
  <1> DEFINE i == prog[pcs[1]]
             a == Src1(i, regs)
             b == Src2(i, regs)
  <1>1. i \in Inst /\ pcs[1] \in Word /\ pcs[2] \in Word /\ pcs[3] \in Word
    BY DEF ISATypeOK
  <1>2. a \in Word /\ b \in Word
    BY <1>1, OperandTypes DEF ISATypeOK
  <1>3. prog' \in [Word -> Inst]
    BY DEF RuledNext, Issue, ISATypeOK
  <1>4. pcs' \in Word \X Word \X Word
    BY <1>1, <1>2, UnitAssumption, PcAssumption DEF RuledNext, Issue
  <1>5. regs' \in [Reg -> Word]
    <2>1. pending[1].rd \in Reg /\ pending[1].wdata \in Word
      BY DEF ISATypeOK
    <2> QED BY <2>1, WrittenType DEF RuledNext, Issue, ISATypeOK
  <1>6. \A k \in 1..3 : pending'[k].rd \in Reg /\ pending'[k].wdata \in Word
    <2> HIDE DEF i, a, b
    <2>1. CommitOf(i, pcs[1], a, b).rd \in Reg /\ CommitOf(i, pcs[1], a, b).wdata \in Word
      BY <1>1, <1>2, CommitType
    <2>2. pending' = <<pending[2], pending[3], CommitOf(i, pcs[1], a, b)>>
      BY DEF RuledNext, Issue, i, a, b
    <2> QED BY <2>1, <2>2 DEF ISATypeOK
  <1>7. memory' \in [Line -> Word]
    BY <1>1, <1>2, StoredType DEF RuledNext, Issue, ISATypeOK
  <1>8. slots' \in 0..2 /\ broken' \in BOOLEAN
    BY DEF RuledNext, Observe, ISATypeOK
  <1> QED BY <1>3, <1>4, <1>5, <1>6, <1>7, <1>8 DEF ISATypeOK

\* It keeps the program counters in sequence as well, while the rules are kept.
LEMMA IssueInSequence ==
    ASSUME RuledInv, RuledNext
    PROVE  broken' \/ InSequence'
  <1> SUFFICES ASSUME ~broken' PROVE InSequence'
    OBVIOUS
  <1> DEFINE i == prog[pcs[1]]
             a == Src1(i, regs)
             b == Src2(i, regs)
             third == IF Branches(i, a, b) THEN Target(i, pcs[1], a) ELSE NextPc(pcs[3])
  <1>1. ~broken /\ KeepsRules(i) /\ InSequence
    BY DEF RuledInv, RuledNext, Observe, ISATypeOK
  <1>2. pcs' = <<pcs[2], pcs[3], third>> /\ slots \in 0..2
    BY DEF RuledNext, Issue, RuledInv, ISATypeOK
  <1>3. CASE slots = 0
    BY <1>1, <1>2, <1>3 DEF RuledNext, Observe, InSequence
  <1>4. CASE slots > 0
    <2>1. ~Branches(i, a, b)
      BY <1>1, <1>4 DEF KeepsRules, Idle, Branches
    <2>2. slots' = slots - 1
      BY <1>4 DEF RuledNext, Observe
    <2>3. pcs' = <<pcs[2], pcs[3], NextPc(pcs[3])>>
      BY <2>1, <1>2
    <2> QED BY <1>1, <1>2, <1>4, <2>2, <2>3 DEF InSequence
  <1> QED BY <1>2, <1>3, <1>4

\* Every step keeps the invariant.
LEMMA RuledNextInv == RuledInv /\ [RuledNext]_<<vars, slots, broken>> => RuledInv'
  <1> SUFFICES ASSUME RuledInv, [RuledNext]_<<vars, slots, broken>> PROVE RuledInv'
    OBVIOUS
  <1>1. CASE RuledNext
    BY <1>1, IssueType, IssueInSequence DEF RuledInv
  <1>2. CASE UNCHANGED <<vars, slots, broken>>
    BY <1>2 DEF vars, RuledInv, ISATypeOK, InSequence
  <1> QED BY <1>1, <1>2
-----------------------------------------------------------------------------
(* The refinement of SequentialISA. *)

\* SequentialISA, under the mapping, decodes and computes as Isa does.
LEMMA SEQSame ==
    /\ \A i : SEQ!Dest(i) = Dest(i)
    /\ \A i : SEQ!IsLoad(i) = IsLoad(i) /\ SEQ!IsStore(i) = IsStore(i)
    /\ \A i, rf : SEQ!Src1(i, rf) = Src1(i, rf) /\ SEQ!Src2(i, rf) = Src2(i, rf)
    /\ \A i, a, b : SEQ!Branches(i, a, b) = Branches(i, a, b)
    /\ \A i, p, a, b : SEQ!Result(i, p, a, b) = Result(i, p, a, b)
    /\ \A i, a, b, m : SEQ!Stored(i, a, b, m) = Stored(i, a, b, m)
    /\ \A rf, r, v : SEQ!Written(rf, r, v) = Written(rf, r, v)
  BY DEF SEQ!Dest, Dest, SEQ!RegWen, RegWen, SEQ!IsLoad, IsLoad, SEQ!IsStore, IsStore,
         SEQ!Src1, Src1, SEQ!Src2, Src2, SEQ!Branches, Branches, SEQ!Result, Result,
         SEQ!Stored, Stored, SEQ!Written, Written

\* Nothing is on its way at first.
LEMMA RuledInitRefines == RuledInit => SEQ!Init
  BY DEF RuledInit, Init, SEQ!Init, FinalRegs, Written, Bubble

\* What is on its way to a register does not concern an instruction that does not
\* read it, and never concerns x0.
LEMMA OperandsSettled ==
    ASSUME ISATypeOK, NEW i \in Inst, Settled(i)
    PROVE  /\ FinalRegs \in [Reg -> Word]
           /\ \A r \in Reads(i) \cup {0} : regs[r] = FinalRegs[r]
  <1>1. FinalRegs \in [Reg -> Word]
    BY DEF FinalRegs, Written, ISATypeOK
  <1>2. Reads(i) \cup {0} \subseteq Reg
    BY InstFields, RegAssumption DEF Reads
  <1>3. ASSUME NEW r \in Reads(i) \cup {0} PROVE regs[r] = FinalRegs[r]
    <2>1. \A k \in 1..3 : pending[k].rd = 0 \/ pending[k].rd # r
      BY <1>3 DEF Settled
    <2>2. \A rf \in [Reg -> Word], k \in 1..3 :
             /\ Written(rf, pending[k].rd, pending[k].wdata) \in [Reg -> Word]
             /\ Written(rf, pending[k].rd, pending[k].wdata)[r] = rf[r]
      BY <1>2, <2>1, WrittenType DEF Written, ISATypeOK
    <2> QED BY <2>2 DEF FinalRegs, ISATypeOK
  <1> QED BY <1>1, <1>3

\* Outside delay slots, an instruction that keeps the rules is a step of the
\* sequential machine.
LEMMA IssueIsStep ==
    ASSUME RuledInv, RuledNext, ~broken', slots = 0
    PROVE  SEQ!Step
  <1> DEFINE i == prog[pcs[1]]
             a == Src1(i, regs)
             b == Src2(i, regs)
             c == Src1(i, FinalRegs)
             d == Src2(i, FinalRegs)
             v == IF IsLoad(i) THEN Extract(i, a, memory[LineOf(i, a)])
                  ELSE Result(i, pcs[1], a, b)
  <1>1. ISATypeOK /\ InSequence /\ ~broken /\ Settled(i)
    <2>1. ISATypeOK /\ broken' = (broken \/ ~KeepsRules(i))
      BY DEF RuledInv, RuledNext, Observe
    <2>2. ~broken /\ KeepsRules(i)
      BY <2>1 DEF ISATypeOK, KeepsRules, Idle, Settled
    <2> QED BY <2>1, <2>2 DEF RuledInv, KeepsRules
  <1>2. i \in Inst /\ pcs[1] \in Word
    BY <1>1 DEF ISATypeOK
  <1>3. /\ Result(i, pcs[1], a, b) = Result(i, pcs[1], c, d)
        /\ Branches(i, a, b) = Branches(i, c, d)
        /\ Branches(i, a, b) => Target(i, pcs[1], a) = Target(i, pcs[1], c)
        /\ IsLoad(i) => a = c
        /\ IsStore(i) => a = c /\ b = d
    BY <1>1, <1>2, OperandsSettled, OnlyReadsMatter DEF ISATypeOK
  <1>4. pcs' = <<pcs[2], pcs[3],
                 IF Branches(i, a, b) THEN Target(i, pcs[1], a) ELSE NextPc(pcs[3])>>
    BY DEF RuledNext, Issue
  <1>5. slots' = IF Branches(i, a, b) THEN 2 ELSE 0
    BY DEF RuledNext, Observe
  <1>6. FinalRegs' = Written(FinalRegs, Dest(i), v)
    <2>1. CASE i.fusel = "csr"
      <3>1. pending' = <<pending[2], pending[3], pending[3]>>
        BY <2>1 DEF RuledNext, Issue, CommitOf
      <3>2. Dest(i) = 0
        <4>1. i.type \in {"Sys", "N"} /\ (i.type = "Sys" => i.rd = 0)
          <5>1. CASE i = Undecoded
            BY <2>1, <5>1 DEF Undecoded
          <5>2. CASE i # Undecoded
            BY <1>2, <2>1, <5>2, InstAssumption DEF DecodeRows
          <5> QED BY <5>1, <5>2
        <4> QED BY <4>1 DEF Dest, RegWen
      <3>3. FinalRegs' = Written(FinalRegs, pending[3].rd, pending[3].wdata)
        BY <3>1 DEF FinalRegs, RuledNext, Issue
      <3>4. Written(FinalRegs, pending[3].rd, pending[3].wdata) = FinalRegs
        BY <1>1 DEF FinalRegs, Written, ISATypeOK
      <3> QED BY <3>2, <3>3, <3>4 DEF Written
    <2>2. CASE i.fusel # "csr"
      <3>1. pending' = <<pending[2], pending[3], Commit(pcs[1], Dest(i), v)>>
        BY <2>2 DEF RuledNext, Issue, CommitOf
      <3>2. FinalRegs' = Written(FinalRegs, Commit(pcs[1], Dest(i), v).rd,
                                            Commit(pcs[1], Dest(i), v).wdata)
        BY <3>1 DEF FinalRegs, RuledNext, Issue
      <3> QED BY <3>2 DEF Commit, Written
    <2> QED BY <2>1, <2>2
  <1>7. memory' = IF IsStore(i) THEN Stored(i, a, b, memory) ELSE memory
    BY DEF RuledNext, Issue
  <1>8. prog' = prog /\ broken' = broken
    BY <1>1 DEF RuledNext, Issue, ISATypeOK, Observe
  <1>9. pcs'[slots' + 1] = IF Branches(i, c, d) THEN Target(i, pcs[1], c) ELSE NextPc(pcs[1])
    BY <1>1, <1>3, <1>4, <1>5 DEF InSequence
  <1>10. pcs[slots + 1] = pcs[1]
    OBVIOUS
  <1>11. v = IF IsLoad(i) THEN Extract(i, c, memory[LineOf(i, c)])
             ELSE Result(i, pcs[1], c, d)
    BY <1>3
  <1>12. memory' = IF IsStore(i) THEN Stored(i, c, d, memory) ELSE memory
    BY <1>3, <1>7
  <1> HIDE DEF i, a, b, c, d, v
  <1>13. prog[pcs[slots + 1]] = i /\ Src1(i, FinalRegs) = c /\ Src2(i, FinalRegs) = d
    BY <1>10 DEF i, c, d
  <1> QED BY <1>6, <1>8, <1>9, <1>10, <1>11, <1>12, <1>13, SEQSame DEF SEQ!Step

\* An instruction that keeps the rules in a delay slot is not a step at all.
LEMMA SlotStutters ==
    ASSUME RuledInv, RuledNext, ~broken', slots > 0
    PROVE  UNCHANGED SEQ!vars
  <1> DEFINE i == prog[pcs[1]]
             a == Src1(i, regs)
             b == Src2(i, regs)
  <1>1. ISATypeOK /\ ~broken /\ Idle(i) /\ slots \in 1..2
    <2>1. ISATypeOK /\ broken' = (broken \/ ~KeepsRules(i))
      BY DEF RuledInv, RuledNext, Observe
    <2>2. ~broken /\ KeepsRules(i)
      BY <2>1 DEF ISATypeOK, KeepsRules, Idle, Settled
    <2> QED BY <2>1, <2>2 DEF KeepsRules, ISATypeOK
  <1>2. slots' = slots - 1
    BY DEF RuledNext, Observe
  <1>3. pcs'[slots' + 1] = pcs[slots + 1]
    BY <1>1, <1>2 DEF RuledNext, Issue
  <1>4. FinalRegs' = FinalRegs
    <2>1. pending'[1] = pending[2] /\ pending'[2] = pending[3]
      BY DEF RuledNext, Issue
    <2>2. \/ pending'[3] = pending[3]
          \/ pending'[3].rd = 0
      BY <1>1 DEF RuledNext, Issue, CommitOf, Idle, Commit
    <2>3. regs' = Written(regs, pending[1].rd, pending[1].wdata)
      BY DEF RuledNext, Issue
    <2>4. FinalRegs' = Written(FinalRegs, pending'[3].rd, pending'[3].wdata)
      BY <2>1, <2>3 DEF FinalRegs
    <2>5. Written(FinalRegs, pending[3].rd, pending[3].wdata) = FinalRegs
      BY <1>1 DEF FinalRegs, Written, ISATypeOK
    <2> QED BY <2>2, <2>4, <2>5 DEF Written
  <1>5. memory' = memory /\ prog' = prog /\ broken' = broken
    BY <1>1 DEF RuledNext, Issue, Idle, Observe, ISATypeOK
  <1> QED BY <1>3, <1>4, <1>5 DEF SEQ!vars

\* Every step of the machine is a step of the sequential one, or none.
LEMMA RuledNextRefines ==
    RuledInv /\ [RuledNext]_<<vars, slots, broken>> => [SEQ!Next]_SEQ!vars
  <1> SUFFICES ASSUME RuledInv, [RuledNext]_<<vars, slots, broken>>
               PROVE  [SEQ!Next]_SEQ!vars
    OBVIOUS
  <1>1. CASE UNCHANGED <<vars, slots, broken>>
    BY <1>1 DEF vars, SEQ!vars, FinalRegs
  <1>2. CASE RuledNext /\ broken'
    BY <1>2 DEF SEQ!Next
  <1>3. CASE RuledNext /\ ~broken'
    <2>1. slots = 0 \/ slots > 0
      BY DEF RuledInv, ISATypeOK
    <2> QED BY <1>3, <2>1, IssueIsStep, SlotStutters DEF SEQ!Next
  <1> QED BY <1>1, <1>2, <1>3

\* A program that reads no register on its way and leaves its delay slots idle runs
\* on the exposed-timing machine as on a sequential one (ARegfile.scala:42,
\* FetchUnit.scala:33).
THEOREM SequentialExecution == RuledSafety => SequentialWhileRuled
  BY RuledInitInv, RuledInitRefines, RuledNextInv, RuledNextRefines, PTL
     DEF RuledSafety, SequentialWhileRuled, SEQ!Safety
=============================================================================
