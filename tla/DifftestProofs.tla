--------------------------- MODULE DifftestProofs ---------------------------
(***************************************************************************)
(* Proofs about the test loop, for every program, data path and option:    *)
(* its counters keep their types, and CPU and reference stay in step for   *)
(* as long as the program keeps the rules of the pipeline.                 *)
(***************************************************************************)
EXTENDS Difftest, PipelineProofs

\* The reference decodes and computes with the operators of Isa.
LEMMA SameRef ==
    /\ Ref!Undecoded = Undecoded
    /\ \A i : Ref!Dest(i) = Dest(i)
    /\ \A i : Ref!IsLoad(i) = IsLoad(i) /\ Ref!IsStore(i) = IsStore(i)
    /\ \A i, rf : Ref!Src1(i, rf) = Src1(i, rf) /\ Ref!Src2(i, rf) = Src2(i, rf)
    /\ \A i, a, b : Ref!Branches(i, a, b) = Branches(i, a, b)
    /\ \A i, p, a, b : Ref!Result(i, p, a, b) = Result(i, p, a, b)
    /\ \A i, a, b, m : Ref!Stored(i, a, b, m) = Stored(i, a, b, m)
    /\ \A rf, r, v : Ref!Written(rf, r, v) = Written(rf, r, v)
  BY DEF Ref!Undecoded, Undecoded, Ref!Dest, Dest, Ref!RegWen, RegWen, Ref!IsLoad, IsLoad,
         Ref!IsStore, IsStore, Ref!Src1, Src1, Ref!Src2, Src2, Ref!Branches, Branches,
         Ref!Result, Result, Ref!Stored, Stored, Ref!Written, Written

\* The operands, the value and the next pc of the reference's instruction are words.
LEMMA RefTypes ==
    ASSUME DifftestTypeOK
    PROVE  /\ prog[rpc] \in Inst /\ Ref!RefInst = prog[rpc]
           /\ Ref!RefSrc1 = Src1(prog[rpc], gpr) /\ Ref!RefSrc2 = Src2(prog[rpc], gpr)
           /\ Ref!RefSrc1 \in Word /\ Ref!RefSrc2 \in Word
           /\ Ref!RefTaken = Branches(prog[rpc], Ref!RefSrc1, Ref!RefSrc2)
           /\ Ref!RefValue = IF IsLoad(prog[rpc])
                             THEN Extract(prog[rpc], Ref!RefSrc1, rmem[LineOf(prog[rpc], Ref!RefSrc1)])
                             ELSE Result(prog[rpc], rpc, Ref!RefSrc1, Ref!RefSrc2)
           /\ Ref!RefValue \in Word
  <1>1. prog[rpc] \in Inst /\ Ref!RefInst = prog[rpc]
    BY DEF DifftestTypeOK, TypeOK, Ref!RefTypeOK, Ref!RefInst
  <1>2. Ref!RefSrc1 = Src1(prog[rpc], gpr) /\ Ref!RefSrc2 = Src2(prog[rpc], gpr)
    BY <1>1, SameRef DEF Ref!RefSrc1, Ref!RefSrc2
  <1>3. Ref!RefSrc1 \in Word /\ Ref!RefSrc2 \in Word
    BY <1>1, <1>2, OperandTypes DEF DifftestTypeOK, Ref!RefTypeOK
  <1>4. Ref!RefTaken = Branches(prog[rpc], Ref!RefSrc1, Ref!RefSrc2)
    BY <1>1, SameRef DEF Ref!RefTaken
  <1>5. Ref!RefValue = IF IsLoad(prog[rpc])
                       THEN Extract(prog[rpc], Ref!RefSrc1, rmem[LineOf(prog[rpc], Ref!RefSrc1)])
                       ELSE Result(prog[rpc], rpc, Ref!RefSrc1, Ref!RefSrc2)
    BY <1>1, SameRef DEF Ref!RefValue
  <1>6. Ref!RefValue \in Word
    <2>1. rmem[LineOf(prog[rpc], Ref!RefSrc1)] \in Word /\ rpc \in Word
      BY <1>1, <1>3, UnitAssumption DEF DifftestTypeOK, Ref!RefTypeOK
    <2> QED BY <1>1, <1>3, <1>5, <2>1, UnitAssumption, ResultType
  <1> QED BY <1>1, <1>2, <1>3, <1>4, <1>5, <1>6

\* One call of step() keeps the reference's types.
LEMMA StepType ==
    ASSUME DifftestTypeOK, exited = "no", Ref!Step
    PROVE  Ref!RefTypeOK'
  <1>1. Ref!RefTypeOK /\ prog \in [Word -> Inst]
    BY DEF DifftestTypeOK, TypeOK
  <1>2. ASSUME NEW status \in {"pass", "fail", "timeout"}, Ref!Exit(status)
        PROVE  Ref!RefTypeOK'
    BY <1>1, <1>2 DEF Ref!Exit, Ref!RefTypeOK
  <1>3. CASE RvTest /\ cycle >= MaxCycle
    BY <1>2, <1>3 DEF Ref!Step
  <1>4. CASE ~(RvTest /\ cycle >= MaxCycle) /\ Ref!ExitStatus # "no"
    <2>1. Ref!ExitStatus \in {"pass", "fail", "no"}
      <3> DEFINE ecall == Ref!FetchOk /\ Ref!IsEcall /\ RvTest /\ gpr[A7] = ExitCall
                 store == /\ Ref!FetchOk /\ Ref!IsStore(Ref!RefInst) /\ RvTest
                          /\ ~Faults(Ref!RefInst, Ref!RefSrc1)
                          /\ EndsTest(Ref!RefInst, Ref!RefSrc1, Ref!RefSrc2)
      <3>1. ~(ecall /\ store)
        BY DEF Ref!IsEcall, Ref!IsStore
      <3>2. Ref!ExitStatus = CASE ecall -> IF gpr[A0] = 0 THEN "pass" ELSE "fail"
                               [] store -> "pass"
                               [] OTHER -> "no"
        BY DEF Ref!ExitStatus
      <3> QED BY <3>1, <3>2
    <2> QED BY <1>2, <1>4, <2>1 DEF Ref!Step
  <1>5. CASE ~(RvTest /\ cycle >= MaxCycle) /\ Ref!ExitStatus = "no"
    <2>1. cycle' = cycle + 1 /\ (Ref!Trap \/ Ref!Execute) /\ exited' = exited
      BY <1>5 DEF Ref!Step
    <2>2. cycle' \in Nat /\ (RvTest => cycle' <= MaxCycle)
      BY <1>1, <1>5, <2>1, RefAssumption DEF Ref!RefTypeOK
    <2>3. CASE Ref!Trap
      <3>1. debug' \in [pc : Word, rd : Reg, wdata : Word, branch : BOOLEAN]
        <4>1. Ref!RefTaken \in BOOLEAN /\ Ref!FetchOk \in BOOLEAN
          BY DEF Ref!RefTaken, Ref!FetchOk, Ref!Branches
        <4> QED BY <1>1, <2>3, <4>1, RegAssumption, WordAssumption DEF Ref!Trap, Ref!RefTypeOK
      <3>2. UNCHANGED <<gpr, rmem>> /\ rpc' \in Word
        BY <2>3, RefAssumption DEF Ref!Trap
      <3> QED BY <1>1, <2>1, <2>2, <3>1, <3>2 DEF Ref!RefTypeOK
    <2>4. CASE Ref!Execute
      <3>1. rpc' \in Word
        BY <1>1, <2>4, RefTypes, UnitAssumption, PcAssumption DEF Ref!Execute, Ref!RefTypeOK
      <3>2. gpr' \in [Reg -> Word]
        BY <1>1, <2>4, RefTypes, SameRef, DestType, WrittenType DEF Ref!Execute, Ref!RefTypeOK
      <3>3. rmem' \in [Line -> Word]
        BY <1>1, <2>4, RefTypes, SameRef, StoredType DEF Ref!Execute, Ref!RefTypeOK
      <3>4. debug' \in [pc : Word, rd : Reg, wdata : Word, branch : BOOLEAN]
        <4>1. Ref!RefTaken \in BOOLEAN
          BY DEF Ref!RefTaken, Ref!Branches
        <4> QED BY <1>1, <2>4, <4>1, RefTypes, SameRef, DestType DEF Ref!Execute, Ref!RefTypeOK
      <3> QED BY <1>1, <2>1, <2>2, <3>1, <3>2, <3>3, <3>4 DEF Ref!RefTypeOK
    <2> QED BY <2>1, <2>3, <2>4
  <1> QED BY <1>3, <1>4, <1>5
-----------------------------------------------------------------------------
(* The loop moves the CPU by clock edges, or not at all. *)

\* Seen from the CPU an iteration is a clock edge or nothing.
LEMMA LoopClocks == [DifftestNext]_allVars => [Next]_vars
  BY DEF DifftestNext, RisingEdge, OtherEdge, Ended, allVars, dutVars, vars, Next

\* So the invariant of the pipeline holds in the loop as well.
LEMMA PipelineInLoop == DifftestSpec => []PipelineInv
  <1>1. DifftestInit => PipelineInv
    BY InitInv DEF DifftestInit
  <1>2. PipelineInv /\ [DifftestNext]_allVars => PipelineInv'
    BY NextInv, LoopClocks
  <1> QED BY <1>1, <1>2, PTL DEF DifftestSpec

\* What the debug port shows comes out of the memory stage, where no ecall gets, and
\* once it has shown an instruction it shows one at every clock edge.
LEMMA WhatCommits ==
    ASSUME PipelineInv, Clock
    PROVE  /\ wb' = [valid |-> mem.valid, pc |-> mem.pc, inst |-> mem.inst, wdata |-> MemResult]
           /\ regs' = Committed
           /\ wb.valid => mem.valid
  BY DEF PipelineInv, NoEcallInMem, BubblesAreInert, Clock, WriteBackStage, ARegFile, Committed
-----------------------------------------------------------------------------
(* Types and counters. *)

TypeInv == DifftestTypeOK /\ CountersInv

\* What is known of the code in memory changes at rising edges only.
LEMMA CodeType ==
    CodeTypeOK /\ [DifftestNext]_allVars => CodeTypeOK' /\ (codeKept' => codeKept)
  <1> SUFFICES ASSUME CodeTypeOK, [DifftestNext]_allVars
               PROVE  CodeTypeOK' /\ (codeKept' => codeKept)
    OBVIOUS
  <1>1. CASE RisingEdge
    <2>1. overwritten' \subseteq Line
      BY <1>1 DEF RisingEdge, WatchCode, CodeTypeOK
    <2>2. codeKept' \in BOOLEAN /\ (codeKept' => codeKept)
      BY <1>1, Zenon DEF RisingEdge, WatchCode, CodeTypeOK
    <2> QED BY <2>1, <2>2 DEF CodeTypeOK
  <1>2. CASE OtherEdge \/ UNCHANGED allVars
    BY <1>2 DEF OtherEdge, allVars, history, CodeTypeOK
  <1> QED BY <1>1, <1>2 DEF DifftestNext, Ended

\* The loop starts with its locals initialised (sim_mycpu.cpp:114-118).
LEMMA InitTypeInv == DifftestInit => TypeInv
  <1> SUFFICES ASSUME DifftestInit PROVE TypeInv
    OBVIOUS
  <1>1. TypeOK /\ Init
    BY InitType DEF DifftestInit
  <1>2. Ref!RefTypeOK
    <2>1. gpr \in [Reg -> Word]
      BY RefAssumption, WordAssumption DEF DifftestInit, Ref!RefInit
    <2>2. debug \in [pc : Word, rd : Reg, wdata : Word, branch : BOOLEAN]
      BY RegAssumption, WordAssumption DEF DifftestInit, Ref!RefInit
    <2>3. cycle = 0 /\ rpc = PcInit /\ exited = "no" /\ rmem \in [Line -> Word]
      BY <1>1 DEF DifftestInit, Ref!RefInit, TypeOK
    <2> QED BY <2>1, <2>2, <2>3, RefAssumption, WordAssumption DEF Ref!RefTypeOK
  <1>3. options \in CommandLines
    BY <1>1, HarnessAssumption DEF DifftestInit, Init
  <1>4. recent \in Reg \X Reg \X Reg
    BY RegAssumption DEF DifftestInit
  <1>5. clean \in BOOLEAN
    BY DEF DifftestInit
  <1>6. /\ {SimTime, ResetTicks} \subseteq Nat \ {0} /\ Delay \in Nat /\ Delay >= 10
        /\ CommitTimeout \in Nat /\ CommitTimeout > 0
    BY HarnessAssumption
  <1>7. CountersTypeOK
    BY <1>3, <1>4, <1>6 DEF DifftestInit, CountersTypeOK
  <1>9. FlagsTypeOK
    BY <1>5, Zenon DEF DifftestInit, FlagsTypeOK
  <1>8. CountersInv
    BY <1>6 DEF DifftestInit, CountersInv
  <1>10. CodeTypeOK
    BY DEF DifftestInit, CodeTypeOK
  <1> QED BY <1>1, <1>2, <1>7, <1>8, <1>9, <1>10 DEF TypeInv, DifftestTypeOK

\* Giving up a mismatch keeps the budget, and ends the run before it is overdrawn.
LEMMA TolerateBudget ==
    ASSUME TypeInv, running, Tolerate
    PROVE  /\ delay' \in -1..Delay /\ running' \in BOOLEAN
           /\ running' => delay' >= 0
           /\ running' /\ DumpPcHistory /\ delay' < 10 => delay' % 2 = 1
  <1>1. delay \in 0..Delay /\ Delay \in Nat
    BY HarnessAssumption DEF TypeInv, DifftestTypeOK, CountersTypeOK, FlagsTypeOK, CountersInv
  <1>2. DumpPcHistory /\ delay < 10 => delay % 2 = 1
    BY DEF TypeInv, CountersInv
  <1>3. CASE ~ShouldDelay
    <2>1. running' = FALSE /\ delay' = delay
      BY <1>3 DEF Tolerate
    <2>2. delay' \in -1..Delay
      BY <1>1, <2>1
    <2>3. ~running' /\ running' \in BOOLEAN
      BY <2>1, Zenon
    <2> QED BY <2>2, <2>3
  <1>4. CASE ShouldDelay /\ DumpPcHistory /\ delay = 10
    <2>1. delay' = 9 /\ running' = running
      BY <1>4 DEF Tolerate
    <2> QED BY <1>1, <1>4, <2>1 DEF TypeInv, DifftestTypeOK, FlagsTypeOK
  <1>5. CASE ShouldDelay /\ DumpPcHistory /\ delay # 10
    <2>1. delay' = delay - 1 - 1 /\ running' = (running /\ delay - 1 # 0)
      BY <1>5 DEF Tolerate
    <2>2. delay' = delay - 2
      BY <1>1, <2>1
    <2>5. running' \in BOOLEAN /\ (running' => delay - 1 # 0)
      BY <2>1, Zenon
    <2>3. delay # 0
      BY <1>2, <1>5
    <2>4. delay' < 10 => delay' % 2 = 1
      <3>1. delay < 10 \/ delay = 11 \/ delay >= 12
        BY <1>1, <1>5
      <3> QED BY <1>1, <1>2, <1>5, <2>2, <3>1
    <2>6. delay' \in -1..Delay /\ (delay - 1 # 0 => delay' >= 0)
      BY <1>1, <2>2, <2>3
    <2> QED BY <2>4, <2>5, <2>6
  <1>6. CASE ShouldDelay /\ ~DumpPcHistory
    <2>1. delay' = delay - 1 /\ running' = (running /\ delay # 0)
      BY <1>6 DEF Tolerate
    <2>2. running' \in BOOLEAN /\ (running' => delay # 0)
      BY <2>1, Zenon
    <2>3. delay' \in -1..Delay /\ (delay # 0 => delay' >= 0)
      BY <1>1, <2>1
    <2> QED BY <1>6, <2>2, <2>3
  <1> QED BY <1>3, <1>4, <1>5, <1>6

\* Two slots are counted down, and the counter stays off without -hasdelayslot.
LEMMA SlotsCounted ==
    ASSUME TypeInv, CountSlots
    PROVE  slots' \in 0..2 /\ armed' \in BOOLEAN /\ (slots' > 0 => HasDelaySlot /\ ~armed')
  <1>1. slots \in 0..2 /\ armed \in BOOLEAN /\ (slots > 0 => HasDelaySlot /\ ~armed)
    BY DEF TypeInv, DifftestTypeOK, CountersTypeOK, FlagsTypeOK, CountersInv
  <1>2. CASE ~HasDelaySlot
    BY <1>1, <1>2 DEF CountSlots
  <1>3. CASE HasDelaySlot /\ debug'.branch /\ (armed \/ slots = 0)
    <2>1. slots' = 2 /\ armed' = FALSE
      BY <1>3 DEF CountSlots
    <2>2. slots' \in 0..2
      BY <2>1
    <2> QED BY <1>3, <2>1, <2>2, Zenon
  <1>4. CASE HasDelaySlot /\ ~(debug'.branch /\ (armed \/ slots = 0))
    <2>1. /\ slots' = IF slots > 0 THEN slots - 1 ELSE 0
          /\ armed' = (armed \/ slots = 0)
      BY <1>4 DEF CountSlots
    <2> QED BY <1>1, <1>4, <2>1
  <1> QED BY <1>2, <1>3, <1>4

\* The reference and the iterations counted do not disturb the rest.
LEMMA CountType ==
    ASSUME TypeInv, Continues, Count
    PROVE  clock' \in BOOLEAN /\ resetLeft' \in 0..ResetTicks /\ simTime' \in 0..SimTime
  <1>1. clock' \in BOOLEAN
    BY DEF Count
  <1>2. resetLeft \in 0..ResetTicks /\ simTime \in 1..SimTime
    BY HarnessAssumption DEF TypeInv, DifftestTypeOK, CountersTypeOK, Continues
  <1>3. resetLeft' \in 0..ResetTicks /\ simTime' \in 0..SimTime
    BY <1>2, HarnessAssumption DEF Count
  <1> QED BY <1>1, <1>3

\* A commit keeps types and counters.
LEMMA RetireType ==
    ASSUME TypeInv, TypeOK', CodeTypeOK', RisingEdge, Retire
    PROVE  TypeInv'
  <1>1. /\ DifftestTypeOK /\ CountersTypeOK /\ FlagsTypeOK /\ CountersInv
        /\ running /\ exited = "no" /\ options' = options
    BY DEF RisingEdge, Continues, TypeInv, DifftestTypeOK
  <1>2. Ref!RefTypeOK'
    BY <1>1, StepType DEF Retire, refVars, DifftestTypeOK, Ref!RefTypeOK
  <1>3. clock' \in BOOLEAN /\ resetLeft' \in 0..ResetTicks /\ simTime' \in 0..SimTime
    BY CountType DEF RisingEdge
  <1>4. recent' \in Reg \X Reg \X Reg
    BY <1>1, RefTypes, DestType, RegAssumption DEF Retire, Observe, CountersTypeOK
  <1>5. clean' \in BOOLEAN
    BY <1>1, Zenon DEF Retire, Observe, FlagsTypeOK
  <1>6. (HasDelaySlot <=> HasDelaySlot') /\ (DumpPcHistory <=> DumpPcHistory')
    BY <1>1 DEF HasDelaySlot, DumpPcHistory
  <1>7. CASE exited' # "no"
    <2>1. UNCHANGED <<running, delay, mismatched, slots, armed, idle, stuck>>
      BY <1>1, <1>7 DEF Retire
    <2>2. CountersTypeOK'
      BY <1>1, <1>3, <1>4, <2>1 DEF CountersTypeOK
    <2>3. FlagsTypeOK'
      BY <1>1, <1>3, <1>5, <2>1 DEF FlagsTypeOK
    <2>4. CountersInv'
      BY <1>1, <1>6, <2>1 DEF CountersInv
    <2> QED BY <1>2, <2>2, <2>3, <2>4 DEF TypeInv, DifftestTypeOK
  <1>8. CASE exited' = "no"
    <2>1. slots' \in 0..2 /\ armed' \in BOOLEAN /\ (slots' > 0 => HasDelaySlot /\ ~armed')
      BY <1>8, SlotsCounted DEF Retire
    <2>2. /\ delay' \in -1..Delay /\ running' \in BOOLEAN /\ mismatched' \in BOOLEAN
          /\ running' => delay' >= 0
          /\ running' /\ DumpPcHistory /\ delay' < 10 => delay' % 2 = 1
      <3>1. Compare
        BY <1>8 DEF Retire
      <3>2. CASE Differs
        <4>1. Tolerate /\ mismatched' = TRUE
          BY <3>1, <3>2 DEF Compare
        <4> QED BY <1>1, <4>1, TolerateBudget
      <3>3. CASE ~Differs
        <4>1. UNCHANGED <<running, delay, mismatched>>
          BY <3>1, <3>3 DEF Compare
        <4> QED BY <1>1, <4>1 DEF CountersTypeOK, FlagsTypeOK, CountersInv
      <3> QED BY <3>2, <3>3
    <2>3. idle' = 1 /\ stuck' = stuck /\ CommitTimeout \in Nat /\ CommitTimeout > 1
      BY <1>8, HarnessAssumption DEF Retire
    <2>4. CountersTypeOK'
      BY <1>1, <1>3, <1>4, <2>1, <2>2, <2>3 DEF CountersTypeOK
    <2>5. FlagsTypeOK'
      BY <1>1, <1>3, <1>5, <2>1, <2>2, <2>3 DEF FlagsTypeOK
    <2>6. CountersInv'
      BY <1>6, <2>1, <2>2, <2>3 DEF CountersInv
    <2> QED BY <1>2, <2>4, <2>5, <2>6 DEF TypeInv, DifftestTypeOK
  <1> QED BY <1>7, <1>8

\* So does an iteration without one: the counter of idle iterations ends the run
\* before it passes its limit.
LEMMA NoRetireType ==
    ASSUME TypeInv, TypeOK', CodeTypeOK', Continues, Count, NoRetire, UNCHANGED options
    PROVE  TypeInv'
  <1>1. /\ CountersTypeOK /\ FlagsTypeOK /\ CountersInv /\ Ref!RefTypeOK
        /\ running /\ idle \in Nat /\ idle < CommitTimeout /\ CommitTimeout \in Nat
    BY HarnessAssumption
       DEF TypeInv, DifftestTypeOK, CountersTypeOK, Continues, CountersInv
  <1>2. clock' \in BOOLEAN /\ resetLeft' \in 0..ResetTicks /\ simTime' \in 0..SimTime
    BY CountType
  <1>3. idle' \in 0..CommitTimeout
    BY <1>1 DEF NoRetire
  <1>4. stuck' = (idle' >= CommitTimeout) /\ running' = ~stuck'
    BY DEF NoRetire
  <1>5. stuck' \in BOOLEAN /\ running' \in BOOLEAN /\ (running' => ~(idle' >= CommitTimeout))
    <2> DEFINE over == idle' >= CommitTimeout
    <2>1. over \in BOOLEAN /\ stuck' = over /\ running' = ~stuck'
      BY <1>4
    <2> HIDE DEF over
    <2>2. stuck' \in BOOLEAN /\ running' \in BOOLEAN /\ (running' => ~over)
      BY <2>1, Zenon
    <2> QED BY <2>2 DEF over
  <1>6. UNCHANGED <<refVars, slots, armed, delay, mismatched, recent, clean>>
    BY DEF NoRetire
  <1>7. (HasDelaySlot <=> HasDelaySlot') /\ (DumpPcHistory <=> DumpPcHistory')
    BY DEF HasDelaySlot, DumpPcHistory
  <1>8. CountersTypeOK'
    BY <1>1, <1>2, <1>3, <1>6 DEF CountersTypeOK
  <1>9. FlagsTypeOK'
    BY <1>1, <1>2, <1>5, <1>6 DEF FlagsTypeOK
  <1>10. CountersInv'
    <2>1. running' => idle' < CommitTimeout
      BY <1>1, <1>3, <1>5
    <2> QED BY <1>1, <1>6, <1>7, <2>1 DEF CountersInv
  <1>11. Ref!RefTypeOK'
    BY <1>1, <1>6 DEF refVars, Ref!RefTypeOK
  <1> QED BY <1>8, <1>9, <1>10, <1>11 DEF TypeInv, DifftestTypeOK

\* Every iteration keeps types and counters.
LEMMA NextTypeInv == TypeInv /\ [DifftestNext]_allVars => TypeInv'
  <1> SUFFICES ASSUME TypeInv, [DifftestNext]_allVars PROVE TypeInv'
    OBVIOUS
  <1>1. TypeOK' /\ CodeTypeOK'
    BY LoopClocks, NextType, CodeType DEF TypeInv, DifftestTypeOK
  <1>2. CASE RisingEdge
    BY <1>1, <1>2, RetireType, NoRetireType DEF RisingEdge
  <1>3. CASE OtherEdge
    BY <1>1, <1>3, NoRetireType DEF OtherEdge
  <1>4. CASE UNCHANGED allVars
    <2>1. Ref!RefTypeOK' /\ CountersTypeOK' /\ FlagsTypeOK'
      BY <1>4 DEF allVars, refVars, history, TypeInv, DifftestTypeOK, CountersTypeOK,
                  FlagsTypeOK, Ref!RefTypeOK
    <2>2. CountersInv'
      BY <1>4 DEF allVars, TypeInv, CountersInv, HasDelaySlot, DumpPcHistory
    <2> QED BY <1>1, <2>1, <2>2 DEF TypeInv, DifftestTypeOK
  <1> QED BY <1>2, <1>3, <1>4 DEF DifftestNext, Ended

LEMMA LoopTypes == DifftestSpec => []TypeInv
  BY InitTypeInv, NextTypeInv, PTL DEF DifftestSpec

\* CPU, reference and loop keep their types, whatever the program and the options.
THEOREM DifftestTypesCorrect == DifftestSpec => []DifftestTypeOK
  BY LoopTypes, PTL DEF TypeInv

\* With -delay the run has ended when the budget is overdrawn: it gets odd where -pc
\* counts double, and so meets zero (sim_mycpu.cpp:180-183).
THEOREM BudgetIsKept == DifftestSpec => []BudgetEndsTheRun
  <1>1. TypeInv => BudgetEndsTheRun
    <2> SUFFICES ASSUME TypeInv, delay < 0, running PROVE FALSE
      BY DEF BudgetEndsTheRun
    <2>1. delay >= 0 /\ delay \in -1..Delay /\ Delay \in Nat
      BY HarnessAssumption DEF TypeInv, CountersInv, DifftestTypeOK, CountersTypeOK
    <2> QED BY <2>1
  <1> QED BY <1>1, LoopTypes, PTL
-----------------------------------------------------------------------------
(* What is reported and what is not. *)

\* Instructions travel with their pcs into execute, memory and write-back as well.
LEMMA StagesStep == PipelineInv /\ StagesMatchPc /\ [Next]_vars => StagesMatchPc'
  <1> SUFFICES ASSUME PipelineInv, StagesMatchPc, [Next]_vars PROVE StagesMatchPc'
    OBVIOUS
  <1>1. CASE UNCHANGED vars
    BY <1>1 DEF vars, StagesMatchPc
  <1>2. CASE Clock
    <2>1. prog' = prog /\ (id.valid => id.inst = prog[id.pc])
      BY <1>2 DEF Clock, PipelineInv, InstMatchesPc
    <2>2. ex'.valid => ex'.inst = prog[ex'.pc]
      BY <1>2, <2>1 DEF Clock, ExecuteStage
    <2>3. mem'.valid => mem'.inst = prog[mem'.pc]
      BY <1>2, <2>1 DEF Clock, MemoryStage, StagesMatchPc
    <2>4. wb'.valid => wb'.inst = prog[wb'.pc]
      BY <1>2, <2>1, WhatCommits DEF StagesMatchPc
    <2> QED BY <2>1, <2>2, <2>3, <2>4 DEF StagesMatchPc
  <1> QED BY <1>1, <1>2 DEF Next

\* A step of the reference after which the test goes on executes an instruction or traps.
LEMMA StepGoesOn ==
    ASSUME Ref!Step, exited = "no", exited' = "no"
    PROVE  Ref!ExitStatus = "no" /\ IF Ref!Traps THEN Ref!Trap ELSE Ref!Execute
  BY DEF Ref!Step, Ref!Exit

\* What the invariants below rest on.
BaseInv == PipelineInv /\ StagesMatchPc /\ TypeInv

LEMMA BaseStep == BaseInv /\ [DifftestNext]_allVars => BaseInv'
  BY LoopClocks, NextInv, StagesStep, NextTypeInv DEF BaseInv

LEMMA BaseInit == DifftestInit => BaseInv
  <1>1. DifftestInit => StagesMatchPc
    BY DEF DifftestInit, Init, StagesMatchPc
  <1> QED BY <1>1, InitInv, InitTypeInv DEF BaseInv, DifftestInit

\* A commit that is not reported leaves the register files as they should be.
LEMMA SilentCommitIsRight ==
    ASSUME BaseInv, ComparisonIsSound, RisingEdge, wb'.valid, Retire, StagesMatchPc',
           ~HasDelaySlot, codeKept, ~mismatched', exited' = "no", rpc' # TrapPc
    PROVE  gpr' = Written(regs', Dest(wb'.inst), wb'.wdata)
  <1>1. exited = "no" /\ Ref!Step /\ Compare
    BY DEF RisingEdge, Continues, Retire, RefSteps
  <1>2. ~Differs /\ ~mismatched
    BY <1>1 DEF Compare
  <1>3. ~Ref!Traps /\ Ref!Execute
    BY <1>1, StepGoesOn DEF Ref!Trap
  <1>4. rpc # TrapPc
    BY <1>3, RefAssumption DEF Ref!Traps, Ref!FetchOk
  <1>5. gpr = Committed
    BY <1>1, <1>2, <1>4 DEF ComparisonIsSound, Committed
  <1>6. regs' = gpr
    BY <1>5, WhatCommits DEF BaseInv, RisingEdge
  <1>7. /\ prog[rpc] \in Inst /\ prog' = prog
        /\ gpr' = Written(gpr, Dest(prog[rpc]), Ref!RefValue)
        /\ debug' = [pc |-> rpc, rd |-> Dest(prog[rpc]), wdata |-> Ref!RefValue,
                     branch |-> Ref!RefTaken]
    BY <1>3, RefTypes, SameRef DEF Ref!Execute, BaseInv, TypeInv, RisingEdge, Clock
  <1>8. slots = 0
    <2>1. slots \in 0..2 /\ ~(slots > 0)
      BY DEF BaseInv, TypeInv, DifftestTypeOK, CountersTypeOK, CountersInv
    <2> QED BY <2>1
  <1>9. /\ wb'.pc = rpc
        /\ Dest(prog[rpc]) # 0 => wb'.wdata = Ref!RefValue
    BY <1>2, <1>7, <1>8 DEF Differs
  <1>10. wb'.inst = prog[rpc]
    BY <1>7, <1>9 DEF StagesMatchPc
  <1> QED BY <1>6, <1>7, <1>9, <1>10 DEF Written

\* Every iteration keeps the comparison sound.
LEMMA ComparisonStep ==
    BaseInv /\ ComparisonIsSound /\ [DifftestNext]_allVars => ComparisonIsSound'
  <1> SUFFICES ASSUME BaseInv, ComparisonIsSound, [DifftestNext]_allVars,
                      ~HasDelaySlot', codeKept', ~mismatched', exited' = "no",
                      rpc' # TrapPc
               PROVE  gpr' = IF wb'.valid THEN Written(regs', Dest(wb'.inst), wb'.wdata)
                             ELSE regs'
    BY DEF ComparisonIsSound
  <1>1. StagesMatchPc'
    BY BaseStep DEF BaseInv
  <1>2. ~HasDelaySlot /\ codeKept
    BY CodeType DEF BaseInv, TypeInv, DifftestTypeOK,
                    HasDelaySlot, DifftestNext, RisingEdge, OtherEdge, Ended, allVars
  <1>3. CASE RisingEdge /\ wb'.valid
    BY <1>1, <1>2, <1>3, SilentCommitIsRight DEF RisingEdge
  <1>4. CASE RisingEdge /\ ~wb'.valid
    <2>1. UNCHANGED <<rpc, gpr, exited, mismatched>>
      BY <1>4 DEF RisingEdge, NoRetire, refVars
    <2>2. gpr = Committed
      BY <1>2, <2>1 DEF ComparisonIsSound, Committed
    <2>3. regs' = Committed
      BY <1>4, WhatCommits DEF RisingEdge, BaseInv
    <2> QED BY <1>4, <2>1, <2>2, <2>3
  <1>5. CASE OtherEdge \/ UNCHANGED allVars
    <2>1. UNCHANGED <<rpc, gpr, exited, mismatched, wb, regs>>
      BY <1>5 DEF OtherEdge, NoRetire, refVars, dutVars, allVars, history
    <2> QED BY <1>2, <2>1 DEF ComparisonIsSound
  <1> QED BY <1>3, <1>4, <1>5 DEF DifftestNext, Ended

\* Without -initgprs, comparing the writes of each commit has been enough: where nothing
\* was reported the register files agree, whichever rules of the pipeline the program
\* broke, as long as it has run no code it has changed (sim_mycpu.cpp:165-168).
THEOREM ComparisonSound ==
    ASSUME ~InitGprs
    PROVE  DifftestSpec => []ComparisonIsSound
  <1>1. DifftestInit => ComparisonIsSound
    BY ~InitGprs DEF DifftestInit, Init, Ref!RefInit, ComparisonIsSound
  <1> QED BY <1>1, BaseInit, BaseStep, ComparisonStep, PTL DEF DifftestSpec
-----------------------------------------------------------------------------
(* CPU and reference stay in step. *)

\* The stages fill from the front.
LEMMA StagesFill ==
    ASSUME BaseInv
    PROVE  /\ mem.valid => ex.valid
           /\ ex.valid => id.valid
           /\ id.valid => fstate = "receive"
           /\ ~id.valid => id.inst = Undecoded
           /\ ~ex.valid => ex.inst = Undecoded
  BY DEF BaseInv, PipelineInv, BubblesAreInert

\* The registers before the write that commits, from those after it.
LEMMA UndoCommit ==
    ASSUME BaseInv, Clock, recent[3] = IF wb.valid THEN Dest(wb.inst) ELSE 0
    PROVE  \E z \in Word : Written(regs', recent[3], z) = regs
  <1>1. regs \in [Reg -> Word] /\ recent[3] \in Reg
    BY DEF BaseInv, TypeInv, DifftestTypeOK, TypeOK, CountersTypeOK
  <1>2. regs' = IF recent[3] = 0 THEN regs ELSE [regs EXCEPT ![recent[3]] = wb.wdata]
    BY WhatCommits DEF BaseInv, Committed, Written
  <1>3. regs[recent[3]] \in Word /\ Written(regs', recent[3], regs[recent[3]]) = regs
    BY <1>1, <1>2 DEF Written
  <1> QED BY <1>3

\* What is read in decode has been read with one write outstanding, after the edge.
LEMMA DecodeInFlight ==
    ASSUME BaseInv, Clock, recent[3] = IF wb.valid THEN Dest(wb.inst) ELSE 0,
           recent'[2] = recent[3]
    PROVE  ExInFlight'
  <1>1. ex'.src1 = Src1(ex'.inst, regs) /\ ex'.src2 = Src2(ex'.inst, regs)
    BY DEF Clock, ExecuteStage
  <1>2. PICK z \in Word : Written(regs', recent[3], z) = regs
    BY UndoCommit
  <1> QED BY <1>1, <1>2 DEF ExInFlight, ReadByEx

\* An instruction that leaves execute has had its effects: they are those on the memory
\* of the reference, once that has done what commits.
LEMMA ExecuteInFlight ==
    ASSUME BaseInv, Clock, recent[3] = IF wb.valid THEN Dest(wb.inst) ELSE 0,
           recent'[2] = recent[3], recent'[1] = recent[2],
           ExInFlight, ex.valid, ex.inst.fusel # "csr", dmem = rmem'
    PROVE  MemInFlight'
  <1> DEFINE i == ex.inst
  <1>1. PICK y \in Word : ex.src1 = Src1(i, ReadByEx(y)) /\ ex.src2 = Src2(i, ReadByEx(y))
    BY DEF ExInFlight
  <1>2. mem' = [valid |-> TRUE, pc |-> ex.pc, inst |-> i, src1 |-> ex.src1, wdata |-> FuResult]
    <2>1. i \in Inst /\ ex.valid = TRUE
      BY DEF BaseInv, PipelineInv, TypeOK
    <2> QED BY <2>1, InstFields DEF Clock, MemoryStage, Latched
  <1>3. PICK z \in Word : Written(regs', recent[3], z) = regs
    BY UndoCommit
  <1>4. i.fusel # "lsu" => mem'.wdata = Result(i, ex.pc, ex.src1, ex.src2)
    BY <1>2 DEF FuResult
  <1>5. dmem' = IF IsStore(i) THEN Stored(i, ex.src1, ex.src2, rmem') ELSE rmem'
    BY DEF Clock, DataChannel, DmemNext
  <1>6. pc' = IF Branches(i, ex.src1, ex.src2) THEN Target(i, ex.pc, ex.src1) ELSE NextPc(id'.pc)
    BY StagesFill DEF Clock, Fetch, DecodeStage, InstAddr, BranchTaken
  <1> DEFINE rf == ReadByMem(y, z)'
  <1>7. rf = ReadByEx(y)
    BY <1>3 DEF ReadByMem, ReadByEx
  <1>8. /\ mem'.inst = i /\ mem'.pc = ex.pc /\ mem'.src1 = Src1(i, rf)
        /\ ex.src1 = Src1(i, rf) /\ ex.src2 = Src2(i, rf)
    BY <1>1, <1>2, <1>7
  <1> HIDE DEF i
  <1>9. \E u, v \in Word :
           LET s == Src1(mem'.inst, ReadByMem(u, v)')
               t == Src2(mem'.inst, ReadByMem(u, v)')
           IN  /\ mem'.src1 = s
               /\ mem'.inst.fusel # "lsu" => mem'.wdata = Result(mem'.inst, mem'.pc, s, t)
               /\ dmem' = IF IsStore(mem'.inst) THEN Stored(mem'.inst, s, t, rmem') ELSE rmem'
               /\ pc' = IF Branches(mem'.inst, s, t) THEN Target(mem'.inst, mem'.pc, s)
                        ELSE NextPc(id'.pc)
    <2> WITNESS y \in Word, z \in Word
    <2> QED BY <1>4, <1>5, <1>6, <1>8
  <1> QED BY <1>9 DEF MemInFlight, ReadByMem, ReadByEx

\* The instruction in memory has read what the reference reads, if it keeps the rules:
\* x and y stand in registers it does not look at.
LEMMA SameOperands ==
    ASSUME BaseInv, gpr = Committed, recent[3] = IF wb.valid THEN Dest(wb.inst) ELSE 0,
           KeepsRules, NEW x \in Word, NEW y \in Word
    PROVE  /\ ReadByMem(x, y) \in [Reg -> Word]
           /\ \A r \in Reads(prog[rpc]) \cup {0} : ReadByMem(x, y)[r] = gpr[r]
  <1>1. /\ regs \in [Reg -> Word] /\ gpr \in [Reg -> Word]
        /\ recent[1] \in Reg /\ recent[2] \in Reg /\ recent[3] \in Reg
        /\ prog[rpc] \in Inst
    BY RefTypes DEF BaseInv, TypeInv, DifftestTypeOK, TypeOK, CountersTypeOK, Ref!RefTypeOK
  <1>2. \A r \in Reads(prog[rpc]) \cup {0} :
           /\ r \in Reg
           /\ recent[1] # 0 => r # recent[1]
           /\ recent[2] # 0 => r # recent[2]
           /\ recent[3] # 0 => r # recent[3]
    BY <1>1, InstFields, RegAssumption DEF KeepsRules, Reads
  <1>3. gpr = IF recent[3] = 0 THEN regs ELSE [regs EXCEPT ![recent[3]] = wb.wdata]
    BY DEF Committed, Written
  <1>4. ReadByMem(x, y) \in [Reg -> Word]
    BY <1>1 DEF ReadByMem, ReadByEx, Written
  <1>5. \A r \in Reads(prog[rpc]) \cup {0} : gpr[r] = regs[r]
    BY <1>1, <1>2, <1>3
  <1>6. \A r \in Reads(prog[rpc]) \cup {0} : ReadByMem(x, y)[r] = regs[r]
    BY <1>1, <1>2 DEF ReadByMem, ReadByEx, Written
  <1> QED BY <1>4, <1>5, <1>6

\* So what it writes to its register, to memory and to the fetch is what the reference
\* does in its place.
LEMMA SameInstruction ==
    ASSUME BaseInv, gpr = Committed, recent[3] = IF wb.valid THEN Dest(wb.inst) ELSE 0,
           KeepsRules, mem.valid, mem.pc = rpc, MemInFlight
    PROVE  /\ mem.inst = prog[rpc]
           /\ Dest(prog[rpc]) # 0 => MemResult = Ref!RefValue
           /\ dmem = IF IsStore(prog[rpc])
                     THEN Stored(prog[rpc], Ref!RefSrc1, Ref!RefSrc2, rmem) ELSE rmem
           /\ pc = IF Ref!RefTaken THEN Target(prog[rpc], rpc, Ref!RefSrc1) ELSE NextPc(id.pc)
  <1> DEFINE i == prog[rpc]
             c == Ref!RefSrc1
             d == Ref!RefSrc2
  <1>1. mem.inst = i /\ i \in Inst /\ rpc \in Word
    BY RefTypes DEF BaseInv, StagesMatchPc, TypeInv, DifftestTypeOK, Ref!RefTypeOK
  <1>2. PICK x, y \in Word :
           /\ mem.src1 = Src1(i, ReadByMem(x, y))
           /\ i.fusel # "lsu" =>
                 mem.wdata = Result(i, rpc, Src1(i, ReadByMem(x, y)), Src2(i, ReadByMem(x, y)))
           /\ dmem = IF IsStore(i)
                     THEN Stored(i, Src1(i, ReadByMem(x, y)), Src2(i, ReadByMem(x, y)), rmem)
                     ELSE rmem
           /\ pc = IF Branches(i, Src1(i, ReadByMem(x, y)), Src2(i, ReadByMem(x, y)))
                   THEN Target(i, rpc, Src1(i, ReadByMem(x, y))) ELSE NextPc(id.pc)
    BY <1>1 DEF MemInFlight
  <1> DEFINE a == Src1(i, ReadByMem(x, y))
             b == Src2(i, ReadByMem(x, y))
  <1>3. /\ c = Src1(i, gpr) /\ d = Src2(i, gpr) /\ gpr \in [Reg -> Word]
        /\ Ref!RefTaken = Branches(i, c, d)
        /\ Ref!RefValue = IF IsLoad(i) THEN Extract(i, c, rmem[LineOf(i, c)])
                          ELSE Result(i, rpc, c, d)
    BY RefTypes DEF BaseInv, TypeInv, DifftestTypeOK, Ref!RefTypeOK
  <1> HIDE DEF i, a, b, c, d
  <1>4. /\ Result(i, rpc, a, b) = Result(i, rpc, c, d)
        /\ Branches(i, a, b) = Branches(i, c, d)
        /\ Branches(i, a, b) => Target(i, rpc, a) = Target(i, rpc, c)
        /\ IsLoad(i) => a = c
        /\ IsStore(i) => a = c /\ b = d
    <2>1. a = Src1(i, ReadByMem(x, y)) /\ b = Src2(i, ReadByMem(x, y))
      BY DEF a, b
    <2>2. /\ ReadByMem(x, y) \in [Reg -> Word]
          /\ \A r \in Reads(i) \cup {0} : ReadByMem(x, y)[r] = gpr[r]
      BY SameOperands DEF i
    <2> QED BY <1>1, <1>3, <2>1, <2>2, OnlyReadsMatter
  <1>5. Dest(i) # 0 => MemResult = Ref!RefValue
    <2>1. CASE IsLoad(i)
      <3>1. drdata = dmem[LineOf(i, mem.src1)] /\ MemResult = Extract(i, mem.src1, drdata)
        BY <1>1, <2>1 DEF BaseInv, PipelineInv, LoadDataFresh, MemResult
      <3>2. mem.src1 = c /\ dmem = rmem
        BY <1>2, <1>4, <2>1 DEF a, IsLoad, IsStore
      <3> QED BY <1>3, <2>1, <3>1, <3>2
    <2>2. CASE IsStore(i)
      BY <2>2 DEF IsStore, Dest, RegWen
    <2>3. CASE ~IsLoad(i) /\ ~IsStore(i)
      <3>1. i.fusel # "lsu"
        BY <1>1, <2>3, InstFields DEF IsLoad, IsStore
      <3>2. MemResult = mem.wdata
        BY <1>1, <2>3 DEF MemResult
      <3> QED BY <1>2, <1>3, <1>4, <2>3, <3>1, <3>2 DEF a, b
    <2> QED BY <2>1, <2>2, <2>3
  <1>6. dmem = IF IsStore(i) THEN Stored(i, c, d, rmem) ELSE rmem
    BY <1>2, <1>4 DEF a, b
  <1>7. pc = IF Ref!RefTaken THEN Target(i, rpc, c) ELSE NextPc(id.pc)
    BY <1>2, <1>3, <1>4 DEF a, b
  <1> QED BY <1>1, <1>5, <1>6, <1>7 DEF i, c, d
-----------------------------------------------------------------------------
(* A commit, while CPU and reference are in step and the program keeps the rules. *)

Committing == /\ BaseInv /\ InStep
              /\ RisingEdge /\ wb'.valid /\ Retire
              /\ Ruled' /\ exited' = "no"

\* Nothing has been reported, and the CPU is ahead by what is in its stages.
LEMMA BeforeCommit ==
    ASSUME Committing
    PROVE  /\ Clock /\ Compare /\ CountSlots /\ exited = "no" /\ ~mismatched
           /\ RefSteps => KeepsRules /\ Ref!Step
           /\ ~RefSteps => UNCHANGED refVars
           /\ gpr = Committed /\ recent[3] = IF wb.valid THEN Dest(wb.inst) ELSE 0
           /\ recent' = <<recent[2], recent[3], IF RefSteps THEN Dest(prog[rpc]) ELSE 0>>
           /\ mem.valid /\ (Flowing \/ Held)
           /\ regs' = gpr /\ prog' = prog /\ slots \in 0..2 /\ (slots > 0 => HasDelaySlot /\ ~armed)
           /\ wb' = [valid |-> TRUE, pc |-> mem.pc, inst |-> mem.inst, wdata |-> MemResult]
  <1>1. Clock /\ Compare /\ CountSlots /\ exited = "no" /\ Observe
    BY DEF Committing, RisingEdge, Continues, Retire
  <1>2. Ruled /\ (RefSteps => KeepsRules)
    <2>1. codeKept' => codeKept
      BY CodeType DEF Committing, BaseInv, TypeInv, DifftestTypeOK, DifftestNext
    <2> QED BY <1>1, <2>1 DEF Committing, Observe, Ruled
  <1>3. recent' = <<recent[2], recent[3], IF RefSteps THEN Dest(prog[rpc]) ELSE 0>>
    BY <1>1 DEF Observe
  <1>4. /\ ~mismatched /\ gpr = Committed
        /\ recent[3] = IF wb.valid THEN Dest(wb.inst) ELSE 0
        /\ Filling \/ Flowing \/ Held
    BY <1>1, <1>2 DEF Committing, InStep
  <1>5. /\ wb' = [valid |-> mem.valid, pc |-> mem.pc, inst |-> mem.inst, wdata |-> MemResult]
        /\ regs' = Committed /\ wb'.valid
    BY <1>1, WhatCommits DEF Committing, BaseInv
  <1>6. mem.valid = TRUE
    BY <1>5 DEF Committing, BaseInv, PipelineInv, TypeOK
  <1>7. Flowing \/ Held
    BY <1>4, <1>6 DEF Filling
  <1>8. slots \in 0..2 /\ (slots > 0 => HasDelaySlot /\ ~armed)
    BY DEF Committing, BaseInv, TypeInv, DifftestTypeOK, CountersTypeOK, CountersInv
  <1>9. (RefSteps => Ref!Step) /\ (~RefSteps => UNCHANGED refVars) /\ prog' = prog
    BY <1>1 DEF Committing, Retire, Clock
  <1> QED BY <1>1, <1>2, <1>3, <1>4, <1>5, <1>6, <1>7, <1>8, <1>9

\* Where the reference steps, it does what the CPU commits.
LEMMA CommitAgrees ==
    ASSUME Committing, RefSteps
    PROVE  /\ slots = 0 /\ KeepsRules /\ Flowing
           /\ Ref!Execute /\ prog[rpc].fusel # "csr"
           /\ dmem = rmem'
           /\ pc = IF Ref!RefTaken THEN rpc' ELSE NextPc(id.pc)
           /\ ~mismatched'
           /\ gpr' = Committed' /\ recent'[3] = IF wb'.valid THEN Dest(wb'.inst) ELSE 0
  <1>1. slots = 0
    BY BeforeCommit DEF RefSteps
  <1>2. KeepsRules /\ Ref!Step /\ Compare /\ exited = "no"
    BY BeforeCommit
  <1>3. Ref!Execute /\ ~Ref!Traps
    BY <1>2, StepGoesOn DEF KeepsRules, Committing
  <1>4. prog[rpc].fusel # "csr" /\ prog[rpc] \in Inst
    BY <1>3, RefTypes DEF Ref!Traps, Ref!IsEcall, Committing, BaseInv, TypeInv
  <1>5. Flowing /\ mem.valid /\ mem.pc = rpc /\ MemInFlight
    BY <1>1, <1>4, BeforeCommit DEF Held, Flowing
  <1>6. /\ mem.inst = prog[rpc]
        /\ Dest(prog[rpc]) # 0 => MemResult = Ref!RefValue
        /\ dmem = IF IsStore(prog[rpc])
                  THEN Stored(prog[rpc], Ref!RefSrc1, Ref!RefSrc2, rmem) ELSE rmem
        /\ pc = IF Ref!RefTaken THEN Target(prog[rpc], rpc, Ref!RefSrc1) ELSE NextPc(id.pc)
    BY <1>2, <1>5, BeforeCommit, SameInstruction DEF Committing
  <1>7. /\ rpc' = IF Ref!RefTaken THEN Target(prog[rpc], rpc, Ref!RefSrc1) ELSE NextPc(rpc)
        /\ gpr' = Written(gpr, Dest(prog[rpc]), Ref!RefValue)
        /\ rmem' = IF IsStore(prog[rpc])
                   THEN Stored(prog[rpc], Ref!RefSrc1, Ref!RefSrc2, rmem) ELSE rmem
        /\ debug' = [pc |-> rpc, rd |-> Dest(prog[rpc]), wdata |-> Ref!RefValue,
                     branch |-> Ref!RefTaken]
    BY <1>3, RefTypes, SameRef DEF Ref!Execute, Committing, BaseInv, TypeInv
  <1>8. wb' = [valid |-> TRUE, pc |-> rpc, inst |-> prog[rpc], wdata |-> MemResult]
    BY <1>5, <1>6, BeforeCommit
  <1>9. ~Differs
    <2>1. Dest(prog[rpc]) # 0 => Dest(prog[rpc]) = prog[rpc].rd
      BY DEF Dest
    <2> QED BY <1>6, <1>7, <1>8, <2>1 DEF Differs
  <1>10. ~mismatched'
    BY <1>2, <1>9, BeforeCommit DEF Compare
  <1>11. gpr' = Committed'
    BY <1>6, <1>7, <1>8, BeforeCommit DEF Committed, Written
  <1>12. recent'[3] = IF wb'.valid THEN Dest(wb'.inst) ELSE 0
    BY <1>8, BeforeCommit
  <1> QED BY <1>1, <1>2, <1>3, <1>4, <1>5, <1>6, <1>7, <1>10, <1>11, <1>12

\* In the slots of a branch it rests, and the CPU commits a nop.
LEMMA SlotCommits ==
    ASSUME Committing, ~RefSteps
    PROVE  /\ slots \in {1, 2} /\ slots' = slots - 1 /\ Flowing
           /\ dmem = rmem' /\ rpc' = rpc
           /\ pc = NextPc(id.pc)
           /\ ~mismatched'
           /\ gpr' = Committed' /\ recent'[3] = IF wb'.valid THEN Dest(wb'.inst) ELSE 0
  <1>1. HasDelaySlot /\ slots \in {1, 2} /\ ~armed
    BY BeforeCommit DEF RefSteps
  <1>2. UNCHANGED <<rpc, gpr, rmem>> /\ Compare /\ CountSlots
    BY BeforeCommit DEF refVars
  <1>3. Flowing /\ mem.valid
    BY <1>1, BeforeCommit DEF Held
  <1>4. IsNop(mem.inst) /\ MemInFlight
    BY <1>1, <1>3 DEF Flowing
  <1>5. mem.inst.fusel = "alu" /\ Dest(mem.inst) = 0
    BY <1>4 DEF IsNop
  <1>6. dmem = rmem /\ pc = NextPc(id.pc)
    BY <1>4, <1>5 DEF MemInFlight, IsStore, Branches
  <1>7. ~mismatched'
    BY <1>1, <1>2, BeforeCommit DEF Compare, Differs
  <1>8. slots' = slots - 1
    BY <1>1, <1>2 DEF CountSlots
  <1>9. gpr' = Committed' /\ recent'[3] = IF wb'.valid THEN Dest(wb'.inst) ELSE 0
    BY <1>2, <1>5, BeforeCommit DEF Committed, Written
  <1> QED BY <1>1, <1>2, <1>3, <1>6, <1>7, <1>8, <1>9

\* After the step a branch has two slots, and they hold nops; any other instruction has none.
LEMMA SlotsOpen ==
    ASSUME Committing, RefSteps
    PROVE  IF Ref!RefTaken
           THEN /\ slots' = 2 /\ IsNop(ex.inst) /\ IsNop(id.inst)
           ELSE slots' = 0 /\ rpc' = NextPc(rpc)
  <1>1. /\ slots = 0 /\ KeepsRules /\ Flowing /\ Ref!Execute /\ CountSlots
    BY CommitAgrees, BeforeCommit
  <1>2. debug'.branch = Ref!RefTaken /\ (~Ref!RefTaken => rpc' = NextPc(rpc))
    BY <1>1 DEF Ref!Execute
  <1>3. CASE Ref!RefTaken
    <2>1. HasDelaySlot /\ IsNop(prog[NextPc(rpc)]) /\ IsNop(prog[NextPc(NextPc(rpc))])
      BY <1>1, <1>3 DEF KeepsRules
    <2>2. slots' = 2
      BY <1>1, <1>2, <1>3, <2>1 DEF CountSlots
    <2>3. ex.inst = prog[NextPc(rpc)] /\ id.inst = prog[NextPc(NextPc(rpc))]
      <3>1. ex.pc = NextPc(rpc) /\ id.pc = NextPc(ex.pc) /\ ex.valid /\ id.valid
        BY <1>1, StagesFill DEF Flowing, Committing
      <3> QED BY <3>1 DEF Committing, BaseInv, StagesMatchPc, PipelineInv, InstMatchesPc
    <2> QED BY <1>3, <2>1, <2>2, <2>3
  <1>4. CASE ~Ref!RefTaken
    <2>1. slots' = 0
      BY <1>1, <1>2, <1>4 DEF CountSlots
    <2> QED BY <1>2, <1>4, <2>1
  <1> QED BY <1>3, <1>4

\* The stages move up, or an ecall holds the one in memory.
LEMMA CommitMovesOn ==
    ASSUME Committing
    PROVE  Flowing' \/ Held'
  <1>1. /\ Clock /\ Flowing /\ dmem = rmem' /\ BaseInv /\ mem.valid
        /\ recent[3] = IF wb.valid THEN Dest(wb.inst) ELSE 0
        /\ recent'[1] = recent[2] /\ recent'[2] = recent[3]
        /\ prog' = prog
    BY BeforeCommit, CommitAgrees, SlotCommits DEF Committing
  <1>2. ex.valid /\ id.valid /\ ex.inst = prog[ex.pc] /\ id.inst = prog[id.pc]
    BY <1>1, StagesFill DEF BaseInv, StagesMatchPc, PipelineInv, InstMatchesPc
  <1>3. /\ ex'.pc = id.pc /\ ex'.inst = id.inst /\ id'.pc = pc
        /\ (ex.inst.fusel # "csr" => mem'.valid /\ mem'.pc = ex.pc /\ mem'.inst = ex.inst)
        /\ (ex.inst.fusel = "csr" => mem' = mem /\ dmem' = dmem)
    <2>1. ex.inst \in Inst
      BY <1>1 DEF BaseInv, PipelineInv, TypeOK
    <2>2. ex'.pc = id.pc /\ ex'.inst = id.inst /\ id'.pc = pc
      BY <1>1 DEF Clock, ExecuteStage, DecodeStage
    <2>3. ex.inst.fusel # "csr" => mem'.valid /\ mem'.pc = ex.pc /\ mem'.inst = ex.inst
      BY <1>1, <1>2, <2>1, InstFields DEF Clock, MemoryStage, Latched
    <2>4. ex.inst.fusel = "csr" => mem' = mem /\ dmem' = dmem
      BY <1>1 DEF Clock, MemoryStage, Latched, DataChannel, DmemNext, IsStore
    <2> QED BY <2>2, <2>3, <2>4
  <1>4. ExInFlight'
    BY <1>1, DecodeInFlight
  <1>5. ex.inst.fusel # "csr" => MemInFlight'
    BY <1>1, <1>2, ExecuteInFlight DEF Flowing
  <1>6. CASE ~RefSteps /\ slots = 2
    <2>1. slots' = 1 /\ rpc' = rpc /\ pc = NextPc(id.pc)
      BY <1>6, SlotCommits
    <2>2. IsNop(ex.inst) /\ id.pc = rpc
      BY <1>1, <1>6 DEF Flowing
    <2>3. ex.inst.fusel # "csr"
      BY <2>2 DEF IsNop
    <2> QED BY <1>3, <1>4, <1>5, <2>1, <2>2, <2>3 DEF Flowing
  <1>7. CASE \/ ~RefSteps /\ slots = 1
             \/ RefSteps /\ ~Ref!RefTaken
    <2>1. /\ slots' = 0 /\ pc = NextPc(id.pc)
          /\ ex.pc = rpc' /\ id.pc = NextPc(rpc')
      BY <1>1, <1>7, SlotCommits, CommitAgrees, SlotsOpen DEF Flowing
    <2>2. CASE ex.inst.fusel = "csr"
      <3>1. prog'[rpc'].fusel = "csr" /\ mem'.valid /\ dmem' = rmem'
        BY <1>1, <1>2, <1>3, <2>1, <2>2
      <3> QED BY <2>1, <3>1 DEF Held
    <2>3. CASE ex.inst.fusel # "csr"
      BY <1>3, <1>4, <1>5, <2>1, <2>3 DEF Flowing
    <2> QED BY <2>2, <2>3
  <1>8. CASE RefSteps /\ Ref!RefTaken
    <2>1. slots' = 2 /\ IsNop(ex.inst) /\ IsNop(id.inst) /\ pc = rpc'
      BY <1>8, SlotsOpen, CommitAgrees
    <2>2. ex.inst.fusel # "csr"
      BY <2>1 DEF IsNop
    <2> QED BY <1>3, <1>4, <1>5, <2>1, <2>2 DEF Flowing
  <1> QED BY <1>6, <1>7, <1>8, SlotCommits

\* Before the first commit the stages fill, at each rising edge one.
LEMMA FillingMovesOn ==
    ASSUME BaseInv, Filling, Clock, UNCHANGED <<refVars, slots, recent>>
    PROVE  /\ Filling' \/ Flowing'
           /\ FillLeft' = FillLeft - 1 /\ FillLeft \in 1..5
  <1>1. /\ prog' = prog /\ rpc' = rpc /\ rmem' = rmem /\ slots' = 0 /\ recent' = <<0, 0, 0>>
        /\ recent = <<0, 0, 0>> /\ dmem = rmem /\ ~mem.valid /\ ~wb.valid /\ regs' = regs
    <2>1. ~mem.valid /\ ~wb.valid
      BY DEF Filling, BaseInv, PipelineInv, BubblesAreInert
    <2>2. regs' = regs
      BY <2>1, WhatCommits DEF BaseInv, Committed
    <2> QED BY <2>1, <2>2 DEF Filling, refVars, Clock
  <1>2. ex.valid => ex.inst.fusel # "csr"
    BY DEF Filling, BaseInv, StagesMatchPc
  <1>3. ex.inst \in Inst /\ ex.inst.fusel \in Latched
    <2>1. ex.inst \in Inst
      BY DEF BaseInv, PipelineInv, TypeOK
    <2>2. ex.inst.fusel # "csr"
      BY <1>2, StagesFill DEF Undecoded
    <2> QED BY <2>1, <2>2, InstFields DEF Latched
  <1>4. /\ fstate' = (IF fstate = "boot" THEN "send" ELSE "receive")
        /\ id' = [valid |-> fstate = "receive", pc |-> pc, inst |-> irdata]
        /\ ex'.valid = id.valid /\ ex'.pc = id.pc /\ ex'.inst = id.inst
        /\ mem'.valid = ex.valid /\ mem'.pc = ex.pc
    BY <1>3 DEF Clock, Fetch, DecodeStage, ExecuteStage, MemoryStage
  <1>5. ExInFlight'
    <2>1. recent[3] = IF wb.valid THEN Dest(wb.inst) ELSE 0
      BY <1>1
    <2> QED BY <1>1, <2>1, DecodeInFlight
  <1>6. ~ex.valid => DmemNext = dmem /\ InstAddr = NextPc(pc)
    BY StagesFill DEF DmemNext, IsStore, Undecoded, InstAddr, BranchTaken
  <1>7. CASE ~id.valid
    <2>1. ~ex.valid /\ dmem' = dmem /\ (fstate = "receive" => pc = PcInit /\ pc' = NextPc(pc))
      BY <1>6, <1>7, StagesFill
         DEF Clock, DataChannel, Fetch, BaseInv, PipelineInv, InstMatchesPc
    <2>2. ~mem'.valid /\ ~ex'.valid
      BY <1>4, <1>7, <2>1
    <2>3. id'.valid => id'.pc = PcInit /\ pc' = NextPc(id'.pc)
      BY <1>4, <2>1
    <2>4. Filling'
      BY <1>1, <2>1, <2>2, <2>3 DEF Filling
    <2>5. fstate \in {"boot", "send", "receive"}
      BY DEF BaseInv, PipelineInv, TypeOK
    <2>6. FillLeft = IF fstate = "boot" THEN 5 ELSE IF fstate = "send" THEN 4 ELSE 3
      BY <1>7 DEF FillLeft
    <2>7. FillLeft' = IF fstate = "boot" THEN 4 ELSE IF fstate = "send" THEN 3 ELSE 2
      <3>1. id'.valid = (fstate = "receive")
        BY <1>4
      <3>2. CASE fstate = "boot"
        BY <1>4, <3>2 DEF FillLeft
      <3>3. CASE fstate = "send"
        BY <1>4, <3>1, <3>3 DEF FillLeft
      <3>4. CASE fstate = "receive"
        BY <1>4, <2>2, <3>1, <3>4 DEF FillLeft
      <3> QED BY <2>5, <3>2, <3>3, <3>4
    <2> QED BY <2>4, <2>5, <2>6, <2>7
  <1>8. CASE id.valid /\ ~ex.valid
    <2>1. fstate = "receive" /\ dmem' = dmem /\ pc' = NextPc(pc)
      BY <1>6, <1>8, StagesFill DEF Clock, DataChannel, Fetch
    <2>2. id.pc = PcInit /\ pc = NextPc(id.pc)
      BY <1>8 DEF Filling
    <2>3. fstate' = "receive" /\ id'.valid /\ id'.pc = pc /\ ex'.valid /\ ~mem'.valid
      BY <1>4, <1>8, <2>1
    <2>4. Filling'
      BY <1>1, <1>4, <1>5, <2>1, <2>2, <2>3 DEF Filling
    <2>5. FillLeft = 2
      BY <1>8, <2>1 DEF FillLeft
    <2>6. FillLeft' = 1
      BY <2>3 DEF FillLeft
    <2> QED BY <2>4, <2>5, <2>6
  <1>9. CASE ex.valid
    <2>1. /\ fstate = "receive" /\ id.valid
          /\ ex.pc = PcInit /\ rpc = PcInit /\ id.pc = NextPc(PcInit) /\ pc = NextPc(id.pc)
          /\ ExInFlight
      BY <1>9, StagesFill DEF Filling
    <2>2. fstate' = "receive" /\ id'.valid /\ id'.pc = pc /\ ex'.valid /\ mem'.valid
      BY <1>4, <1>9, <2>1
    <2>3. MemInFlight'
      <3>1. recent[3] = IF wb.valid THEN Dest(wb.inst) ELSE 0
        BY <1>1
      <3> QED BY <1>1, <1>2, <1>9, <2>1, <3>1, ExecuteInFlight
    <2>4. Flowing'
      BY <1>1, <1>4, <1>5, <2>1, <2>2, <2>3 DEF Flowing
    <2>5. FillLeft = 1
      BY <1>1, <1>9, <2>1 DEF FillLeft
    <2>6. FillLeft' = 0
      BY <2>2 DEF FillLeft
    <2> QED BY <2>4, <2>5, <2>6
  <1> QED BY <1>7, <1>8, <1>9

\* The time to the first commit, in numbers.
LEMMA ClockTypes ==
    ASSUME BaseInv
    PROVE  /\ idle \in Nat /\ resetLeft \in Nat /\ EdgeIn \in Nat /\ FillLeft \in 0..5
           /\ CommitTimeout \in Nat /\ ResetTicks \in Nat /\ ResetTicks >= 1
           /\ CommitTimeout > ResetTicks + 11
  BY HarnessAssumption DEF BaseInv, TypeInv, DifftestTypeOK, CountersTypeOK, EdgeIn, FillLeft

\* An iteration that commits keeps CPU and reference in step.
LEMMA RetireInStep ==
    ASSUME BaseInv, BaseInv', InStep, RisingEdge, wb'.valid, Retire
    PROVE  InStep'
  <1>0. Ruled' => Ruled
    <2>1. codeKept' => codeKept
      BY CodeType DEF BaseInv, TypeInv, DifftestTypeOK, DifftestNext
    <2> QED BY <2>1 DEF Ruled, Retire, Observe
  <1>1. CASE Ruled' /\ exited' = "no"
    <2>1. Committing
      BY <1>1 DEF Committing
    <2>2. Flowing' \/ Held'
      BY <2>1, CommitMovesOn
    <2>3. /\ ~mismatched' /\ gpr' = Committed'
          /\ recent'[3] = IF wb'.valid THEN Dest(wb'.inst) ELSE 0
      BY <2>1, CommitAgrees, SlotCommits
    <2>4. idle' = 1 /\ stuck' = stuck
      BY <1>1 DEF Retire
    <2>5. ~stuck
      BY <1>0, <1>1 DEF InStep
    <2>6. EdgeIn' \in {0, 1}
      BY DEF RisingEdge, Count, EdgeIn
    <2>7. CommitIsNear'
      <3>1. FillLeft' \in 0..5 /\ ResetTicks \in Nat /\ ResetTicks >= 1
        BY ClockTypes, HarnessAssumption
           DEF BaseInv, TypeInv, DifftestTypeOK, CountersTypeOK, FillLeft
      <3>2. idle' = 1
        BY <2>4
      <3>3. EdgeIn' \in 0..1
        BY <2>6
      <3>4. \A e \in 0..1, f \in 0..5, r \in Nat : r >= 1 => 1 + e + 2 * f <= r + 11
        OBVIOUS
      <3>5. 1 + EdgeIn' + 2 * FillLeft' <= ResetTicks + 11
        BY <3>1, <3>3, <3>4
      <3> QED BY <3>2, <3>5 DEF CommitIsNear
    <2> QED BY <2>2, <2>3, <2>4, <2>5, <2>7 DEF InStep
  <1>2. CASE exited' # "no"
    <2>1. UNCHANGED <<mismatched, stuck>> /\ (Ruled' => Ruled)
      BY <1>0, <1>2 DEF Retire
    <2> QED BY <1>2, <2>1 DEF InStep
  <1>3. CASE ~Ruled'
    BY <1>3 DEF InStep
  <1> QED BY <1>1, <1>2, <1>3

\* An iteration without a commit comes before the first one, or does not move the CPU.
LEMMA NoRetireInStep ==
    ASSUME BaseInv, InStep, Continues, Count, NoRetire, codeKept' => codeKept,
           \/ ~clock /\ resetLeft = 0 /\ Clock /\ ~wb'.valid
           \/ (clock \/ resetLeft > 0) /\ UNCHANGED dutVars
    PROVE  InStep'
  <1> SUFFICES ASSUME Ruled'
               PROVE  InStep'
    BY DEF InStep
  <1>1. /\ UNCHANGED <<refVars, slots, recent, mismatched>> /\ Ruled /\ exited = "no"
        /\ UNCHANGED <<rpc, gpr, rmem, exited>>
        /\ idle' = idle + 1 /\ stuck' = (idle' >= CommitTimeout)
    BY DEF NoRetire, Continues, refVars, Ruled
  <1>2. /\ ~mismatched /\ CommitIsNear /\ gpr = Committed
        /\ recent[3] = IF wb.valid THEN Dest(wb.inst) ELSE 0
        /\ Filling \/ Flowing \/ Held
    BY <1>1 DEF InStep
  <1>3. /\ idle + EdgeIn + 2 * FillLeft <= ResetTicks + 11
        /\ idle \in Nat /\ EdgeIn \in Nat /\ FillLeft \in 0..5 /\ resetLeft \in Nat
        /\ CommitTimeout \in Nat /\ ResetTicks \in Nat /\ CommitTimeout > ResetTicks + 11
    BY <1>2, ClockTypes DEF CommitIsNear
  <1>4. CASE ~clock /\ resetLeft = 0 /\ Clock /\ ~wb'.valid
    <2>1. ~mem.valid /\ ~wb.valid /\ regs' = Committed
      BY <1>4, WhatCommits DEF BaseInv
    <2>2. Filling
      BY <1>2, <2>1 DEF Flowing, Held
    <2>3. (Filling' \/ Flowing') /\ FillLeft' = FillLeft - 1 /\ FillLeft \in 1..5
      BY <1>1, <1>4, <2>2, FillingMovesOn
    <2>4. EdgeIn' = 1 /\ EdgeIn = 0
      <3>1. resetLeft = 0 /\ resetLeft' = 0
        BY <1>4 DEF Count
      <3>2. EdgeIn = IF clock THEN 1 ELSE 0
        BY <3>1 DEF EdgeIn
      <3>3. EdgeIn' = IF clock' THEN 1 ELSE 0
        BY <3>1 DEF EdgeIn
      <3>4. clock' = ~clock /\ ~clock
        BY <1>4 DEF Count
      <3>5. clock'
        BY <3>4, Zenon
      <3> QED BY <1>4, <3>2, <3>3, <3>5, Zenon
    <2>5. CommitIsNear' /\ ~(idle' >= CommitTimeout)
      BY <1>1, <1>3, <2>3, <2>4 DEF CommitIsNear
    <2>6. ~stuck'
      BY <1>1, <2>5
    <2>7. gpr' = Committed' /\ recent'[3] = IF wb'.valid THEN Dest(wb'.inst) ELSE 0
      <3>1. gpr' = regs' /\ recent'[3] = 0
        BY <1>1, <1>2, <2>1
      <3> QED BY <1>4, <3>1 DEF Committed
    <2> QED BY <1>1, <1>2, <2>3, <2>5, <2>6, <2>7 DEF InStep
  <1>5. CASE (clock \/ resetLeft > 0) /\ UNCHANGED dutVars
    <2>1. EdgeIn' <= EdgeIn - 1 /\ EdgeIn \in Nat /\ EdgeIn' \in Nat
      <3>1. resetLeft' = IF resetLeft > 0 THEN resetLeft - 1 ELSE 0
        BY DEF Count
      <3>2. CASE resetLeft > 1
        BY <1>3, <3>1, <3>2 DEF EdgeIn
      <3>3. CASE resetLeft = 0
        <4>1. EdgeIn = (IF clock THEN 1 ELSE 0) /\ EdgeIn' = (IF clock' THEN 1 ELSE 0) /\ clock
          BY <1>5, <3>1, <3>3 DEF EdgeIn
        <4>2. clock' = ~clock
          BY DEF Count
        <4>3. EdgeIn = 1 /\ EdgeIn' = 0
          BY <4>1, <4>2, Zenon
        <4> QED BY <4>3
      <3>4. CASE resetLeft = 1
        <4>1. EdgeIn = 2 /\ EdgeIn' = IF clock' THEN 1 ELSE 0
          BY <3>1, <3>4 DEF EdgeIn
        <4>2. EdgeIn' = 1 \/ EdgeIn' = 0
          BY <4>1, Zenon
        <4> QED BY <4>1, <4>2
      <3> QED BY <1>3, <3>2, <3>3, <3>4
    <2>2. FillLeft' = FillLeft
      BY <1>5 DEF FillLeft, dutVars
    <2>3. CommitIsNear' /\ ~(idle' >= CommitTimeout)
      <3>1. idle' = idle + 1
        BY <1>1
      <3>2. idle' + EdgeIn' + 2 * FillLeft <= ResetTicks + 11
        <4>1. \A i, e, d \in Nat, f \in 0..5, r \in Nat :
                 i + e + 2 * f <= r + 11 /\ d <= e - 1 => i + 1 + d + 2 * f <= r + 11
          OBVIOUS
        <4> QED BY <1>3, <2>1, <3>1, <4>1
      <3>3. ~(idle' >= CommitTimeout)
        BY <1>3, <2>1, <3>1
      <3> QED BY <2>2, <3>2, <3>3 DEF CommitIsNear
    <2>4. ~stuck'
      BY <1>1, <2>3
    <2>5. UNCHANGED <<Filling, Flowing, Held, Committed, wb>>
      BY <1>1, <1>5 DEF dutVars, Filling, Flowing, Held, Committed, MemInFlight, ExInFlight,
                        ReadByMem, ReadByEx
    <2> QED BY <1>1, <1>2, <2>3, <2>4, <2>5 DEF InStep
  <1> QED BY <1>4, <1>5

\* Every iteration keeps them in step.
LEMMA InStepStep == BaseInv /\ InStep /\ [DifftestNext]_allVars => InStep'
  <1> SUFFICES ASSUME BaseInv, InStep, [DifftestNext]_allVars PROVE InStep'
    OBVIOUS
  <1>1. BaseInv' /\ (codeKept' => codeKept)
    BY BaseStep, CodeType DEF BaseInv, TypeInv, DifftestTypeOK
  <1>2. CASE RisingEdge /\ wb'.valid
    BY <1>1, <1>2, RetireInStep DEF RisingEdge
  <1>3. CASE RisingEdge /\ ~wb'.valid
    BY <1>1, <1>3, NoRetireInStep DEF RisingEdge
  <1>4. CASE OtherEdge
    BY <1>1, <1>4, NoRetireInStep DEF OtherEdge
  <1>5. CASE UNCHANGED allVars
    <2>1. UNCHANGED <<Filling, Flowing, Held, Committed, CommitIsNear>>
      BY <1>5 DEF allVars, dutVars, refVars, history, Filling, Flowing, Held, Committed,
                  MemInFlight, ExInFlight, ReadByMem, ReadByEx, CommitIsNear, EdgeIn, FillLeft
    <2> QED BY <1>5, <2>1 DEF InStep, Ruled, allVars, dutVars, refVars, history
  <1> QED BY <1>2, <1>3, <1>4, <1>5 DEF DifftestNext, Ended

\* Without -initgprs both sides start with the same registers and the same memory.
LEMMA InitInStep ==
    ASSUME ~InitGprs
    PROVE  DifftestInit => InStep
  <1> SUFFICES ASSUME DifftestInit PROVE InStep
    OBVIOUS
  <1>1. /\ fstate = "boot" /\ ~id.valid /\ ~ex.valid /\ ~mem.valid /\ ~wb.valid
        /\ ~mismatched /\ ~stuck /\ idle = 0 /\ clock = FALSE /\ resetLeft = ResetTicks
        /\ recent = <<0, 0, 0>> /\ slots = 0 /\ rpc = PcInit /\ rmem = dmem
        /\ clean = (prog[PcInit].fusel # "csr")
    BY DEF DifftestInit, Init, Ref!RefInit
  <1>2. gpr = Committed
    BY ~InitGprs, <1>1 DEF DifftestInit, Init, Ref!RefInit, Committed
  <1>3. CommitIsNear
    <2>1. ResetTicks \in Nat \ {0}
      BY HarnessAssumption
    <2>2. EdgeIn = ResetTicks + 1 /\ FillLeft = 5
      BY <1>1, <2>1 DEF EdgeIn, FillLeft
    <2> QED BY <1>1, <2>1, <2>2 DEF CommitIsNear
  <1>4. clean => Filling
    BY <1>1 DEF Filling
  <1> QED BY <1>1, <1>2, <1>3, <1>4 DEF InStep, Ruled

\* CPU and reference stay in step while the program keeps the rules of the pipeline
\* (sim_mycpu.cpp:119-213).
THEOREM LoopInvariant ==
    ASSUME ~InitGprs
    PROVE  DifftestSpec => []DifftestInv
  <1>1. DifftestInit => BaseInv /\ InStep
    BY BaseInit, InitInStep
  <1>2. BaseInv /\ InStep => DifftestInv
    BY DEF BaseInv, TypeInv, DifftestInv
  <1> QED BY <1>1, <1>2, BaseStep, InStepStep, PTL DEF DifftestSpec

\* A program that keeps the rules of the pipeline is never blamed: with the same
\* registers on both sides no mismatch is reported, whatever the program, the options and
\* the data path, and the CPU is not declared stuck (sim_mycpu.cpp:165, 204).
THEOREM NeverBlamed ==
    ASSUME ~InitGprs
    PROVE  DifftestSpec => []NoFalseAlarm
  <1>1. DifftestInv => NoFalseAlarm
    BY DEF DifftestInv, InStep, NoFalseAlarm
  <1> QED BY <1>1, LoopInvariant, PTL

\* Nor do the memories drift apart: they differ in the line of a store ahead of its commit.
THEOREM MemoriesStayEqual ==
    ASSUME ~InitGprs
    PROVE  DifftestSpec => []MemoriesAgree
  <1>1. ASSUME DifftestInv, Ruled, exited = "no",
               NEW l \in Line, dmem[l] # rmem[l]
        PROVE  mem.valid /\ IsStore(mem.inst) /\ l = LineOf(mem.inst, mem.src1)
    <2>1. Flowing
      BY <1>1 DEF DifftestInv, InStep, Filling, Held
    <2>2. PICK x, y \in Word :
             /\ mem.src1 = Src1(mem.inst, ReadByMem(x, y))
             /\ dmem = IF IsStore(mem.inst)
                       THEN Stored(mem.inst, Src1(mem.inst, ReadByMem(x, y)),
                                   Src2(mem.inst, ReadByMem(x, y)), rmem)
                       ELSE rmem
      BY <2>1 DEF Flowing, MemInFlight
    <2>3. IsStore(mem.inst)
      BY <1>1, <2>2
    <2>4. rmem \in [Line -> Word]
      BY <1>1 DEF DifftestInv, DifftestTypeOK, Ref!RefTypeOK
    <2>5. l = LineOf(mem.inst, mem.src1)
      BY <1>1, <2>2, <2>3, <2>4 DEF Stored
    <2> QED BY <2>1, <2>3, <2>5 DEF Flowing
  <1>2. DifftestInv => MemoriesAgree
    BY <1>1 DEF MemoriesAgree
  <1> QED BY <1>2, LoopInvariant, PTL
=============================================================================
