------------------------- MODULE PipelineRefinesISA -------------------------
(***************************************************************************)
(* The pipeline implements the exposed-timing machine of ExposedISA.  An   *)
(* instruction is issued when it leaves the decode stage; the commits on   *)
(* their way are the contents of the write-back, memory and execute        *)
(* stages; and memory already holds the store that is being executed.      *)
(***************************************************************************)
EXTENDS Pipeline

CommitInWb == IF wb.valid THEN Commit(wb.pc, Dest(wb.inst), wb.wdata) ELSE Bubble

CommitInMem == IF mem.valid THEN Commit(mem.pc, Dest(mem.inst), MemResult) ELSE Bubble

\* While an ecall is in execute the memory stage stands still: what it holds
\* will commit twice.
CommitInEx ==
    IF ex.inst.fusel = "csr" THEN CommitInMem
    ELSE IF ex.valid
         THEN Commit(ex.pc, Dest(ex.inst),
                     IF IsLoad(ex.inst) THEN Extract(ex.inst, ex.src1, dmem[DataLine])
                     ELSE Result(ex.inst, ex.pc, ex.src1, ex.src2))
         ELSE Bubble

\* The next three instructions: in decode, at the instruction port, addressed.
NextPcs ==
    IF fstate # "receive" THEN <<NextPc(pc), NextPc(NextPc(pc)), NextPc(NextPc(NextPc(pc)))>>
    ELSE IF id.valid THEN <<id.pc, pc, InstAddr>>
    ELSE <<pc, NextPc(pc), NextPc(NextPc(pc))>>

ISA == INSTANCE ExposedISA WITH pcs <- NextPcs,
                                pending <- <<CommitInWb, CommitInMem, CommitInEx>>,
                                memory <- DmemNext

\* Every behaviour of the pipeline is one of the exposed-timing machine: each
\* instruction reads, writes, branches and commits as the machine says, once and
\* in order, whatever mix of instructions is in flight (Core.scala).
ImplementsISA == ISA!Safety

\* Once it has filled up, the pipeline commits an instruction at every clock edge:
\* neither branches, nor ecalls, nor an undecoded word open a bubble again
\* (DecodeStage.scala:27, FetchUnit.scala:16-29).
CommitsEveryCycle == <>[]wb.valid
-----------------------------------------------------------------------------
(* The invariant the refinement rests on. *)

\* A slot that holds no instruction holds the undecoded one: the strobes of the
\* Lsu and the hold of the MemoryStage do not look at valid.
BubblesAreInert ==
    /\ fstate # "receive" => ~id.valid /\ irdata = Undecoded
    /\ ~id.valid => ~ex.valid /\ id.inst = Undecoded
    /\ ~ex.valid => ~mem.valid /\ ex.inst = Undecoded
    /\ ~mem.valid => ~wb.valid

\* The instruction in decode and the one on the instruction port are those of
\* the program at the pcs that travel with them.
InstMatchesPc ==
    /\ id.valid => id.inst = prog[id.pc]
    /\ fstate = "receive" => irdata = prog[pc]
    /\ fstate # "receive" => pc = PrevPc(PcInit)
    /\ fstate = "receive" /\ ~id.valid => pc = PcInit

\* The data on the read port belongs to the load in the memory stage, also when
\* an ecall keeps that load there for a second cycle (MemoryUnit.scala:26).
LoadDataFresh ==
    mem.valid /\ IsLoad(mem.inst) => drdata = dmem[LineOf(mem.inst, mem.src1)]

\* An ecall gets no further than execute.
NoEcallInMem == mem.inst.fusel \in Latched /\ wb.inst.fusel \in Latched

\* What every state of the pipeline satisfies, and each clock edge preserves: what
\* travels in a stage is consistent with the program, with memory and with the
\* stages behind it (Core.scala:30-50).
PipelineInv == TypeOK /\ BubblesAreInert /\ InstMatchesPc /\ LoadDataFresh /\ NoEcallInMem
=============================================================================
