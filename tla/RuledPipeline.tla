--------------------------- MODULE RuledPipeline ---------------------------
(***************************************************************************)
(* The pipeline with the observer of RuledISA: an instruction is observed  *)
(* when it leaves decode.                                                  *)
(***************************************************************************)
EXTENDS PipelineRefinesISA

VARIABLES slots, broken

Ruled == INSTANCE RuledISA WITH pcs <- NextPcs,
                                pending <- <<CommitInWb, CommitInMem, CommitInEx>>,
                                memory <- DmemNext

ruledVars == <<vars, slots, broken>>

RuledInit == Init /\ slots = 0 /\ broken = FALSE

\* A bubble in decode is no instruction.
RuledNext == Next /\ IF id.valid THEN Ruled!Observe ELSE UNCHANGED <<slots, broken>>

RuledSpec == RuledInit /\ [][RuledNext]_ruledVars /\ WF_ruledVars(RuledNext)

SEQ == INSTANCE SequentialISA WITH pc <- NextPcs[slots + 1],
                                   regs <- Ruled!FinalRegs,
                                   memory <- DmemNext,
                                   free <- broken

\* The pipeline runs a program that keeps the rules as a sequential machine does: its
\* five stages, the two slots and the held ecall cannot be seen (Core.scala:30-50).
SequentialWhileRuled == SEQ!Safety
=============================================================================
