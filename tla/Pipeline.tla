------------------------------ MODULE Pipeline ------------------------------
(***************************************************************************)
(* The CPU of src/chisel, one clock edge per step, with the synchronous    *)
(* instruction and data SRAMs that the simulator's nscscc_sram_slave       *)
(* drives.  A variable is a register of the design (or an SRAM port); the  *)
(* operators before Clock are the combinational logic between them.        *)
(*                                                                         *)
(* The two ports of the code read and write one memory.  Here the program  *)
(* is apart from the data and stays as it is: a program that executes what *)
(* it has stored is not covered.                                           *)
(***************************************************************************)
EXTENDS Isa

VARIABLES
    prog,    \* instruction memory, which stores do not reach
    fstate,  \* FetchUnit.state
    pc,      \* FetchUnit.pc
    irdata,  \* instSram.rdata
    id,      \* DecodeStage.data
    ex,      \* ExecuteStage.data
    mem,     \* MemoryStage.data
    wb,      \* WriteBackStage.data
    regs,    \* ARegFile.regs
    dmem,    \* data memory
    drdata   \* dataSram.rdata

vars == <<prog, fstate, pc, irdata, id, ex, mem, wb, regs, dmem, drdata>>

\* The widths of the registers and ports (Bundles.scala and the *Data bundles of
\* the stages).
TypeOK ==
    /\ prog \in [Word -> Inst]
    /\ fstate \in {"boot", "send", "receive"}
    /\ pc \in Word
    /\ irdata \in Inst
    /\ id \in [valid : BOOLEAN, pc : Word, inst : Inst]
    /\ ex \in [valid : BOOLEAN, pc : Word, inst : Inst, src1 : Word, src2 : Word]
    /\ mem \in [valid : BOOLEAN, pc : Word, inst : Inst, src1 : Word, wdata : Word]
    /\ wb \in [valid : BOOLEAN, pc : Word, inst : Inst, wdata : Word]
    /\ regs \in [Reg -> Word]
    /\ dmem \in [Line -> Word]
    /\ drdata \in Word

\* Mutant: the reset value is computed outside the width of the register.
ResetPcUnwrapped == PcInit - 4

\* The first address the fetch unit sends is the one after it: PC_INIT.
ResetPc == PrevPc(PcInit)

\* Out of reset the stage registers hold zeros, which decode to an invalid add.
Init ==
    /\ prog \in Programs
    /\ fstate = "boot"
    /\ pc = ResetPc
    /\ irdata = Undecoded
    /\ id = [valid |-> FALSE, pc |-> 0, inst |-> Undecoded]
    /\ ex = [valid |-> FALSE, pc |-> 0, inst |-> Undecoded, src1 |-> 0, src2 |-> 0]
    /\ mem = [valid |-> FALSE, pc |-> 0, inst |-> Undecoded, src1 |-> 0, wdata |-> 0]
    /\ wb = [valid |-> FALSE, pc |-> 0, inst |-> Undecoded, wdata |-> 0]
    /\ regs = [r \in Reg |-> 0]
    /\ dmem \in Images
    /\ drdata = 0
-----------------------------------------------------------------------------
(* Execute: Fu, Bru and Lsu work on ex. *)

\* bra_info.branch: a bubble never redirects the fetch.
BranchTaken == ex.valid /\ Branches(ex.inst, ex.src1, ex.src2)

\* The address on instSram.addr.
InstAddr == IF BranchTaken THEN Target(ex.inst, ex.pc, ex.src1) ELSE NextPc(pc)

\* The line the Lsu addresses.
DataLine == LineOf(ex.inst, ex.src1)

\* Mutant: a load asserts the strobes as well.
DmemNextAnyLsu ==
    IF ex.inst.fusel = "lsu" THEN Stored(ex.inst, ex.src1, ex.src2, dmem) ELSE dmem

\* Data memory after the edge: the strobes of a store are not gated by ex.valid.
DmemNext == IF IsStore(ex.inst) THEN Stored(ex.inst, ex.src1, ex.src2, dmem) ELSE dmem

\* Fu's result: the Lsu passes on the data on the read port, whatever it is.
FuResult == IF ex.inst.fusel = "lsu" THEN drdata
            ELSE Result(ex.inst, ex.pc, ex.src1, ex.src2)

(* Memory: M_Lsu picks the loaded value out of the line on the read port. *)
MemResult == IF mem.valid /\ IsLoad(mem.inst)
             THEN Extract(mem.inst, mem.src1, drdata) ELSE mem.wdata

\* Mutant: the switch forgets the branch unit.
LatchedWithoutBru == {"alu", "mdu", "lsu"}

\* The units whose instructions the MemoryStage and WriteBackStage let in; while
\* any other is in front of it, a stage keeps what it holds.
Latched == {"alu", "mdu", "lsu", "bru"}
-----------------------------------------------------------------------------
(* The clock edge, unit by unit. *)

Fetch ==
    /\ fstate' = IF fstate = "boot" THEN "send" ELSE "receive"
    /\ pc' = IF fstate = "boot" THEN pc ELSE InstAddr

\* The port is enabled from the first cycle after reset on.  It reads the program as
\* it was loaded.
InstChannel == irdata' = IF fstate = "boot" THEN irdata ELSE prog[InstAddr]

\* Mutant: valid does not wait for the first answer of instruction memory.
DecodeStageAlwaysValid == id' = [valid |-> TRUE, pc |-> pc, inst |-> irdata]

\* Mutant: valid while the address is sent, not while the answer is received.
DecodeStageOnSend == id' = [valid |-> fstate = "send", pc |-> pc, inst |-> irdata]

DecodeStage == id' = [valid |-> fstate = "receive", pc |-> pc, inst |-> irdata]

\* Mutant: the register file forwards the value being written.
ExecuteStageForwarding ==
    LET now == IF wb.valid THEN Written(regs, Dest(wb.inst), wb.wdata) ELSE regs
    IN  ex' = [valid |-> id.valid, pc |-> id.pc, inst |-> id.inst,
               src1 |-> Src1(id.inst, now), src2 |-> Src2(id.inst, now)]

\* Reads the register file as it is before this edge's write.
ExecuteStage == ex' = [valid |-> id.valid, pc |-> id.pc, inst |-> id.inst,
                       src1 |-> Src1(id.inst, regs), src2 |-> Src2(id.inst, regs)]

MemoryStage ==
    mem' = IF ex.inst.fusel \in Latched
           THEN [valid |-> ex.valid, pc |-> ex.pc, inst |-> ex.inst,
                 src1 |-> ex.src1, wdata |-> FuResult]
           ELSE mem

WriteBackStage ==
    wb' = IF mem.inst.fusel \in Latched
          THEN [valid |-> mem.valid, pc |-> mem.pc, inst |-> mem.inst, wdata |-> MemResult]
          ELSE wb

ARegFile == regs' = IF wb.valid THEN Written(regs, Dest(wb.inst), wb.wdata) ELSE regs

\* Mutant: the port reads in every cycle, enabled or not.
DataChannelAlwaysReads ==
    /\ dmem' = DmemNext
    /\ drdata' = DmemNext[DataLine]

\* Write, then read of the same line; the port keeps its data when not enabled.
DataChannel ==
    /\ dmem' = DmemNext
    /\ drdata' = IF ex.inst.fusel = "lsu" THEN DmemNext[DataLine] ELSE drdata

Clock == /\ Fetch
         /\ InstChannel
         /\ DecodeStage
         /\ ExecuteStage
         /\ MemoryStage
         /\ WriteBackStage
         /\ ARegFile
         /\ DataChannel
         /\ UNCHANGED prog

Next == Clock

\* The simulator toggles the clock as long as it runs.
Spec == Init /\ [][Next]_vars /\ WF_vars(Next)
=============================================================================
