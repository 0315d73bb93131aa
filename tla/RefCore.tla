------------------------------ MODULE RefCore ------------------------------
(***************************************************************************)
(* The reference the simulator steps once per commit of the CPU: rv_core,  *)
(* an instruction-set simulator with no pipeline, here over the decoded    *)
(* instructions of Isa.  A trap goes to the vector mtvec resets to, where  *)
(* the test programs have no handler.  rv_core fetches from the memory it  *)
(* stores to; image is what was loaded, and Difftest watches for the point *)
(* from which the two differ (codeKept).                                   *)
(***************************************************************************)
EXTENDS Isa

CONSTANTS
    RvTest,          \* run_riscv_test: the -rvtest option
    InitGprs,        \* init_gprs: the -initgprs option, register r starts as r
    A0, A7,          \* the argument registers of an ecall
    ExitCall,        \* 93, the system call that ends a test
    TrapPc,          \* where a trap goes
    Aligned(_),      \* pc is a multiple of 4
    Mapped(_),       \* memory is mapped at pc
    Faults(_, _),    \* a load or store is misaligned or unmapped, given src1
    EndsTest(_, _, _), \* a store of 1 to tohost, given src1, src2
    MaxCycle         \* the step at which rv_core gives up a test (2e6)

VARIABLES
    image,   \* program memory as it was loaded
    rpc,     \* rv_core.pc
    gpr,     \* rv_core.GPR
    rmem,    \* data memory
    cycle,   \* rv_priv.mcycle
    debug,   \* rv_core.debug_pc, debug_reg_num, debug_reg_wdata, debug_is_branch
    exited   \* how the process ended, "no" while it has not

rvars == <<image, rpc, gpr, rmem, cycle, debug, exited>>

RefTypeOK ==
    /\ rpc \in Word
    /\ gpr \in [Reg -> Word]
    /\ rmem \in [Line -> Word]
    /\ cycle \in Nat /\ (RvTest => cycle <= MaxCycle)
    /\ debug \in [pc : Word, rd : Reg, wdata : Word, branch : BOOLEAN]
    /\ exited \in {"no", "pass", "fail", "timeout"}

RefInit ==
    /\ rpc = PcInit
    /\ gpr = [r \in Reg |-> IF InitGprs THEN r ELSE 0]
    /\ cycle = 0
    /\ debug = [pc |-> 0, rd |-> 0, wdata |-> 0, branch |-> FALSE]
    /\ exited = "no"
-----------------------------------------------------------------------------
RefInst == image[rpc]
RefSrc1 == Src1(RefInst, gpr)
RefSrc2 == Src2(RefInst, gpr)

IsEcall == RefInst.fusel = "csr"

RefTaken == Branches(RefInst, RefSrc1, RefSrc2)

FetchOk == Aligned(rpc) /\ Mapped(rpc)

\* exec() ends in exit(): at an exit ecall, or at the store that reports success.
ExitStatus ==
    CASE FetchOk /\ IsEcall /\ RvTest /\ gpr[A7] = ExitCall ->
             IF gpr[A0] = 0 THEN "pass" ELSE "fail"
      [] /\ FetchOk /\ IsStore(RefInst) /\ RvTest
         /\ ~Faults(RefInst, RefSrc1)
         /\ EndsTest(RefInst, RefSrc1, RefSrc2) -> "pass"
      [] OTHER -> "no"

\* The instruction cannot be fetched, is illegal, calls the environment, jumps
\* to a misaligned address or accesses memory it may not.  The target is that of the
\* CPU: with an odd rs1 a jalr of rv_core has another one, and always traps.  That is
\* not seen here; Datapath compares the two (JumpsAgree).
Traps ==
    \/ ~FetchOk
    \/ RefInst = Undecoded
    \/ IsEcall
    \/ RefTaken /\ ~Aligned(Target(RefInst, rpc, RefSrc1))
    \/ RefInst.fusel = "lsu" /\ Faults(RefInst, RefSrc1)

RefValue == IF IsLoad(RefInst)
            THEN Extract(RefInst, RefSrc1, rmem[LineOf(RefInst, RefSrc1)])
            ELSE Result(RefInst, rpc, RefSrc1, RefSrc2)

\* An instruction with its effects; set_GPR leaves x0 alone.
Execute ==
    /\ rpc' = IF RefTaken THEN Target(RefInst, rpc, RefSrc1) ELSE NextPc(rpc)
    /\ gpr' = Written(gpr, Dest(RefInst), RefValue)
    /\ rmem' = IF IsStore(RefInst) THEN Stored(RefInst, RefSrc1, RefSrc2, rmem) ELSE rmem
    /\ debug' = [pc |-> rpc, rd |-> Dest(RefInst),
                 wdata |-> RefValue, branch |-> RefTaken]

\* A conditional branch is marked as one before its target is checked.
Trap ==
    /\ rpc' = TrapPc
    /\ debug' = [pc |-> rpc, rd |-> 0, wdata |-> 0,
                 branch |-> FetchOk /\ RefTaken /\ RefInst.type = "B"]
    /\ UNCHANGED <<gpr, rmem>>

Exit(status) ==
    /\ exited' = status
    /\ UNCHANGED <<rpc, gpr, rmem, cycle, debug>>

\* Mutant: no limit on the number of steps.
StepUnlimited ==
    /\ IF ExitStatus # "no" THEN Exit(ExitStatus)
       ELSE /\ cycle' = IF cycle < MaxCycle THEN cycle + 1 ELSE cycle
            /\ IF Traps THEN Trap ELSE Execute
            /\ UNCHANGED exited
    /\ UNCHANGED image

\* One call of step(): exec() counts the cycle, then executes one instruction.
Step ==
    /\ IF RvTest /\ cycle >= MaxCycle THEN Exit("timeout")
       ELSE IF ExitStatus # "no" THEN Exit(ExitStatus)
       ELSE /\ cycle' = cycle + 1
            /\ IF Traps THEN Trap ELSE Execute
            /\ UNCHANGED exited
    /\ UNCHANGED image
=============================================================================
