------------------------------ MODULE Difftest ------------------------------
(***************************************************************************)
(* riscv_test_run of sim_mycpu.cpp: the CPU (Pipeline) and the reference   *)
(* (RefCore) run the same program, each on its own copy of memory, and     *)
(* every instruction the CPU commits is compared with what the reference   *)
(* did in its place.  One step is one iteration of the loop, half a clock  *)
(* cycle.                                                                  *)
(*                                                                         *)
(* In the code instructions come from the same memory as data; here they   *)
(* come from prog, which stays as it is.  That is right up to the first    *)
(* fetch, of the CPU or the reference, from a line whose contents have     *)
(* changed (codeKept); nothing is said of CPU and reference after it.      *)
(***************************************************************************)
EXTENDS Pipeline

CONSTANTS
    RvTest, InitGprs, A0, A7, ExitCall, TrapPc, Aligned(_), Mapped(_),
    Faults(_, _), EndsTest(_, _, _), MaxCycle,   \* as in RefCore
    CodeLine(_),     \* the line of memory an instruction is fetched from, given its pc
    Options(_),      \* the command lines a program is run with
    SimTime,         \* initial sim_time
    ResetTicks,      \* iterations under reset (10)
    CommitTimeout,   \* iterations without a commit before giving up (3000)
    Delay            \* mismatches tolerated with -delay (1500)

ASSUME RefAssumption ==
    /\ {RvTest, InitGprs} \subseteq BOOLEAN
    /\ InitGprs => Reg \subseteq Word
    /\ {A0, A7} \subseteq Reg /\ ExitCall \in Word
    /\ TrapPc \in Word /\ ~Mapped(TrapPc)
    /\ MaxCycle \in Nat

CommandLines == [hasDelaySlot : BOOLEAN, shouldDelay : BOOLEAN,
                 dumpPcHistory : BOOLEAN, traceOn : BOOLEAN]

ASSUME HarnessAssumption ==
    /\ {SimTime, ResetTicks} \subseteq Nat \ {0}
    /\ CommitTimeout \in Nat /\ CommitTimeout > ResetTicks + 11   \* filling the pipeline
    /\ Delay \in Nat /\ Delay >= 10
    /\ \A p \in Programs : Options(p) \subseteq CommandLines

VARIABLES
    rpc, gpr, rmem, cycle, debug, exited,   \* the reference, see RefCore
    options,    \* hasdelayslot, delay, pc and trace
    clock,      \* top->clock
    resetLeft,  \* rst_ticks
    simTime,    \* sim_time
    idle,       \* ticks - last_commit
    slots,      \* delayslot_cnt
    armed,      \* delayslot_flag
    delay,      \* mismatches still tolerated with -delay
    running,    \* the loop's condition
    \* history, not in the code:
    mismatched, \* an "Error!" was reported
    stuck,      \* a "CPU stuck" was reported
    recent,     \* destinations of the last three instructions committed
    clean,      \* the program has kept the rules of the exposed pipeline so far
    overwritten, \* lines that stores have changed, in one of the memories or both
    codeKept    \* no instruction has been fetched from one of these

Ref == INSTANCE RefCore WITH image <- prog

HasDelaySlot  == options.hasDelaySlot   \* a branch has two slots
ShouldDelay   == options.shouldDelay    \* run on after a mismatch
DumpPcHistory == options.dumpPcHistory
TraceOn       == options.traceOn        \* sim_time bounds the iterations

dutVars  == <<prog, fstate, pc, irdata, id, ex, mem, wb, regs, dmem, drdata>>
refVars  == <<rpc, gpr, rmem, cycle, debug, exited>>
history  == <<mismatched, stuck, recent, clean, overwritten, codeKept>>
allVars  == <<dutVars, refVars, options, clock, resetLeft, simTime, idle, slots, armed,
              delay, running, history>>

\* The counters of the loop, and its flags.
CountersTypeOK ==
    /\ options \in CommandLines
    /\ resetLeft \in 0..ResetTicks
    /\ simTime \in 0..SimTime
    /\ idle \in 0..CommitTimeout
    /\ slots \in 0..2
    /\ delay \in -1..Delay
    /\ recent \in Reg \X Reg \X Reg

FlagsTypeOK ==
    /\ clock \in BOOLEAN /\ armed \in BOOLEAN /\ running \in BOOLEAN
    /\ mismatched \in BOOLEAN /\ stuck \in BOOLEAN /\ clean \in BOOLEAN

CodeTypeOK == overwritten \subseteq Line /\ codeKept \in BOOLEAN

\* Types of the harness's variables, with those of the CPU and of the reference
\* (sim_mycpu.cpp:114-118).
DifftestTypeOK == TypeOK /\ Ref!RefTypeOK /\ CountersTypeOK /\ FlagsTypeOK /\ CodeTypeOK

DifftestInit ==
    /\ Init
    /\ Ref!RefInit /\ rmem = dmem
    /\ options \in Options(prog)
    /\ clock = FALSE
    /\ resetLeft = ResetTicks
    /\ simTime = SimTime
    /\ idle = 0
    /\ slots = 0
    /\ armed = TRUE
    /\ delay = Delay
    /\ running = TRUE
    /\ mismatched = FALSE
    /\ stuck = FALSE
    /\ recent = <<0, 0, 0>>
    /\ clean = (prog[PcInit].fusel # "csr")   \* an ecall repeats a commit: there is none
    /\ overwritten = {}
    /\ codeKept = TRUE
-----------------------------------------------------------------------------
(* The rules a program for this pipeline has to keep (history only). *)

IsNop(i) == i.fusel = "alu" /\ i # Undecoded /\ Dest(i) = 0

\* The reference is about to execute an instruction that reads no register one
\* of the three instructions before it writes, does not trap unless it ends the
\* test, and if it branches does so in delay-slot mode with two nops in its slots.
KeepsRules ==
    /\ \A k \in 1..3 : recent[k] # 0 => recent[k] \notin Reads(prog[rpc])
    /\ Ref!Traps => Ref!ExitStatus # "no"
    /\ Ref!RefTaken => /\ HasDelaySlot
                       /\ IsNop(prog[NextPc(rpc)]) /\ IsNop(prog[NextPc(NextPc(rpc))])

RefSteps == ~HasDelaySlot \/ slots = 0

\* Called at each commit, before the reference steps.
Observe ==
    /\ clean' = (clean /\ (RefSteps => KeepsRules))
    /\ recent' = <<recent[2], recent[3], IF RefSteps THEN Dest(prog[rpc]) ELSE 0>>

\* At each rising edge out of reset: what it has changed in the two memories, and
\* whether an instruction fetched now, by the CPU at this edge or by the reference at
\* its next step, comes from there.
WatchCode ==
    /\ overwritten' = overwritten \cup
                         {l \in Line : dmem'[l] # dmem[l] \/ rmem'[l] # rmem[l]}
    /\ codeKept' = (codeKept /\ {CodeLine(pc'), CodeLine(rpc')} \cap overwritten' = {})

\* The program has kept all rules.
Ruled == clean /\ codeKept
-----------------------------------------------------------------------------
(* One iteration of the loop. *)

\* Mutant: the value written is not compared.
DiffersNoData == /\ \/ wb'.pc # debug'.pc
                    \/ debug'.rd # 0 /\ wb'.inst.rd # debug'.rd
                 /\ slots = 0

\* The debug port after this clock edge against the debug fields of the step.
Differs == /\ \/ wb'.pc # debug'.pc
              \/ /\ debug'.rd # 0
                 /\ \/ wb'.inst.rd # debug'.rd
                    \/ wb'.wdata # debug'.wdata
           /\ slots = 0

\* Mutant: the counter is decremented before it is compared with zero.
ToleratePreDecrement ==
    LET dumps == DumpPcHistory /\ delay = 10
        left  == IF DumpPcHistory THEN delay - 1 ELSE delay
    IN  IF ~ShouldDelay THEN running' = FALSE /\ UNCHANGED delay
        ELSE IF dumps THEN delay' = left /\ UNCHANGED running
        ELSE delay' = left - 1 /\ running' = (running /\ left - 1 # 0)

\* The delay counter is decremented by each comparison that is evaluated, so
\* with -pc a mismatch may count twice.
Tolerate ==
    LET dumps == DumpPcHistory /\ delay = 10
        left  == IF DumpPcHistory THEN delay - 1 ELSE delay
    IN  IF ~ShouldDelay THEN running' = FALSE /\ UNCHANGED delay
        ELSE IF dumps THEN delay' = left /\ UNCHANGED running
        ELSE delay' = left - 1 /\ running' = (running /\ left # 0)

Compare ==
    IF Differs THEN Tolerate /\ mismatched' = TRUE
               ELSE UNCHANGED <<running, delay, mismatched>>

\* Mutant: a branch has one slot.
CountSlotsOne ==
    LET armedNow == armed \/ slots = 0
        left     == IF slots > 0 THEN slots - 1 ELSE 0
    IN  IF ~HasDelaySlot THEN UNCHANGED <<slots, armed>>
        ELSE IF debug'.branch /\ armedNow THEN slots' = 1 /\ armed' = FALSE
        ELSE slots' = left /\ armed' = armedNow

\* Mutant: the counter runs on below zero.
CountSlotsUnguarded ==
    LET armedNow == armed \/ slots = 0
    IN  IF ~HasDelaySlot THEN UNCHANGED <<slots, armed>>
        ELSE IF debug'.branch /\ armedNow THEN slots' = 2 /\ armed' = FALSE
        ELSE slots' = slots - 1 /\ armed' = armedNow

\* The slots of a branch are committed by the CPU only.
CountSlots ==
    LET armedNow == armed \/ slots = 0
        left     == IF slots > 0 THEN slots - 1 ELSE 0
    IN  IF ~HasDelaySlot THEN UNCHANGED <<slots, armed>>
        ELSE IF debug'.branch /\ armedNow THEN slots' = 2 /\ armed' = FALSE
        ELSE slots' = left /\ armed' = armedNow

\* A rising edge at which the CPU commits an instruction.
Retire ==
    /\ IF RefSteps THEN Ref!Step ELSE UNCHANGED refVars
    /\ Observe
    /\ IF exited' # "no"
       THEN UNCHANGED <<running, delay, mismatched, slots, armed, idle, stuck>>
       ELSE /\ Compare
            /\ CountSlots
            /\ idle' = 1
            /\ UNCHANGED stuck

\* Any other iteration: the reference rests, and the CPU may count as stuck.
NoRetire ==
    /\ idle' = idle + 1
    /\ stuck' = (idle' >= CommitTimeout)
    /\ running' = ~stuck'
    /\ UNCHANGED <<refVars, slots, armed, delay, mismatched, recent, clean>>

Continues == running /\ simTime > 0 /\ exited = "no"

Count == /\ clock' = ~clock
         /\ resetLeft' = IF resetLeft > 0 THEN resetLeft - 1 ELSE 0
         /\ simTime' = IF TraceOn THEN simTime - 1 ELSE simTime

RisingEdge ==
    /\ Continues /\ ~clock /\ resetLeft = 0
    /\ Count /\ UNCHANGED options
    /\ Clock
    /\ IF wb'.valid THEN Retire ELSE NoRetire
    /\ WatchCode

\* The CPU does nothing at a falling edge, and a rising edge under reset leaves
\* it in its initial state.
OtherEdge ==
    /\ Continues /\ (clock \/ resetLeft > 0)
    /\ Count
    /\ UNCHANGED <<dutVars, options, overwritten, codeKept>>
    /\ NoRetire

\* The loop has ended, or exit() was called.
Ended == ~Continues /\ UNCHANGED allVars

DifftestNext == RisingEdge \/ OtherEdge \/ Ended

DifftestSpec == DifftestInit /\ [][DifftestNext]_allVars /\ WF_allVars(RisingEdge \/ OtherEdge)
-----------------------------------------------------------------------------
\* A program that keeps the rules of the pipeline is never blamed: no mismatch
\* is reported and the CPU is never declared stuck (sim_mycpu.cpp:165, 204).
NoFalseAlarm == Ruled => ~mismatched /\ ~stuck

\* As long as nothing was reported, comparing the writes of each commit has been
\* enough: without delay slots, the two register files agree, once the write
\* that is committing is counted in, whichever rules of the pipeline the program breaks,
\* as long as it runs no code it has changed.  (After a trap of the reference the
\* difference shows one commit later.  Over changed code it may never show: the CPU
\* commits the instruction it fetched before the store, the reference the new one, and
\* if that writes no register only the pcs are compared, sim_mycpu.cpp:165-168.)
ComparisonIsSound ==
    ~HasDelaySlot /\ codeKept /\ ~mismatched /\ exited = "no" /\ rpc # TrapPc =>
        gpr = IF wb.valid THEN Written(regs, Dest(wb.inst), wb.wdata) ELSE regs

\* The CPU's memory is that of the reference, but for the line the store in the
\* memory stage, ahead of its commit, has already changed.
MemoriesAgree ==
    Ruled /\ exited = "no" =>
        \A l \in Line : dmem[l] # rmem[l] =>
            mem.valid /\ IsStore(mem.inst) /\ l = LineOf(mem.inst, mem.src1)

\* With -delay the run ends when the tolerated mismatches are used up: the
\* counter never passes zero with the loop still running, although it drops by
\* two, one or again two for a mismatch with -pc (sim_mycpu.cpp:180-183).
BudgetEndsTheRun == delay < 0 => ~running

-----------------------------------------------------------------------------
(* The invariants these rest on. *)

\* What travels in a stage is the instruction of the program at the pc beside it.
StagesMatchPc == /\ ex.valid => ex.inst = prog[ex.pc]
                 /\ mem.valid => mem.inst = prog[mem.pc]
                 /\ wb.valid => wb.inst = prog[wb.pc]

\* Slots are counted down in delay-slot mode only, and nothing arms the counter
\* meanwhile; below 10, the budget of -delay with -pc is odd, so that counting twice
\* cannot step over the end.
CountersInv == /\ slots > 0 => HasDelaySlot /\ ~armed
               /\ running => delay >= 0 /\ idle < CommitTimeout
               /\ running /\ DumpPcHistory /\ delay < 10 => delay % 2 = 1

\* Iterations before the next rising edge out of reset, at most, and rising edges
\* before the first commit.
EdgeIn   == IF resetLeft > 0 THEN resetLeft + 1 ELSE IF clock THEN 1 ELSE 0
FillLeft == IF fstate = "boot" THEN 5
            ELSE IF fstate = "send" THEN 4
            ELSE IF ~id.valid THEN 3
            ELSE IF ~ex.valid THEN 2
            ELSE IF ~mem.valid THEN 1 ELSE 0

\* The first commit comes in time, and each one after it.
CommitIsNear == idle + EdgeIn + 2 * FillLeft <= ResetTicks + 11

\* The registers once the write that is committing is counted in.
Committed == IF wb.valid THEN Written(regs, Dest(wb.inst), wb.wdata) ELSE regs

\* The registers as the instructions in execute and in memory have read them: x and y
\* have been overwritten since.
ReadByEx(y)     == Written(regs, recent[2], y)
ReadByMem(x, y) == Written(ReadByEx(y), recent[1], x)

ExInFlight ==
    \E y \in Word : /\ ex.src1 = Src1(ex.inst, ReadByEx(y))
                   /\ ex.src2 = Src2(ex.inst, ReadByEx(y))

\* The instruction in memory has had all its effects but the register write.
MemInFlight ==
    \E x, y \in Word :
        LET i == mem.inst
            s == Src1(i, ReadByMem(x, y))
            t == Src2(i, ReadByMem(x, y))
        IN  /\ mem.src1 = s
            /\ i.fusel # "lsu" => mem.wdata = Result(i, mem.pc, s, t)
            /\ dmem = IF IsStore(i) THEN Stored(i, s, t, rmem) ELSE rmem
            /\ pc = IF Branches(i, s, t) THEN Target(i, mem.pc, s) ELSE NextPc(id.pc)

\* Nothing has reached the memory stage yet.
Filling ==
    /\ ~mem.valid /\ slots = 0
    /\ rpc = PcInit /\ prog[PcInit].fusel # "csr"
    /\ dmem = rmem /\ recent = <<0, 0, 0>>
    /\ ex.valid => /\ ex.pc = PcInit /\ id.pc = NextPc(PcInit) /\ pc = NextPc(id.pc)
                   /\ ExInFlight
    /\ id.valid /\ ~ex.valid => id.pc = PcInit /\ pc = NextPc(id.pc)

\* The next instruction of the reference is in memory, or behind the slots of the
\* branch it has executed last.
Flowing ==
    /\ mem.valid
    /\ slots = 0 => mem.pc = rpc /\ ex.pc = NextPc(rpc) /\ id.pc = NextPc(ex.pc)
    /\ slots = 1 => IsNop(mem.inst) /\ ex.pc = rpc /\ id.pc = NextPc(rpc)
    /\ slots = 2 => IsNop(mem.inst) /\ IsNop(ex.inst) /\ id.pc = rpc
    /\ MemInFlight /\ ExInFlight

\* The next instruction of the reference is an ecall, for which the memory stage
\* holds what has committed already.
Held == mem.valid /\ slots = 0 /\ dmem = rmem /\ prog[rpc].fusel = "csr"

\* While a program keeps the rules, the CPU is ahead of the reference by what is in
\* its stages, and by nothing else.
InStep ==
    /\ Ruled => ~mismatched /\ ~stuck
    /\ Ruled /\ exited = "no" =>
          /\ CommitIsNear
          /\ gpr = Committed
          /\ recent[3] = IF wb.valid THEN Dest(wb.inst) ELSE 0
          /\ Filling \/ Flowing \/ Held

\* What every iteration preserves (sim_mycpu.cpp:119-213).
DifftestInv == DifftestTypeOK /\ StagesMatchPc /\ CountersInv /\ InStep
-----------------------------------------------------------------------------
\* With -rvtest the loop always ends, also when the program loops for ever: by a
\* mismatch, a stuck CPU, an exit or the step limit of the reference.
Terminates == RvTest => <>~Continues
=============================================================================
