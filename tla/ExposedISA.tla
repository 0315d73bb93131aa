----------------------------- MODULE ExposedISA -----------------------------
(***************************************************************************)
(* What the five-stage pipeline promises to the programmer: a machine that *)
(* executes one instruction per step, with its timing exposed.  The        *)
(* pipeline neither forwards nor stalls nor flushes, so                    *)
(*   - the three most recent register writes are still on their way: an    *)
(*     instruction reads the registers as the fourth one before it left    *)
(*     them;                                                               *)
(*   - a branch has two delay slots, executed whether or not it is taken;  *)
(*   - memory, on the other hand, is accessed in program order;            *)
(*   - an ecall commits nothing of its own: the instruction before it      *)
(*     commits a second time in its place.                                 *)
(* The program is not part of memory: what stores do to instructions is    *)
(* not promised.                                                           *)
(***************************************************************************)
EXTENDS Isa

VARIABLES
    prog,     \* the program
    pcs,      \* the next three program counters
    regs,     \* the registers an instruction issued now reads
    pending,  \* the last three commits, oldest first, not yet in regs
    memory    \* data memory

vars == <<prog, pcs, regs, pending, memory>>

Init == /\ prog \in Programs
        /\ pcs = <<PcInit, NextPc(PcInit), NextPc(NextPc(PcInit))>>
        /\ regs = [r \in Reg |-> 0]
        /\ pending = <<Bubble, Bubble, Bubble>>
        /\ memory \in Images

\* The commit of instruction i at p: an ecall repeats the one before it.
CommitOf(i, p, a, b) ==
    IF i.fusel = "csr" THEN pending[3]
    ELSE Commit(p, Dest(i), IF IsLoad(i) THEN Extract(i, a, memory[LineOf(i, a)])
                                         ELSE Result(i, p, a, b))

Issue ==
    LET i == prog[pcs[1]]
        a == Src1(i, regs)
        b == Src2(i, regs)
    IN  /\ pcs' = <<pcs[2], pcs[3],
                    IF Branches(i, a, b) THEN Target(i, pcs[1], a) ELSE NextPc(pcs[3])>>
        /\ regs' = Written(regs, pending[1].rd, pending[1].wdata)
        /\ pending' = <<pending[2], pending[3], CommitOf(i, pcs[1], a, b)>>
        /\ memory' = IF IsStore(i) THEN Stored(i, a, b, memory) ELSE memory
        /\ UNCHANGED prog

Next == Issue

\* What the machine may do.
Safety == Init /\ [][Next]_vars
=============================================================================
