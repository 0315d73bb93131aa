--------------------------- MODULE SequentialISA ---------------------------
(***************************************************************************)
(* The machine a programmer would like the pipeline to be: one instruction *)
(* per step, which sees everything the ones before it did, with no delay   *)
(* slots.  Its promise ends where the program breaks the rules the         *)
(* pipeline needs (free).  The program is not part of memory.              *)
(***************************************************************************)
EXTENDS Isa

VARIABLES
    prog,    \* the program
    pc,      \* the next program counter
    regs,    \* the registers
    memory,  \* data memory
    free     \* a rule has been broken: anything may happen

vars == <<prog, pc, regs, memory, free>>

Init == /\ prog \in Programs
        /\ pc = PcInit
        /\ regs = [r \in Reg |-> 0]
        /\ memory \in Images
        /\ free = FALSE

\* An ecall, like an undecoded word, does nothing.
Step ==
    LET i == prog[pc]
        a == Src1(i, regs)
        b == Src2(i, regs)
    IN  /\ pc' = IF Branches(i, a, b) THEN Target(i, pc, a) ELSE NextPc(pc)
        /\ regs' = Written(regs, Dest(i), IF IsLoad(i)
                                          THEN Extract(i, a, memory[LineOf(i, a)])
                                          ELSE Result(i, pc, a, b))
        /\ memory' = IF IsStore(i) THEN Stored(i, a, b, memory) ELSE memory
        /\ UNCHANGED <<prog, free>>

Next == Step \/ free'

Safety == Init /\ [][Next]_vars
=============================================================================
