------------------------------ MODULE MCUnits ------------------------------
(***************************************************************************)
(* Small data-path units for the instances TLC checks: sixteen words,      *)
(* program counters counted in instructions, two lines of memory, and one  *)
(* instruction of each kind the pipeline treats differently.               *)
(***************************************************************************)
EXTENDS Integers, Sequences

W == 16
MCReg  == 0..3
MCWord == 0..(W - 1)
MCLine == 0..1
MCPcInit == 2

MCNextPc(p) == (p + 1) % W
MCPrevPc(p) == (p + W - 1) % W

MCAluMdu(i, p, a, b) == CASE i.op = "add"   -> (a + b) % W
                          [] i.op = "auipc" -> (p + i.imm) % W
                          [] OTHER          -> (a * b) % W
MCHolds(op, a, b) == IF op = "beq" THEN a = b ELSE a < b
MCTarget(i, p, a) == IF i.op = "jalr" THEN (a + i.imm) % W ELSE (p + i.imm) % W
MCLineOf(i, a) == (a + i.imm) % 2
MCMerge(i, a, b, l) == IF i.op = "sb" THEN (l \div 4) * 4 + (b % 4) ELSE b
MCExtract(i, a, l) == IF i.op = "lb" THEN l % 4 ELSE l

Ins(type, fusel, op, rd, rs1, rs2, imm) ==
    [type |-> type, fusel |-> fusel, op |-> op, rd |-> rd, rs1 |-> rs1, rs2 |-> rs2, imm |-> imm]

Addi(rd, rs1, imm) == Ins("I", "alu", "add", rd, rs1, 0, imm)
AddR(rd, rs1, rs2) == Ins("R", "alu", "add", rd, rs1, rs2, 0)
Mul(rd, rs1, rs2)  == Ins("R", "mdu", "mul", rd, rs1, rs2, 0)
Auipc(rd, imm)     == Ins("U", "alu", "auipc", rd, 0, 0, imm)
Load(op, rd, rs1, imm)   == Ins("I", "lsu", op, rd, rs1, 0, imm)
Store(op, rs2, rs1, imm) == Ins("S", "lsu", op, imm % 4, rs1, rs2, imm)
Br(op, rs1, rs2, imm)    == Ins("B", "bru", op, imm % 4, rs1, rs2, imm)
Jal(rd, imm)       == Ins("J", "bru", "jal", rd, 0, 0, imm)
Jalr(rd, rs1, imm) == Ins("I", "bru", "jalr", rd, rs1, 0, imm)
Ecall == Ins("Sys", "csr", "ecall", 0, 0, 0, 0)
Nop   == Addi(0, 0, 0)

\* Program memory with the sequence s from PcInit on and f elsewhere.
Load0(s, f) == [p \in MCWord |-> IF p - MCPcInit + 1 \in DOMAIN s
                                 THEN s[p - MCPcInit + 1] ELSE f]

MCImages == {[l \in MCLine |-> 5 + l]}
=============================================================================
