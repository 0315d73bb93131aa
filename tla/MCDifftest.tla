----------------------------- MODULE MCDifftest -----------------------------
(***************************************************************************)
(* Instances of the simulator for TLC.  The programs follow the shape of   *)
(* the lab tests, with enough freedom in each place that most of them      *)
(* break a rule of the pipeline somewhere.                                 *)
(***************************************************************************)
EXTENDS Difftest, MCUnits

\* Pc 15 stands for a misaligned address, 0 (the trap vector) is unmapped.
MCAligned(p) == p # 15
MCMapped(p)  == p # 0
MCFaults(i, a) == (a + i.imm) % W = 15
MCEndsTest(i, a, b) == (a + i.imm) % W = 8 /\ b = 1

\* The instructions at 8 and 11, the last ones of the programs, share line 0 with data;
\* the others are in memory no store reaches.
MCCodeLine(p) == IF p \in {8, 11} THEN 0 ELSE 2

Writers == {Addi(2, 0, 5), Addi(1, 0, 1), Load("ld", 2, 0, 0), Nop}
Fill    == {Nop, Addi(1, 0, 3), Store("sd", 2, 0, 1)}
Users   == {Mul(3, 2, 1), Store("sd", 2, 1, 7), Load("lb", 2, 1, 0), Auipc(2, 3),
            Jalr(1, 2, 3), Br("beq", 1, 3, 3), Ecall, Nop}

LastFill  == {Nop, Store("sd", 2, 0, 1)}
LastUsers == {Mul(3, 2, 1), Store("sd", 2, 1, 7), Jalr(1, 2, 3), Nop}

\* Straight-line shape of labs 1 to 4: a write, three fillers, two users.
PlainPrograms ==
    {Load0(<<a, b, c, d, e, f, Ecall>>, Undecoded) :
         a \in Writers, b \in Fill, c \in Fill, d \in LastFill, e \in Users, f \in LastUsers}

Jumps == {Jal(1, 3), Jalr(1, 2, 3), Br("beq", 1, 3, 4), Br("blt", 1, 2, 3), Jal(0, 14)}

LastJumps == {Nop, Jal(1, 3), Jalr(1, 2, 3), Br("beq", 1, 3, 4)}

Settings == {Addi(2, 0, 5), Addi(1, 0, 1), Nop}

\* Shape of lab 5: a branch or jump with two slots, forward or back.
SlotPrograms ==
    {Load0(<<a, b, Nop, Nop, j, c, d, e, f, Ecall>>, Undecoded) :
         a \in Settings, b \in Settings, j \in Jumps,
         c \in {Nop, Addi(3, 0, 2)}, d \in {Nop, Ecall}, e \in LastUsers, f \in LastJumps}

\* Shape of lab 1 (lab_test/lab1/test_gen.py:38-47): registers are set up by
\* adding x1, which nothing writes.
InitGprPrograms ==
    {Load0(<<AddR(r, 0, 0), Nop, Nop, Nop, AddR(r, r, 1), Nop, Nop, Nop, u, Ecall>>,
           Undecoded) : r \in {2, 3}, u \in {AddR(r, r, 1) : r \in {2, 3}} \cup {Nop}}

\* Straight-line programs run with -delay, -pc and -trace, branching ones with
\* -hasdelayslot and -pc.
Traced == [hasDelaySlot |-> FALSE, shouldDelay |-> TRUE, dumpPcHistory |-> TRUE,
           traceOn |-> TRUE]
Slotted == [hasDelaySlot |-> TRUE, shouldDelay |-> FALSE, dumpPcHistory |-> TRUE,
            traceOn |-> FALSE]
Simple  == [Slotted EXCEPT !.hasDelaySlot = FALSE]

\* Programs that begin with an ecall, or consist of nothing else.
EcallPrograms == {Load0(s, i) : s \in {<<Ecall, Nop>>, <<Ecall>>}, i \in {Ecall, Undecoded}}

MCPrograms == EcallPrograms \cup PlainPrograms \cup SlotPrograms
MCOptions(p) == (IF p \in EcallPrograms \cup PlainPrograms THEN {Traced} ELSE {})
                \cup (IF p \in SlotPrograms THEN {Slotted} ELSE {})
OnlySimple(p) == {Simple}

MCInst == Writers \cup Fill \cup {Addi(3, 0, 2)} \cup Users \cup Jumps \cup {Undecoded, Ecall}
          \cup {AddR(r, s, t) : r \in {2, 3}, s \in {0, 2, 3}, t \in {0, 1}}
=============================================================================
