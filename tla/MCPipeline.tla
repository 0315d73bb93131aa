----------------------------- MODULE MCPipeline -----------------------------
(***************************************************************************)
(* Instance of the pipeline for TLC: every program of ProgLen instructions *)
(* over Kinds, repeated for ever as the program counter wraps around.      *)
(***************************************************************************)
EXTENDS RuledPipeline, MCUnits

CONSTANT ProgLen

Kinds == {Addi(1, 1, 3), Mul(2, 1, 1), Auipc(2, 1), Addi(0, 1, 1),
          Load("lb", 1, 2, 0), Store("sd", 1, 2, 2), Store("sb", 2, 0, 1),
          Br("blt", 2, 1, 3), Jal(1, W - 2), Jalr(2, 1, 1), Ecall}

MCInst == Kinds \cup {Undecoded}

MCPrograms == {Load0(s, Undecoded) : s \in [1..ProgLen -> Kinds]}
=============================================================================
