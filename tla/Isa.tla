-------------------------------- MODULE Isa --------------------------------
(***************************************************************************)
(* The vocabulary the CPU models share: decoded instructions, and what the *)
(* combinational units of the data path make of one.                       *)
(*                                                                         *)
(* An instruction is the record the Decoder produces for it (class Info of *)
(* Bundles.scala); program memory holds these records instead of their     *)
(* 32-bit encodings.  The arithmetic of the units is left to the constant  *)
(* operators below, so that what is said of the pipeline is said for every *)
(* ALU, multiplier, comparator and byte-lane network.                      *)
(***************************************************************************)
EXTENDS Integers, Sequences

CONSTANTS
    Reg,                  \* register numbers (AREG_NUM of them), 0 included
    Word,                 \* XLEN-bit values, program counters included
    Inst,                 \* the instructions programs are made of
    Line,                 \* addresses of the lines of data memory, XLEN bits each
    Programs,             \* the programs instruction memory may hold
    Images,               \* the initial contents of data memory
    PcInit,               \* PC_INIT
    NextPc(_),            \* pc + 4
    PrevPc(_),            \* pc - 4
    AluMdu(_, _, _, _),   \* result of Alu or Mdu: instruction, pc, src1, src2
    Holds(_, _, _),       \* Bru: condition of the branch op on src1, src2
    Target(_, _, _),      \* Bru: target of an instruction at pc, given src1
    LineOf(_, _),         \* Lsu: the line a load or store addresses, given src1
    Merge(_, _, _, _),    \* Lsu: instruction, src1, src2, old line |-> new line
    Extract(_, _, _)      \* M_Lsu: instruction, src1, line |-> loaded value

\* What the Decoder outputs for a word that matches no row of DecodeTable: an
\* add of two zeros that writes no register.
Undecoded == [type |-> "N", fusel |-> "alu", op |-> "add",
              rd |-> 0, rs1 |-> 0, rs2 |-> 0, imm |-> 0]

\* The rows of the decode table, by instruction type and functional unit (InstrN,
\* which marks an illegal instruction, has none).
DecodeRows == ({"I", "R", "U"} \X {"alu"}) \cup ({"R"} \X {"mdu"})
              \cup ({"I", "S"} \X {"lsu"}) \cup ({"I", "B", "J"} \X {"bru"})
              \cup ({"Sys"} \X {"csr"})

ASSUME RegAssumption == 0 \in Reg /\ Reg \subseteq Nat

ASSUME WordAssumption == 0 \in Word /\ PcInit \in Word

ASSUME MemoryAssumption == Programs \subseteq [Word -> Inst] /\ Images \subseteq [Line -> Word]

ASSUME InstAssumption ==
    /\ Undecoded \in Inst
    /\ \A i \in Inst \ {Undecoded} :
          /\ i = [type |-> i.type, fusel |-> i.fusel, op |-> i.op,
                  rd |-> i.rd, rs1 |-> i.rs1, rs2 |-> i.rs2, imm |-> i.imm]
          /\ <<i.type, i.fusel>> \in DecodeRows
          /\ {i.rd, i.rs1, i.rs2} \subseteq Reg
          /\ i.imm \in Word
          /\ i.type = "Sys" => i.rd = 0

ASSUME PcAssumption ==
    /\ \A p \in Word : NextPc(p) \in Word /\ PrevPc(p) \in Word
    /\ NextPc(PrevPc(PcInit)) = PcInit

ASSUME UnitAssumption ==
    /\ \A i \in Inst, p, a, b \in Word : AluMdu(i, p, a, b) \in Word
    /\ \A i \in Inst, p, a \in Word : Target(i, p, a) \in Word
    /\ \A i \in Inst, a \in Word : LineOf(i, a) \in Line
    /\ \A i \in Inst, a, b, l \in Word : Merge(i, a, b, l) \in Word
    /\ \A i \in Inst, a, l \in Word : Extract(i, a, l) \in Word

\* What the operand multiplexers deliver for fields an instruction does not have is
\* not looked at: rs2 of auipc and lui, rs1 of jal.
ASSUME OperandAssumption ==
    \A i \in Inst, p, a, b, c \in Word :
        /\ i.type = "U" => AluMdu(i, p, a, b) = AluMdu(i, p, a, c)
        /\ i.type = "J" => Target(i, p, b) = Target(i, p, c)
-----------------------------------------------------------------------------
(* Decoder.scala and DecodeUnit.scala. *)

RegWen(i) == i.type \notin {"S", "B", "N"}

\* The register an instruction writes; 0 stands for none, x0 being read-only.
Dest(i) == IF RegWen(i) THEN i.rd ELSE 0

IsLoad(i)  == i.fusel = "lsu" /\ i.type = "I"
IsStore(i) == i.fusel = "lsu" /\ i.type = "S"

\* The registers an instruction has a use for.
Reads(i) == (IF i.type \in {"I", "R", "S", "B"} THEN {i.rs1} ELSE {})
            \cup (IF i.type \in {"R", "S", "B"} THEN {i.rs2} ELSE {})

\* The operands: an instruction of type I takes its immediate as src2, one of
\* type U reads x0 as src1, an undecoded one gets its (zero) immediate.
Src1(i, rf) == IF i.type = "N" THEN i.imm
               ELSE IF i.type = "U" THEN rf[0]
               ELSE rf[i.rs1]

Src2(i, rf) == IF i.type = "N" THEN 0
               ELSE IF i.type = "I" THEN i.imm
               ELSE rf[i.rs2]

(* Fu.scala, Bru.scala, Lsu.scala. *)

\* jal (J) and jalr (I) always branch, a conditional branch (B) when it holds.
Branches(i, a, b) == i.fusel = "bru" /\ (i.type = "B" => Holds(i.op, a, b))

\* The result of every unit but the load half of the Lsu.
Result(i, p, a, b) == IF i.fusel \in {"alu", "mdu"} THEN AluMdu(i, p, a, b)
                      ELSE IF i.fusel = "bru" /\ i.type # "B" THEN NextPc(p)
                      ELSE 0

\* Data memory after a store.
Stored(i, a, b, m) == [m EXCEPT ![LineOf(i, a)] = Merge(i, a, b, @)]

\* The register file after a write: x0 is never written.
Written(rf, r, v) == IF r = 0 THEN rf ELSE [rf EXCEPT ![r] = v]

(* WriteBackUnit.scala. *)

\* What the debug port shows of an instruction at p that writes v to register r
\* (0: it writes none, and the data is not looked at).
Commit(p, r, v) == [valid |-> TRUE, pc |-> p, rd |-> r, wdata |-> IF r = 0 THEN 0 ELSE v]

\* The slot of a pipeline stage that has not been filled yet.
Bubble == [valid |-> FALSE, pc |-> 0, rd |-> 0, wdata |-> 0]
=============================================================================
