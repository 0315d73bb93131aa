------------------------------- MODULE Decode -------------------------------
(***************************************************************************)
(* The decoder of the CPU (DecodeTable and Decoder) against the decoding   *)
(* of the reference (rv_instr and the switch of rv_core).  An instruction  *)
(* word is a record of the fields both cut it into; what they make of it   *)
(* is an operation with its registers and its immediate.                   *)
(***************************************************************************)
EXTENDS Integers, FiniteSets

CONSTANTS
    Funct7,   \* the values of funct7 to look at
    Triples   \* the values of rd, rs1 and rs2 to look at

ASSUME FieldAssumption ==
    Funct7 \subseteq 0..127 /\ Triples \subseteq (0..31) \X (0..31) \X (0..31)

VARIABLE word

Opcodes == {"LUI", "AUIPC", "JAL", "JALR", "BRANCH", "LOAD", "STORE", "OPIMM", "OPIMM32",
            "OP", "OP32", "FENCE", "SYSTEM", "AMO"}

Words == {[opc |-> o, f3 |-> f, f7 |-> g, rd |-> t[1], rs1 |-> t[2], rs2 |-> t[3]] :
            o \in Opcodes, f \in 0..7, g \in Funct7, t \in Triples}
-----------------------------------------------------------------------------
(* The table of the CPU: for each opcode its rows, with the values of funct3 *)
(* and funct7 that match.                                                    *)

Row(f3, f7, type, fusel, op) ==
    [f3 |-> f3, f7 |-> f7, type |-> type, fusel |-> fusel, op |-> op]

\* One row for each operation, with its funct3.
Rows(f7, type, fusel, ops) == {Row({ops[o]}, f7, type, fusel, o) : o \in DOMAIN ops}

Any3 == 0..7
Any7 == 0..127

DecodeTable ==
    [LUI     |-> {Row(Any3, Any7, "U", "alu", "lui")},
     AUIPC   |-> {Row(Any3, Any7, "U", "alu", "auipc")},
     JAL     |-> {Row(Any3, Any7, "J", "bru", "jal")},
     JALR    |-> {Row({0}, Any7, "I", "bru", "jalr")},
     BRANCH  |-> Rows(Any7, "B", "bru", [beq |-> 0, bne |-> 1, blt |-> 4, bge |-> 5,
                                         bltu |-> 6, bgeu |-> 7]),
     LOAD    |-> Rows(Any7, "I", "lsu", [lb |-> 0, lh |-> 1, lw |-> 2, ld |-> 3,
                                         lbu |-> 4, lhu |-> 5, lwu |-> 6]),
     STORE   |-> Rows(Any7, "S", "lsu", [sb |-> 0, sh |-> 1, sw |-> 2, sd |-> 3]),
     OPIMM   |-> Rows(Any7, "I", "alu", [add |-> 0, slt |-> 2, sltu |-> 3, xor |-> 4,
                                         or |-> 6, and |-> 7])
                 \cup Rows({0, 1}, "I", "alu", [sll |-> 1, srl |-> 5])
                 \cup Rows({32, 33}, "I", "alu", [sra |-> 5]),
     OPIMM32 |-> Rows(Any7, "I", "alu", [addw |-> 0])
                 \cup Rows({0}, "I", "alu", [sllw |-> 1, srlw |-> 5])
                 \cup Rows({32}, "I", "alu", [sraw |-> 5]),
     OP      |-> Rows({0}, "R", "alu", [add |-> 0, sll |-> 1, slt |-> 2, sltu |-> 3,
                                        xor |-> 4, srl |-> 5, or |-> 6, and |-> 7])
                 \cup Rows({32}, "R", "alu", [sub |-> 0, sra |-> 5])
                 \cup Rows({1}, "R", "mdu", [mul |-> 0, mulh |-> 1, mulhsu |-> 2,
                                             mulhu |-> 3, div |-> 4, divu |-> 5,
                                             rem |-> 6, remu |-> 7]),
     OP32    |-> Rows({0}, "R", "alu", [addw |-> 0, sllw |-> 1, srlw |-> 5])
                 \cup Rows({32}, "R", "alu", [subw |-> 0, sraw |-> 5])
                 \cup Rows({1}, "R", "mdu", [mulw |-> 0, divw |-> 4, divuw |-> 5,
                                             remw |-> 6, remuw |-> 7]),
     SYSTEM  |-> {Row({0}, {0}, "Sys", "csr", "ecall")},
     FENCE   |-> {},
     AMO     |-> {}]

\* Mutant: the patterns of shifts have a shift amount of five bits, as in RV32.
MatchesShamt5(w) == {r \in DecodeTable[w.opc] :
                       /\ w.f3 \in r.f3 /\ w.f7 \in r.f7
                       /\ r.op \in {"sll", "srl", "sra"} => w.f7 % 2 = 0
                       /\ r.op = "ecall" => w.rd = 0 /\ w.rs1 = 0 /\ w.rs2 = 0}

\* The rows a word matches; the pattern of ecall has no free bit.
Matches(w) == {r \in DecodeTable[w.opc] :
                 /\ w.f3 \in r.f3 /\ w.f7 \in r.f7
                 /\ r.op = "ecall" => w.rd = 0 /\ w.rs1 = 0 /\ w.rs2 = 0}

SignedBits(x, n) == IF x < 2^(n - 1) THEN x ELSE x - 2^n

\* Mutant: bit 7 of a branch is taken for the lowest bit of the offset's field.
ImmediateFlatB(type, w) ==
    CASE type = "I" -> SignedBits(w.f7 * 2^5 + w.rs2, 12)
      [] type = "U" -> SignedBits(w.f7 * 2^13 + w.rs2 * 2^8 + w.rs1 * 2^3 + w.f3, 20)
      [] type = "S" -> SignedBits(w.f7 * 2^5 + w.rd, 12)
      [] type = "B" -> SignedBits(w.f7 * 2^5 + w.rd, 12) * 2
      [] type = "J" -> SignedBits((w.f7 \div 2^6) * 2^20 + (w.rs1 * 2^3 + w.f3) * 2^12
                              + (w.rs2 % 2) * 2^11 + ((w.f7 % 2^6) * 2^4 + w.rs2 \div 2) * 2, 21)
      [] OTHER      -> 0

\* generateImm: the immediate of type U is shifted later, in the Alu.
Immediate(type, w) ==
    CASE type = "I" -> SignedBits(w.f7 * 2^5 + w.rs2, 12)
      [] type = "U" -> SignedBits(w.f7 * 2^13 + w.rs2 * 2^8 + w.rs1 * 2^3 + w.f3, 20)
      [] type = "S" -> SignedBits(w.f7 * 2^5 + w.rd, 12)
      [] type = "B" -> SignedBits((w.f7 \div 2^6) * 2^12 + (w.rd % 2) * 2^11
                              + (w.f7 % 2^6) * 2^5 + (w.rd \div 2) * 2, 13)
      [] type = "J" -> SignedBits((w.f7 \div 2^6) * 2^20 + (w.rs1 * 2^3 + w.f3) * 2^12
                              + (w.rs2 % 2) * 2^11 + ((w.f7 % 2^6) * 2^4 + w.rs2 \div 2) * 2, 21)
      [] OTHER      -> 0

Shifts == {"sll", "srl", "sra", "sllw", "srlw", "sraw"}

\* What the units do with the immediate of an operation: shifts look at its lowest
\* six bits, jalr drops the lowest (after the addition).
Used(op, imm) == IF op \in Shifts THEN imm % 64
                 ELSE IF op = "jalr" THEN imm - (imm % 2) ELSE imm

\* What Decoder and DecodeUnit make of a word that matches row r.
Info(r, w) == [op  |-> r.op,
               rd  |-> IF r.type \in {"S", "B"} THEN 0 ELSE w.rd,
               rs1 |-> IF r.type \in {"U", "J"} THEN 0 ELSE w.rs1,
               rs2 |-> IF r.type \in {"R", "S", "B"} THEN w.rs2 ELSE 0,
               imm |-> IF r.type = "U" THEN Immediate("U", w) * 2^12
                       ELSE Used(r.op, Immediate(r.type, w))]
-----------------------------------------------------------------------------
(* The switch of the reference. *)

\* The name an enumeration gives a value, if it has one.
Named(enum, v) == IF \E n \in DOMAIN enum : enum[n] = v
                  THEN CHOOSE n \in DOMAIN enum : enum[n] = v ELSE "ri"

funct3_branch == [beq |-> 0, bne |-> 1, blt |-> 4, bge |-> 5, bltu |-> 6, bgeu |-> 7]
funct3_load   == [lb |-> 0, lh |-> 1, lw |-> 2, ld |-> 3, lbu |-> 4, lhu |-> 5, lwu |-> 6]
funct3_store  == [sb |-> 0, sh |-> 1, sw |-> 2, sd |-> 3]
funct3_op     == [add |-> 0, sll |-> 1, slt |-> 2, sltu |-> 3, xor |-> 4, srl |-> 5,
                  or |-> 6, and |-> 7]
funct3_m      == [mul |-> 0, mulh |-> 1, mulhsu |-> 2, mulhu |-> 3, div |-> 4, divu |-> 5,
                  rem |-> 6, remu |-> 7]
funct3_op32   == [addw |-> 0, sllw |-> 1, srlw |-> 5]
funct3_m32    == [mulw |-> 0, divw |-> 4, divuw |-> 5, remw |-> 6, remuw |-> 7]
funct3_csr    == [csrrw |-> 1, csrrs |-> 2, csrrc |-> 3, csrrwi |-> 5, csrrsi |-> 6,
                  csrrci |-> 7]
amo_funct     == [lr |-> 2, sc |-> 3, amoswap |-> 1, amoadd |-> 0, amoxor |-> 4, amoand |-> 12,
                  amoor |-> 8, amomin |-> 16, amomax |-> 20, amominu |-> 24, amomaxu |-> 28]

Imm12(w) == SignedBits(w.f7 * 2^5 + w.rs2, 12)

\* SYSTEM with funct3 PRIV.  A word with the funct7 of sret and wfi but registers
\* that are not zero does nothing, and traps no more than wfi does.
RefPriv(w) ==
    LET plain == w.rs1 = 0 /\ w.rd = 0
    IN  CASE w.f7 = 0  -> IF plain THEN Named([ecall |-> 0, ebreak |-> 1], w.rs2) ELSE "ri"
          [] w.f7 = 8  -> IF plain THEN Named([sret |-> 2, wfi |-> 5], w.rs2) ELSE "nop"
          [] w.f7 = 24 -> IF plain /\ w.rs2 = 2 THEN "mret" ELSE "ri"
          [] w.f7 = 9  -> "sfence"
          [] OTHER     -> "ri"

\* A negative immediate of slli is less than 64.
RefShift(w, names) ==
    IF w.f3 = 1 THEN IF Imm12(w) >= 64 \/ (names.l = "sllw" /\ w.f7 # 0) THEN "ri" ELSE names.l
    ELSE LET kind == IF names.l = "sllw" THEN w.f7 ELSE (w.f7 \div 2) * 2
         IN  CASE kind = 0 -> names.r [] kind = 32 -> names.a [] OTHER -> "ri"

RefOp(w) ==
    CASE w.opc = "LUI"     -> "lui"
      [] w.opc = "AUIPC"   -> "auipc"
      [] w.opc = "JAL"     -> "jal"
      [] w.opc = "JALR"    -> "jalr"
      [] w.opc = "BRANCH"  -> Named(funct3_branch, w.f3)
      [] w.opc = "LOAD"    -> Named(funct3_load, w.f3)
      [] w.opc = "STORE"   -> Named(funct3_store, w.f3)
      [] w.opc = "OPIMM"   -> IF w.f3 \in {1, 5}
                              THEN RefShift(w, [l |-> "sll", r |-> "srl", a |-> "sra"])
                              ELSE Named(funct3_op, w.f3)
      [] w.opc = "OPIMM32" -> IF w.f3 \in {1, 5}
                              THEN RefShift(w, [l |-> "sllw", r |-> "srlw", a |-> "sraw"])
                              ELSE Named([addw |-> 0], w.f3)
      [] w.opc = "OP"      -> CASE w.f7 = 0  -> Named(funct3_op, w.f3)
                                [] w.f7 = 32 -> Named([sub |-> 0, sra |-> 5], w.f3)
                                [] w.f7 = 1  -> Named(funct3_m, w.f3)
                                [] OTHER     -> "ri"
      [] w.opc = "OP32"    -> CASE w.f7 = 0  -> Named(funct3_op32, w.f3)
                                [] w.f7 = 32 -> Named([subw |-> 0, sraw |-> 5], w.f3)
                                [] w.f7 = 1  -> Named(funct3_m32, w.f3)
                                [] OTHER     -> "ri"
      [] w.opc = "AMO"     -> IF w.f3 \notin {2, 3} \/ (w.f7 \div 4 = 2 /\ w.rs2 # 0) THEN "ri"
                              ELSE Named(amo_funct, w.f7 \div 4)
      [] w.opc = "FENCE"   -> "fence"
      [] w.opc = "SYSTEM"  -> IF w.f3 = 0 THEN RefPriv(w) ELSE Named(funct3_csr, w.f3)

\* The immediates, put together from signed and unsigned bit fields.
RefImm(w) ==
    CASE w.opc \in {"LUI", "AUIPC"} ->
             SignedBits(w.f7 * 2^13 + w.rs2 * 2^8 + w.rs1 * 2^3 + w.f3, 20) * 2^12
      [] w.opc = "JAL" ->
             LET imm_20 == -(w.f7 \div 64)   imm_19_12 == w.rs1 * 8 + w.f3
                 imm_11 == w.rs2 % 2         imm_10_1 == (w.f7 % 64) * 16 + w.rs2 \div 2
             IN  imm_20 * 2^20 + imm_19_12 * 2^12 + imm_11 * 2^11 + imm_10_1 * 2
      [] w.opc = "BRANCH" ->
             LET imm_12 == -(w.f7 \div 64)   imm_11 == w.rd % 2
                 imm_10_5 == w.f7 % 64       imm_4_1 == w.rd \div 2
             IN  imm_12 * 2^12 + imm_11 * 2^11 + imm_10_5 * 2^5 + imm_4_1 * 2
      [] w.opc = "STORE" -> SignedBits(w.f7, 7) * 2^5 + w.rd
      [] w.opc \in {"JALR", "LOAD", "OPIMM", "OPIMM32"} -> Imm12(w)
      [] OTHER -> 0

RefInfo(w) ==
    [op  |-> RefOp(w),
     rd  |-> IF w.opc \in {"STORE", "BRANCH"} THEN 0 ELSE w.rd,
     rs1 |-> IF w.opc \in {"LUI", "AUIPC", "JAL"} THEN 0 ELSE w.rs1,
     rs2 |-> IF w.opc \in {"OP", "OP32", "STORE", "BRANCH"} THEN w.rs2 ELSE 0,
     imm |-> Used(RefOp(w), RefImm(w))]
-----------------------------------------------------------------------------
\* No word matches two rows of the table, and what the CPU makes of a word it knows,
\* the reference makes of it as well: the same operation on the same registers with
\* the same immediate (Decoder.scala:35, RVI.scala:67, rv_core.hpp:175).
DecodersAgree ==
    /\ Cardinality(Matches(word)) <= 1
    /\ \A r \in Matches(word) : Info(r, word) = RefInfo(word)

\* A word the CPU takes for an empty one, an add that writes nothing, traps in the
\* reference, unless it belongs to what only the reference has: fences, CSRs, returns
\* and atomics, and two encodings the standard leaves open that it does not check,
\* jalr with another funct3 and slli with a negative immediate (rv_core.hpp:198, 403).
OnlyReferenceDecodes ==
    Matches(word) = {} =>
        \/ RefOp(word) = "ri"
        \/ word.opc \in {"FENCE", "AMO"}
        \/ word.opc = "SYSTEM" /\ RefOp(word) # "ecall"
        \/ word.opc = "JALR" /\ word.f3 # 0
        \/ RefOp(word) = "sll" /\ word.f7 >= 64
=============================================================================
