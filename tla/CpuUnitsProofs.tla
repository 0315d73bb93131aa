------------------------- MODULE CpuUnitsProofs -----------------------------
(***************************************************************************)
(* The decoders agree on every instruction word, and the units of the CPU  *)
(* with the reference on all operands, for every width of a byte and of a  *)
(* word that Datapath allows, 64 bits of the code among them.              *)
(*                                                                         *)
(* The powers of two are a recursive function.  That it obeys its          *)
(* definition is shown without induction, by least counterexamples; from   *)
(* then on sums, differences, products and quotients cut to a width are    *)
(* compared by the multiples of a power they differ by.                    *)
(***************************************************************************)
EXTENDS CpuUnits, FiniteSetTheorems, WellFoundedInduction, TLAPS

-----------------------------------------------------------------------------
(* Decoder. *)

\* All instruction words.
AnyWord == [opc : Opcodes, f3 : 0..7, f7 : 0..127, rd : 0..31, rs1 : 0..31, rs2 : 0..31]

\* The immediate of each format.
LEMMA ImmediatesAgree ==
    ASSUME NEW w \in AnyWord
    PROVE  /\ Immediate("I", w) = Imm12(w)
           /\ w.opc \in {"LUI", "AUIPC"} => Immediate("U", w) * 2^12 = RefImm(w)
           /\ w.opc = "STORE" => Immediate("S", w) = RefImm(w)
           /\ w.opc = "BRANCH" => Immediate("B", w) = RefImm(w)
           /\ w.opc = "JAL" => Immediate("J", w) = RefImm(w)
<1> USE DEF AnyWord
<1>1. Immediate("I", w) = Imm12(w)
  BY SMT DEF Immediate, Imm12
<1>2. w.opc \in {"LUI", "AUIPC"} => Immediate("U", w) * 2^12 = RefImm(w)
  BY SMT DEF Immediate, RefImm, SignedBits
<1>3. w.opc = "STORE" => Immediate("S", w) = RefImm(w)
  BY SMT DEF Immediate, RefImm, SignedBits
<1>4. w.opc = "BRANCH" => Immediate("B", w) = RefImm(w)
  BY SMT DEF Immediate, RefImm, SignedBits
<1>5. ASSUME w.opc = "JAL" PROVE Immediate("J", w) = RefImm(w)
  <2> DEFINE s == w.f7 \div 64
             h == w.rs1 * 8 + w.f3
             y == w.rs2 % 2
             l == (w.f7 % 64) * 16 + w.rs2 \div 2
  <2>1. s \in {0, 1} /\ y \in {0, 1} /\ h \in 0..255 /\ l \in 0..1023
    BY SMT
  <2>2. Immediate("J", w) = SignedBits(s * 2^20 + h * 2^12 + y * 2^11 + l * 2, 21)
    BY SMT DEF Immediate
  <2>3. RefImm(w) = -s * 2^20 + h * 2^12 + y * 2^11 + l * 2
    BY <1>5, SMT DEF RefImm
  <2> HIDE DEF s, h, y, l
  <2> QED BY <2>1, <2>2, <2>3, SMT DEF SignedBits
<1> QED BY <1>1, <1>2, <1>3, <1>4, <1>5

\* All rows that match are one row, which says what the reference says.
Agree(w) == \E x : \A r \in Matches(w) : r = x /\ Info(r, w) = RefInfo(w)

\* LUI, AUIPC, JAL and JALR have one row each.
LEMMA Jumps ==
    ASSUME NEW w \in AnyWord, w.opc \in {"LUI", "AUIPC", "JAL", "JALR"}
    PROVE Agree(w)
<1>1. \A r \in Matches(w) : r = CASE w.opc = "LUI" -> Row(Any3, Any7, "U", "alu", "lui")
                                  [] w.opc = "AUIPC" -> Row(Any3, Any7, "U", "alu", "auipc")
                                  [] w.opc = "JAL" -> Row(Any3, Any7, "J", "bru", "jal")
                                  [] OTHER -> Row({0}, Any7, "I", "bru", "jalr")
  BY DEF Matches, DecodeTable
<1>2. \A r \in Matches(w) : Info(r, w) = RefInfo(w)
  BY <1>1, ImmediatesAgree, SMT DEF Info, RefInfo, RefOp, Row, Used, Shifts, RefImm
<1> QED BY <1>1, <1>2 DEF Agree

\* BRANCH, LOAD and STORE are told apart by funct3.
LEMMA Accesses ==
    ASSUME NEW w \in AnyWord, w.opc \in {"BRANCH", "LOAD", "STORE"}
    PROVE Agree(w)
<1> DEFINE x == CASE w.opc = "BRANCH" -> Row({w.f3}, Any7, "B", "bru", Named(funct3_branch, w.f3))
                  [] w.opc = "LOAD"   -> Row({w.f3}, Any7, "I", "lsu", Named(funct3_load, w.f3))
                  [] OTHER            -> Row({w.f3}, Any7, "S", "lsu", Named(funct3_store, w.f3))
<1>1. \A r \in Matches(w) : r = x /\ r.op \notin Shifts \cup {"jalr"}
  <2>1. CASE w.opc = "BRANCH"
    BY <2>1 DEF Matches, DecodeTable, Rows, Row, Named, funct3_branch, AnyWord, Shifts
  <2>2. CASE w.opc = "LOAD"
    BY <2>2 DEF Matches, DecodeTable, Rows, Row, Named, funct3_load, AnyWord, Shifts
  <2>3. CASE w.opc = "STORE"
    BY <2>3 DEF Matches, DecodeTable, Rows, Row, Named, funct3_store, AnyWord, Shifts
  <2> QED BY <2>1, <2>2, <2>3
<1>2. \A r \in Matches(w) : Info(r, w) = RefInfo(w)
  BY <1>1, ImmediatesAgree, SMT DEF Info, RefInfo, RefOp, Row, Used, RefImm
<1> QED BY <1>1, <1>2 DEF Agree

\* Of OPIMM and OPIMM32, shifts look at funct7 where the others have an immediate.
LEMMA ShiftsAgree ==
    ASSUME NEW w \in AnyWord, w.opc \in {"OPIMM", "OPIMM32"}
    PROVE  Agree(w)
<1>1. CASE w.opc = "OPIMM" /\ w.f3 \notin {1, 5}
  <2>1. \A r \in Matches(w) : r = Row({w.f3}, Any7, "I", "alu", Named(funct3_op, w.f3))
                              /\ r.op \notin Shifts \cup {"jalr"}
    BY <1>1 DEF Matches, DecodeTable, Rows, Row, Named, funct3_op, AnyWord, Shifts
  <2>2. \A r \in Matches(w) : Info(r, w) = RefInfo(w)
    BY <1>1, <2>1, ImmediatesAgree, SMT DEF Info, RefInfo, RefOp, Row, Used, RefImm
  <2> QED BY <2>1, <2>2 DEF Agree
<1>2. CASE w.opc = "OPIMM" /\ w.f3 \in {1, 5}
  <2>1. \A r \in Matches(w) :
            r = IF w.f3 = 1 THEN Row({1}, {0, 1}, "I", "alu", "sll")
                ELSE IF w.f7 \in {0, 1} THEN Row({5}, {0, 1}, "I", "alu", "srl")
                ELSE Row({5}, {32, 33}, "I", "alu", "sra")
    BY <1>2 DEF Matches, DecodeTable, Rows, Row, AnyWord
  <2>2. \A r \in Matches(w) : r.op = RefOp(w)
    BY <1>2, <2>1, SMT DEF Matches, Row, RefOp, RefShift, Imm12, SignedBits, AnyWord
  <2>3. \A r \in Matches(w) : Info(r, w) = RefInfo(w)
    BY <1>2, <2>1, <2>2, ImmediatesAgree, SMT DEF Info, RefInfo, Row, RefImm
  <2> QED BY <2>1, <2>3 DEF Agree
<1>3. CASE w.opc = "OPIMM32"
  <2>1. \A r \in Matches(w) :
            r = IF w.f3 = 0 THEN Row({0}, Any7, "I", "alu", "addw")
                ELSE IF w.f3 = 1 THEN Row({1}, {0}, "I", "alu", "sllw")
                ELSE IF w.f7 = 0 THEN Row({5}, {0}, "I", "alu", "srlw")
                ELSE Row({5}, {32}, "I", "alu", "sraw")
    BY <1>3 DEF Matches, DecodeTable, Rows, Row, AnyWord
  <2>2. \A r \in Matches(w) : r.op = RefOp(w)
    BY <1>3, <2>1, SMT DEF Matches, Row, RefOp, RefShift, Named, Imm12, SignedBits, AnyWord
  <2>3. \A r \in Matches(w) : Info(r, w) = RefInfo(w)
    BY <1>3, <2>1, <2>2, ImmediatesAgree, SMT DEF Info, RefInfo, Row, RefImm
  <2> QED BY <2>1, <2>3 DEF Agree
<1> QED BY <1>1, <1>2, <1>3

\* OP and OP32 are told apart by funct3 and funct7.
LEMMA RegistersAgree ==
    ASSUME NEW w \in AnyWord, w.opc \in {"OP", "OP32"}
    PROVE  Agree(w)
<1>1. \A r \in Matches(w) :
          r = Row({w.f3}, {w.f7}, "R", IF w.f7 = 1 THEN "mdu" ELSE "alu", RefOp(w))
  <2>1. CASE w.opc = "OP" /\ w.f7 = 0
    BY <2>1 DEF Matches, DecodeTable, Rows, Row, RefOp, Named, funct3_op, AnyWord
  <2>2. CASE w.opc = "OP" /\ w.f7 = 1
    BY <2>2 DEF Matches, DecodeTable, Rows, Row, RefOp, Named, funct3_m, AnyWord
  <2>3. CASE w.opc = "OP" /\ w.f7 \notin {0, 1}
    BY <2>3 DEF Matches, DecodeTable, Rows, Row, RefOp, Named, AnyWord
  <2>4. CASE w.opc = "OP32" /\ w.f7 = 0
    BY <2>4 DEF Matches, DecodeTable, Rows, Row, RefOp, Named, funct3_op32, AnyWord
  <2>5. CASE w.opc = "OP32" /\ w.f7 = 1
    BY <2>5 DEF Matches, DecodeTable, Rows, Row, RefOp, Named, funct3_m32, AnyWord
  <2>6. CASE w.opc = "OP32" /\ w.f7 \notin {0, 1}
    BY <2>6 DEF Matches, DecodeTable, Rows, Row, RefOp, Named, AnyWord
  <2> QED BY <2>1, <2>2, <2>3, <2>4, <2>5, <2>6
<1>2. \A r \in Matches(w) : Info(r, w) = RefInfo(w)
  BY <1>1, SMT DEF Info, RefInfo, Row, RefImm, Immediate, Used
<1> QED BY <1>1, <1>2 DEF Agree

\* Of the rest, the CPU knows ecall alone.
LEMMA OthersAgree ==
    ASSUME NEW w \in AnyWord, w.opc \in {"FENCE", "SYSTEM", "AMO"}
    PROVE  Agree(w)
<1>1. \A r \in Matches(w) : /\ w.opc = "SYSTEM" /\ w.f3 = 0 /\ w.f7 = 0
                            /\ w.rd = 0 /\ w.rs1 = 0 /\ w.rs2 = 0
                            /\ r = Row({0}, {0}, "Sys", "csr", "ecall")
  BY DEF Matches, DecodeTable, Row
<1>2. \A r \in Matches(w) : RefOp(w) = "ecall" /\ RefImm(w) = 0 /\ Immediate(r.type, w) = 0
  BY <1>1, SMT DEF RefOp, RefPriv, Named, Row, RefImm, Immediate
<1>3. \A r \in Matches(w) : Info(r, w) = RefInfo(w)
  BY <1>1, <1>2, SMT DEF Info, RefInfo, Row
<1> QED BY <1>1, <1>3 DEF Agree

\* So one row matches at most, and it says what the reference says.
LEMMA Decoded ==
    ASSUME NEW w \in AnyWord
    PROVE  /\ Cardinality(Matches(w)) <= 1
           /\ \A r \in Matches(w) : Info(r, w) = RefInfo(w)
<1>1. Agree(w)
  BY Jumps, Accesses, ShiftsAgree, RegistersAgree, OthersAgree DEF AnyWord, Opcodes
<1>2. PICK x : \A r \in Matches(w) : r = x /\ Info(r, w) = RefInfo(w)
  BY <1>1 DEF Agree
<1>3. Matches(w) = {} \/ Matches(w) = {x}
  BY <1>2
<1>4. Cardinality({x}) = 1 /\ Cardinality({}) = 0
  BY FS_EmptySet, FS_Singleton
<1> QED BY <1>2, <1>3, <1>4

\* A word that fits a row of its opcode is decoded.
LEMMA InTable ==
    ASSUME NEW w \in AnyWord, NEW r \in DecodeTable[w.opc], w.f3 \in r.f3, w.f7 \in r.f7,
           r.op = "ecall" => w.rd = 0 /\ w.rs1 = 0 /\ w.rs2 = 0
    PROVE  Matches(w) # {}
<1>1. r \in Matches(w)
  BY DEF Matches
<1> QED BY <1>1

\* A row for each operation of a list is in the table.
LEMMA NamedRow ==
    ASSUME NEW f7, NEW type, NEW fusel, NEW ops, NEW v, "ri" \notin DOMAIN ops,
           Named(ops, v) # "ri"
    PROVE  /\ Row({v}, f7, type, fusel, Named(ops, v)) \in Rows(f7, type, fusel, ops)
           /\ Named(ops, v) \in DOMAIN ops
<1>1. PICK n \in DOMAIN ops : ops[n] = v
  BY DEF Named
<1>2. Named(ops, v) \in DOMAIN ops /\ ops[Named(ops, v)] = v
  BY <1>1 DEF Named
<1> QED BY <1>2 DEF Rows

\* A word whose funct3 names an operation of a list is decoded.
LEMMA NamedMatches ==
    ASSUME NEW w \in AnyWord, NEW f7, NEW type, NEW fusel, NEW ops, w.f7 \in f7,
           Rows(f7, type, fusel, ops) \subseteq DecodeTable[w.opc],
           {"ri", "ecall"} \cap DOMAIN ops = {}, Named(ops, w.f3) # "ri"
    PROVE  Matches(w) # {}
<1> DEFINE r == Row({w.f3}, f7, type, fusel, Named(ops, w.f3))
<1>1. r \in DecodeTable[w.opc] /\ Named(ops, w.f3) \in DOMAIN ops
  BY NamedRow
<1>2. w.f3 \in r.f3 /\ w.f7 \in r.f7 /\ r.op # "ecall"
  BY <1>1 DEF Row
<1>3. r \in Matches(w)
  BY <1>1, <1>2 DEF Matches
<1> QED BY <1>3

\* What no row matches is illegal, or among what only the reference knows.
LEMMA OnlyReference ==
    ASSUME NEW w \in AnyWord, Matches(w) = {}
    PROVE  \/ RefOp(w) = "ri"
           \/ w.opc \in {"FENCE", "AMO"}
           \/ w.opc = "SYSTEM" /\ RefOp(w) # "ecall"
           \/ w.opc = "JALR" /\ w.f3 # 0
           \/ RefOp(w) = "sll" /\ w.f7 >= 64
<1>1. w.opc \notin {"LUI", "AUIPC", "JAL"}
  <2>1. CASE w.opc = "LUI"
    <3>1. Row(Any3, Any7, "U", "alu", "lui") \in DecodeTable[w.opc]
      BY <2>1 DEF DecodeTable
    <3> QED BY <3>1, InTable DEF Row, AnyWord, Any3, Any7
  <2>2. CASE w.opc = "AUIPC"
    <3>1. Row(Any3, Any7, "U", "alu", "auipc") \in DecodeTable[w.opc]
      BY <2>2 DEF DecodeTable
    <3> QED BY <3>1, InTable DEF Row, AnyWord, Any3, Any7
  <2>3. CASE w.opc = "JAL"
    <3>1. Row(Any3, Any7, "J", "bru", "jal") \in DecodeTable[w.opc]
      BY <2>3 DEF DecodeTable
    <3> QED BY <3>1, InTable DEF Row, AnyWord, Any3, Any7
  <2> QED BY <2>1, <2>2, <2>3
<1>2. ASSUME w.opc = "JALR", w.f3 = 0 PROVE FALSE
  <2>1. Row({0}, Any7, "I", "bru", "jalr") \in DecodeTable[w.opc]
    BY <1>2 DEF DecodeTable
  <2> QED BY <1>2, <2>1, InTable DEF Row, AnyWord, Any7
<1>3. ASSUME w.opc = "BRANCH" PROVE RefOp(w) = "ri"
  <2>1. Rows(Any7, "B", "bru", funct3_branch) \subseteq DecodeTable[w.opc]
    BY <1>3 DEF DecodeTable, funct3_branch
  <2>2. w.f7 \in Any7 /\ {"ri", "ecall"} \cap DOMAIN funct3_branch = {}
    BY DEF AnyWord, Any7, funct3_branch
  <2> QED BY <1>3, <2>1, <2>2, NamedMatches DEF RefOp
<1>4. ASSUME w.opc = "LOAD" PROVE RefOp(w) = "ri"
  <2>1. Rows(Any7, "I", "lsu", funct3_load) \subseteq DecodeTable[w.opc]
    BY <1>4 DEF DecodeTable, funct3_load
  <2>2. w.f7 \in Any7 /\ {"ri", "ecall"} \cap DOMAIN funct3_load = {}
    BY DEF AnyWord, Any7, funct3_load
  <2> QED BY <1>4, <2>1, <2>2, NamedMatches DEF RefOp
<1>5. ASSUME w.opc = "STORE" PROVE RefOp(w) = "ri"
  <2>1. Rows(Any7, "S", "lsu", funct3_store) \subseteq DecodeTable[w.opc]
    BY <1>5 DEF DecodeTable, funct3_store
  <2>2. w.f7 \in Any7 /\ {"ri", "ecall"} \cap DOMAIN funct3_store = {}
    BY DEF AnyWord, Any7, funct3_store
  <2> QED BY <1>5, <2>1, <2>2, NamedMatches DEF RefOp
<1>6. ASSUME w.opc = "OPIMM" PROVE RefOp(w) = "ri" \/ (RefOp(w) = "sll" /\ w.f7 >= 64)
  <2> DEFINE plain  == [add |-> 0, slt |-> 2, sltu |-> 3, xor |-> 4, or |-> 6, and |-> 7]
             shifts == [sll |-> 1, srl |-> 5]
             arith  == [sra |-> 5]
  <2>1. /\ Rows(Any7, "I", "alu", plain) \subseteq DecodeTable[w.opc]
        /\ Rows({0, 1}, "I", "alu", shifts) \subseteq DecodeTable[w.opc]
        /\ Rows({32, 33}, "I", "alu", arith) \subseteq DecodeTable[w.opc]
    BY <1>6 DEF DecodeTable
  <2>2. /\ w.f7 \in Any7 /\ {"ri", "ecall"} \cap DOMAIN plain = {}
        /\ {"ri", "ecall"} \cap DOMAIN shifts = {} /\ {"ri", "ecall"} \cap DOMAIN arith = {}
    BY DEF AnyWord, Any7
  <2>3. /\ w.f3 \notin {1, 5} => Named(plain, w.f3) # "ri"
        /\ w.f3 \in {1, 5} => Named(shifts, w.f3) # "ri"
        /\ w.f3 = 5 => Named(arith, w.f3) # "ri"
    BY DEF Named, AnyWord
  <2> HIDE DEF plain, shifts, arith
  <2>4. w.f3 \in {1, 5} /\ w.f7 \notin {0, 1} /\ (w.f3 = 5 => w.f7 \notin {32, 33})
    BY <2>1, <2>2, <2>3, NamedMatches
  <2>5. w.f7 \notin {0, 1} => Imm12(w) >= 64 \/ w.f7 >= 64
    BY SMT DEF Imm12, SignedBits, AnyWord
  <2>6. w.f7 \notin {0, 1, 32, 33} => (w.f7 \div 2) * 2 \notin {0, 32}
    BY SMT DEF AnyWord
  <2>7. CASE w.f3 = 1
    <3>1. RefOp(w) = IF Imm12(w) >= 64 THEN "ri" ELSE "sll"
      BY <1>6, <2>7 DEF RefOp, RefShift
    <3> QED BY <2>4, <2>5, <2>7, <3>1
  <2>8. CASE w.f3 = 5
    <3>1. (w.f7 \div 2) * 2 \notin {0, 32}
      BY <2>4, <2>6, <2>8
    <3> DEFINE kind == (w.f7 \div 2) * 2
    <3>2. kind # 0 /\ kind # 32
      BY <3>1
    <3>3. RefOp(w) = IF kind = 0 THEN "srl" ELSE IF kind = 32 THEN "sra" ELSE "ri"
      BY <1>6, <2>8 DEF RefOp, RefShift
    <3> HIDE DEF kind
    <3> QED BY <3>2, <3>3
  <2> QED BY <2>4, <2>7, <2>8
<1>7. ASSUME w.opc = "OPIMM32" PROVE RefOp(w) = "ri"
  <2> DEFINE plain  == [addw |-> 0]
             shifts == [sllw |-> 1, srlw |-> 5]
             arith  == [sraw |-> 5]
  <2>1. /\ Rows(Any7, "I", "alu", plain) \subseteq DecodeTable[w.opc]
        /\ Rows({0}, "I", "alu", shifts) \subseteq DecodeTable[w.opc]
        /\ Rows({32}, "I", "alu", arith) \subseteq DecodeTable[w.opc]
    BY <1>7 DEF DecodeTable
  <2>2. /\ w.f7 \in Any7 /\ {"ri", "ecall"} \cap DOMAIN plain = {}
        /\ {"ri", "ecall"} \cap DOMAIN shifts = {} /\ {"ri", "ecall"} \cap DOMAIN arith = {}
    BY DEF AnyWord, Any7
  <2>3. /\ w.f3 = 0 => Named(plain, w.f3) # "ri"
        /\ w.f3 \in {1, 5} => Named(shifts, w.f3) # "ri"
        /\ w.f3 = 5 => Named(arith, w.f3) # "ri"
    BY DEF Named, AnyWord
  <2> HIDE DEF plain, shifts, arith
  <2>4. w.f3 # 0 /\ (w.f3 \in {1, 5} => w.f7 # 0) /\ (w.f3 = 5 => w.f7 # 32)
    BY <2>1, <2>2, <2>3, NamedMatches
  <2> QED BY <1>7, <2>4, SMT DEF RefOp, RefShift, Named, AnyWord
<1>8. ASSUME w.opc = "OP" PROVE RefOp(w) = "ri"
  <2>1. /\ Rows({0}, "R", "alu", funct3_op) \subseteq DecodeTable[w.opc]
        /\ Rows({32}, "R", "alu", [sub |-> 0, sra |-> 5]) \subseteq DecodeTable[w.opc]
        /\ Rows({1}, "R", "mdu", funct3_m) \subseteq DecodeTable[w.opc]
    BY <1>8 DEF DecodeTable, funct3_op, funct3_m
  <2>2. /\ {"ri", "ecall"} \cap DOMAIN funct3_op = {}
        /\ {"ri", "ecall"} \cap DOMAIN [sub |-> 0, sra |-> 5] = {}
        /\ {"ri", "ecall"} \cap DOMAIN funct3_m = {}
    BY DEF funct3_op, funct3_m
  <2>3. CASE w.f7 = 0
    BY <1>8, <2>1, <2>2, <2>3, NamedMatches DEF RefOp
  <2>4. CASE w.f7 = 32
    BY <1>8, <2>1, <2>2, <2>4, NamedMatches DEF RefOp
  <2>5. CASE w.f7 = 1
    BY <1>8, <2>1, <2>2, <2>5, NamedMatches DEF RefOp
  <2> QED BY <1>8, <2>3, <2>4, <2>5 DEF RefOp
<1>9. ASSUME w.opc = "OP32" PROVE RefOp(w) = "ri"
  <2>1. /\ Rows({0}, "R", "alu", funct3_op32) \subseteq DecodeTable[w.opc]
        /\ Rows({32}, "R", "alu", [subw |-> 0, sraw |-> 5]) \subseteq DecodeTable[w.opc]
        /\ Rows({1}, "R", "mdu", funct3_m32) \subseteq DecodeTable[w.opc]
    BY <1>9 DEF DecodeTable, funct3_op32, funct3_m32
  <2>2. /\ {"ri", "ecall"} \cap DOMAIN funct3_op32 = {}
        /\ {"ri", "ecall"} \cap DOMAIN [subw |-> 0, sraw |-> 5] = {}
        /\ {"ri", "ecall"} \cap DOMAIN funct3_m32 = {}
    BY DEF funct3_op32, funct3_m32
  <2>3. CASE w.f7 = 0
    BY <1>9, <2>1, <2>2, <2>3, NamedMatches DEF RefOp
  <2>4. CASE w.f7 = 32
    BY <1>9, <2>1, <2>2, <2>4, NamedMatches DEF RefOp
  <2>5. CASE w.f7 = 1
    BY <1>9, <2>1, <2>2, <2>5, NamedMatches DEF RefOp
  <2> QED BY <1>9, <2>3, <2>4, <2>5 DEF RefOp
<1>10. ASSUME w.opc = "SYSTEM", RefOp(w) = "ecall" PROVE FALSE
  <2>1. w.f3 = 0 /\ w.f7 = 0 /\ w.rd = 0 /\ w.rs1 = 0 /\ w.rs2 = 0
    BY <1>10 DEF RefOp, RefPriv, Named, funct3_csr
  <2>2. Row({0}, {0}, "Sys", "csr", "ecall") \in DecodeTable[w.opc]
    BY <1>10 DEF DecodeTable
  <2> QED BY <2>1, <2>2, InTable DEF Row
<1> QED
  BY <1>1, <1>2, <1>3, <1>4, <1>5, <1>6, <1>7, <1>8, <1>9, <1>10 DEF AnyWord, Opcodes
-----------------------------------------------------------------------------
(* Powers of two. *)

\* A set of naturals that is not empty has a least element.
LEMMA LeastElement ==
    ASSUME NEW T \in SUBSET Nat, T # {}
    PROVE  \E m \in T : \A n \in T : m <= n
<1> DEFINE R == {ss \in Nat \X Nat : ss[1] < ss[2]}
<1>1. IsWellFoundedOn(R, Nat)
  BY NatLessThanWellFounded DEF OpToRel
<1>2. \A n, m \in Nat : n < m => <<n, m>> \in R
  OBVIOUS
<1> HIDE DEF R
<1>3. PICK m \in T : \A n \in T : ~(<<n, m>> \in R)
  BY <1>1, WFMin, Zenon
<1>4. \A n \in T : ~(n < m)
  BY <1>2, <1>3, Zenon
<1>5. \A n \in T : m <= n
  BY <1>4, SMT
<1> QED
  BY <1>5, Zenon

\* g holds the powers up to k.
Powers(g, k) == /\ g \in [0..k -> Nat]
                /\ \A i \in 0..k : g[i] = IF i = 0 THEN 1 ELSE 2 * g[i - 1]

\* There are powers up to any exponent.
LEMMA PowersExist == \A k \in Nat : \E g : Powers(g, k)
<1> DEFINE T == {k \in Nat : ~\E g : Powers(g, k)}
<1> SUFFICES ASSUME T # {} PROVE FALSE
  OBVIOUS
<1>1. PICK m \in T : \A n \in T : m <= n
  BY LeastElement
<1>2. CASE m = 0
  <2>1. Powers([i \in 0..0 |-> 1], 0)
    BY DEF Powers
  <2> QED BY <1>2, <2>1
<1>3. CASE m # 0
  <2>1. PICK g : Powers(g, m - 1)
    BY <1>1, <1>3
  <2> DEFINE h == [i \in 0..m |-> IF i = m THEN 2 * g[m - 1] ELSE g[i]]
  <2>2. h \in [0..m -> Nat]
    BY <1>3, <2>1 DEF Powers
  <2>3. \A i \in 0..m : h[i] = IF i = 0 THEN 1 ELSE 2 * h[i - 1]
    BY <1>3, <2>1 DEF Powers
  <2> QED BY <2>2, <2>3 DEF Powers
<1> QED BY <1>2, <1>3

\* Two lists of powers agree as far as both go.
LEMMA PowersUnique ==
    ASSUME NEW k \in Nat, NEW l \in Nat, NEW g, NEW h, Powers(g, k), Powers(h, l), k <= l
    PROVE  \A i \in 0..k : g[i] = h[i]
<1> DEFINE T == {i \in 0..k : g[i] # h[i]}
<1> SUFFICES ASSUME T # {} PROVE FALSE
  OBVIOUS
<1>1. T \in SUBSET Nat
  OBVIOUS
<1> HIDE DEF T
<1>2. PICK m \in T : \A n \in T : m <= n
  BY <1>1, LeastElement
<1> USE DEF T
<1>3. m # 0
  BY DEF Powers
<1>4. g[m - 1] = h[m - 1]
  BY <1>2, <1>3
<1> QED BY <1>3, <1>4 DEF Powers

\* Pow2 is the function its recursive definition describes.
LEMMA Pow2Recursion == Pow2 = [n \in Nat |-> IF n = 0 THEN 1 ELSE 2 * Pow2[n - 1]]
<1> DEFINE G(k) == CHOOSE g : Powers(g, k)
           p == [n \in Nat |-> G(n)[n]]
<1>1. \A k \in Nat : Powers(G(k), k)
  BY PowersExist
<1> HIDE DEF G
<1>2. ASSUME NEW n \in Nat PROVE p[n] = IF n = 0 THEN 1 ELSE 2 * p[n - 1]
  <2>1. CASE n = 0
    BY <1>1, <2>1 DEF Powers
  <2>2. CASE n # 0
    <3>1. G(n)[n] = 2 * G(n)[n - 1]
      BY <1>1, <2>2 DEF Powers
    <3>2. G(n - 1)[n - 1] = G(n)[n - 1]
      BY <1>1, <2>2, PowersUnique
    <3> QED BY <2>2, <3>1, <3>2
  <2> QED BY <2>1, <2>2
<1>3. p = [n \in Nat |-> IF n = 0 THEN 1 ELSE 2 * p[n - 1]]
  BY <1>2
<1> HIDE DEF p
<1> QED BY <1>3 DEF Pow2

\* The definition, unfolded once.
LEMMA Pow2Step ==
    /\ Pow2[0] = 1
    /\ \A n \in Nat : Pow2[n + 1] = 2 * Pow2[n]
<1>1. \A n \in Nat : Pow2[n] = IF n = 0 THEN 1 ELSE 2 * Pow2[n - 1]
  BY Pow2Recursion
<1> QED BY <1>1

\* Powers of two are positive.
LEMMA Pow2Type == \A n \in Nat : Pow2[n] \in Nat \ {0}
<1> DEFINE T == {n \in Nat : Pow2[n] \notin Nat \ {0}}
<1> SUFFICES ASSUME T # {} PROVE FALSE
  OBVIOUS
<1>1. PICK m \in T : \A n \in T : m <= n
  BY LeastElement
<1>2. m # 0 /\ Pow2[m - 1] \in Nat \ {0}
  BY <1>1, Pow2Step
<1>3. Pow2[m] = 2 * Pow2[m - 1]
  BY <1>2, Pow2Step
<1> QED BY <1>2, <1>3

\* The power of a sum is the product of the powers.
LEMMA Pow2Sum == \A m, n \in Nat : Pow2[m + n] = Pow2[m] * Pow2[n]
<1> SUFFICES ASSUME NEW m \in Nat PROVE \A n \in Nat : Pow2[m + n] = Pow2[m] * Pow2[n]
  OBVIOUS
<1> DEFINE T == {n \in Nat : Pow2[m + n] # Pow2[m] * Pow2[n]}
<1> SUFFICES ASSUME T # {} PROVE FALSE
  OBVIOUS
<1>1. PICK n \in T : \A l \in T : n <= l
  BY LeastElement
<1>2. n # 0
  BY Pow2Step, Pow2Type
<1>3. Pow2[m + (n - 1)] = Pow2[m] * Pow2[n - 1]
  BY <1>1, <1>2
<1>4. Pow2[m + n] = 2 * Pow2[m + (n - 1)] /\ Pow2[n] = 2 * Pow2[n - 1]
  BY <1>2, Pow2Step
<1>5. /\ Pow2[m] \in Nat /\ Pow2[n - 1] \in Nat
  BY <1>2, Pow2Type
<1> QED BY <1>3, <1>4, <1>5
-----------------------------------------------------------------------------
(* Quotients and remainders. *)

\* Quotient and remainder by a positive number are determined by their ranges.
LEMMA DivModUnique ==
    ASSUME NEW M \in Nat \ {0}, NEW q \in Int, NEW r \in 0..(M - 1)
    PROVE  (q * M + r) % M = r /\ (q * M + r) \div M = q
<1> DEFINE x == q * M + r
           d == x \div M
           e == x % M
<1>1. x \in Int /\ d \in Int /\ e \in 0..(M - 1) /\ x = d * M + e
  BY SMT
<1>2. (q - d) * M = e - r
  BY <1>1, SMT
<1> HIDE DEF d, e
<1>3. q - d < 1
  <2>1. SUFFICES ASSUME q - d >= 1 PROVE FALSE
    BY <1>1, SMT
  <2>2. (q - d) * M >= M
    BY <1>1, <2>1, SMT
  <2> QED BY <1>1, <1>2, <2>2, SMT
<1>4. q - d > -1
  <2>1. SUFFICES ASSUME q - d <= -1 PROVE FALSE
    BY <1>1, SMT
  <2>2. (q - d) * M <= -M
    BY <1>1, <2>1, SMT
  <2> QED BY <1>1, <1>2, <2>2, SMT
<1>5. q = d
  BY <1>1, <1>3, <1>4, SMT
<1>6. e = r
  BY <1>1, <1>2, <1>5, SMT
<1> QED BY <1>5, <1>6 DEF d, e

\* Quotient and remainder exist: what SMT knows of them, without its arithmetic.
LEMMA DivModOf ==
    ASSUME NEW M \in Nat \ {0}, NEW x \in Int
    PROVE  x \div M \in Int /\ x % M \in 0..(M - 1) /\ x = (x \div M) * M + (x % M)
<1> DEFINE d == x \div M
           e == x % M
<1>1. d \in Int /\ e \in 0..(M - 1) /\ x = d * M + e
  BY SMT
<1> QED BY <1>1

\* Multiples do not change the remainder.
LEMMA ModShift ==
    ASSUME NEW M \in Nat \ {0}, NEW x \in Int, NEW q \in Int
    PROVE  (x + q * M) % M = x % M
<1> DEFINE d == x \div M
           e == x % M
<1>1. d \in Int /\ e \in 0..(M - 1) /\ x = d * M + e
  BY SMT
<1>2. x + q * M = (d + q) * M + e
  BY <1>1, SMT
<1> HIDE DEF d, e
<1>3. (x + q * M) % M = e
  BY <1>1, <1>2, DivModUnique
<1> QED BY <1>3 DEF e
-----------------------------------------------------------------------------
(* Bit vectors. *)

\* Widths: a word has twice the bits of a half, and both are powers of two.
LEMMA Widths ==
    /\ H \in {4, 8, 16, 32} /\ W = 2 * H
    /\ \E c \in Nat : Pow2[W] = c * W
    /\ \E c \in Nat : Pow2[H] = c * H
<1>1. H \in {4, 8, 16, 32} /\ W = 2 * H
  BY WidthAssumption DEF W, H
<1>2. Pow2[2] = 4 /\ Pow2[3] = 8 /\ Pow2[4] = 16 /\ Pow2[5] = 32 /\ Pow2[6] = 64
  <2>1. /\ Pow2[0 + 1] = 2 * Pow2[0] /\ Pow2[1 + 1] = 2 * Pow2[1] /\ Pow2[2 + 1] = 2 * Pow2[2]
        /\ Pow2[3 + 1] = 2 * Pow2[3] /\ Pow2[4 + 1] = 2 * Pow2[4] /\ Pow2[5 + 1] = 2 * Pow2[5]
    BY Pow2Step
  <2> QED BY <2>1, Pow2Step
<1>3. \A n \in {4, 8, 16, 32, 64} : \E m \in Nat : m <= n /\ Pow2[m] = n
  BY <1>2
<1>4. ASSUME NEW n \in {4, 8, 16, 32, 64} PROVE \E c \in Nat : Pow2[n] = c * n
  <2>1. PICK m \in Nat : m <= n /\ Pow2[m] = n
    BY <1>3
  <2>2. PICK d \in Nat : n = d + m
    BY <2>1
  <2>3. Pow2[d + m] = Pow2[d] * Pow2[m] /\ Pow2[d] \in Nat
    BY Pow2Sum, Pow2Type
  <2> QED BY <2>1, <2>2, <2>3
<1> QED BY <1>1, <1>4

\* A cut number fits into its width.
LEMMA CutType == ASSUME NEW x \in Int, NEW w \in Nat PROVE Cut(x, w) \in 0..(Pow2[w] - 1)
  BY Pow2Type, DivModOf DEF Cut

\* A number that fits is not changed.
LEMMA CutId ==
    ASSUME NEW w \in Nat, NEW x \in 0..(Pow2[w] - 1) PROVE Cut(x, w) = x
<1>1. Pow2[w] \in Nat \ {0}
  BY Pow2Type
<1>2. (0 * Pow2[w] + x) % Pow2[w] = x
  BY <1>1, DivModUnique
<1> QED BY <1>1, <1>2 DEF Cut

\* What is cut off is a multiple of the power.
LEMMA CutShift ==
    ASSUME NEW w \in Nat, NEW x \in Int, NEW y \in Int, \E q \in Int : x = y + q * Pow2[w]
    PROVE  Cut(x, w) = Cut(y, w)
  BY Pow2Type, ModShift DEF Cut

\* A number is what is left of it and a multiple of the power.
LEMMA CutOff ==
    ASSUME NEW w \in Nat, NEW x \in Int
    PROVE  \E q \in Int : x = Cut(x, w) + q * Pow2[w]
<1>1. Pow2[w] \in Nat \ {0}
  BY Pow2Type
<1>2. x \div Pow2[w] \in Int /\ x = (x \div Pow2[w]) * Pow2[w] + Cut(x, w)
  BY <1>1, DivModOf DEF Cut
<1>3. Cut(x, w) \in Int
  BY CutType, <1>1
<1> QED BY <1>1, <1>2, <1>3

\* Numbers that differ by a multiple of the power are cut to the same.
LEMMA SameCut ==
    ASSUME NEW w \in Nat, NEW x \in Int, NEW y \in Int, Cut(x, w) = Cut(y, w)
    PROVE  \E q \in Int : x = y + q * Pow2[w]
<1>1. PICK q \in Int : x = Cut(x, w) + q * Pow2[w]
  BY CutOff
<1>2. PICK r \in Int : y = Cut(y, w) + r * Pow2[w]
  BY CutOff
<1>3. Cut(x, w) \in Int /\ Pow2[w] \in Int
  <2>1. Pow2[w] \in Int
    BY Pow2Type
  <2> QED BY <2>1, CutType
<1>4. x = y + (q - r) * Pow2[w]
  BY <1>1, <1>2, <1>3
<1> QED BY <1>4

\* Sums, differences and products may be cut before or after.
LEMMA CutSum ==
    ASSUME NEW w \in Nat, NEW x \in Int, NEW y \in Int, NEW i \in Int, NEW j \in Int,
           Cut(x, w) = Cut(i, w), Cut(y, w) = Cut(j, w)
    PROVE  /\ Cut(x + y, w) = Cut(i + j, w)
           /\ Cut(x - y, w) = Cut(i - j, w)
           /\ Cut(x * y, w) = Cut(i * j, w)
<1> DEFINE M == Pow2[w]
<1>1. M \in Int
  BY Pow2Type
<1>2. PICK q \in Int : x = i + q * M
  BY SameCut
<1>3. PICK r \in Int : y = j + r * M
  BY SameCut
<1> HIDE DEF M
<1>4. Cut(x + y, w) = Cut(i + j, w)
  <2>1. /\ \E s \in Int : x + y = (i + j) + s * M
        /\ x + y \in Int /\ i + j \in Int
    <3>1. q + r \in Int /\ x + y = (i + j) + (q + r) * M
      BY <1>1, <1>2, <1>3
    <3> QED BY <3>1
  <2> QED BY <2>1, CutShift DEF M
<1>5. Cut(x - y, w) = Cut(i - j, w)
  <2>1. /\ \E s \in Int : x - y = (i - j) + s * M
        /\ x - y \in Int /\ i - j \in Int
    <3>1. q - r \in Int /\ x - y = (i - j) + (q - r) * M
      BY <1>1, <1>2, <1>3
    <3> QED BY <3>1
  <2> QED BY <2>1, CutShift DEF M
<1>6. Cut(x * y, w) = Cut(i * j, w)
  <2> DEFINE s == i * r + q * j + q * r * M
  <2>1. s \in Int /\ x * y \in Int /\ i * j \in Int
    BY <1>1
  <2>2. x * y = i * j + s * M
    BY <1>1, <1>2, <1>3
  <2> HIDE DEF s
  <2>3. \E t \in Int : x * y = i * j + t * M
    BY <2>1, <2>2
  <2> QED BY <2>1, <2>3, CutShift DEF M
<1> QED BY <1>4, <1>5, <1>6

\* One factor of a product may be cut.
LEMMA CutProduct ==
    ASSUME NEW w \in Nat, NEW x \in Int, NEW i \in Int, NEW p \in Int, Cut(x, w) = Cut(i, w)
    PROVE  Cut(x * p, w) = Cut(i * p, w)
<1>1. \A y, j \in Int : Cut(y, w) = Cut(j, w) => Cut(x * y, w) = Cut(i * j, w)
  BY CutSum
<1> QED BY <1>1

\* A signed number fits into its width, and is the unsigned one modulo the power.
LEMMA SignedRange ==
    ASSUME NEW w \in Nat \ {0}, NEW x \in 0..(Pow2[w] - 1)
    PROVE  /\ Signed(x, w) \in -Pow2[w - 1]..(Pow2[w - 1] - 1)
           /\ Signed(x, w) = x \/ Signed(x, w) = x - Pow2[w]
           /\ Cut(Signed(x, w), w) = x
<1>1. Pow2[w] = 2 * Pow2[w - 1] /\ Pow2[w - 1] \in Nat \ {0}
  <2>1. w - 1 \in Nat /\ (w - 1) + 1 = w
    OBVIOUS
  <2> QED BY <2>1, Pow2Step, Pow2Type
<1>2. Signed(x, w) = x \/ Signed(x, w) = x + (-1) * Pow2[w]
  BY <1>1 DEF Signed
<1>3. Cut(Signed(x, w), w) = x
  <2>1. Signed(x, w) \in Int /\ \E q \in Int : Signed(x, w) = x + q * Pow2[w]
    BY <1>1, <1>2
  <2>2. Cut(Signed(x, w), w) = Cut(x, w)
    BY <1>1, <2>1, CutShift
  <2> QED BY <2>2, CutId
<1> QED BY <1>1, <1>2, <1>3 DEF Signed

\* A number that fits with its sign is what its bits say.
LEMMA SignedCut ==
    ASSUME NEW w \in Nat \ {0}, NEW i \in -Pow2[w - 1]..(Pow2[w - 1] - 1)
    PROVE  Signed(Cut(i, w), w) = i
<1>1. Pow2[w] = 2 * Pow2[w - 1] /\ Pow2[w - 1] \in Nat \ {0}
  <2>1. w - 1 \in Nat /\ (w - 1) + 1 = w
    OBVIOUS
  <2> QED BY <2>1, Pow2Step, Pow2Type
<1>2. CASE i >= 0
  <2>1. Cut(i, w) = i
    BY <1>1, <1>2, CutId
  <2> QED BY <1>1, <1>2, <2>1 DEF Signed
<1>3. CASE i < 0
  <2>1. Cut(i + Pow2[w], w) = Cut(i, w)
    <3>1. \E q \in Int : i + Pow2[w] = i + q * Pow2[w]
      BY <1>1
    <3>2. i + Pow2[w] \in Int
      BY <1>1
    <3> QED BY <3>1, <3>2, CutShift
  <2>2. Cut(i + Pow2[w], w) = i + Pow2[w]
    BY <1>1, <1>3, CutId
  <2>3. Cut(i, w) = i + Pow2[w]
    BY <1>1, <2>1, <2>2
  <2> QED BY <1>1, <1>3, <2>3 DEF Signed
<1> QED BY <1>1, <1>2, <1>3
-----------------------------------------------------------------------------
(* alu_exec and Alu. *)

\* What an operation of the reference returns.
Out(z, w) == Cut(Signed(Cut(z, w), w), W)

\* What alu_exec returns, one operation at a time.
LEMMA ExecOps ==
    ASSUME NEW i, NEW j, NEW w
    PROVE  LET ref == Exec(i, j, w)
               u(z) == Cut(z, w)
               least == -(Pow2[W - 1])
           IN  /\ ref["add"] = Out(i + j, w)
               /\ ref["sub"] = Out(i - j, w)
               /\ ref["sll"] = Out(i * Pow2[j % w], w)
               /\ ref["slt"] = Out(Bit(i < j), w)
               /\ ref["sltu"] = Out(Bit(Cut(i, W) < Cut(j, W)), w)
               /\ ref["srl"] = Out(u(i) \div Pow2[j % w], w)
               /\ ref["sra"] = Out(i \div Pow2[j % w], w)
               /\ ref["mul"] = Out(i * j, w)
               /\ ref["mulh"] = Out((i * j) \div Pow2[W], w)
               /\ ref["mulhu"] = Out((Cut(i, W) * Cut(j, W)) \div Pow2[W], w)
               /\ ref["mulhsu"] = Out(Cut(i * Cut(j, W), 2 * W) \div Pow2[W], w)
               /\ ref["div"] = Out(IF j = 0 THEN -1
                                   ELSE IF i = least /\ j = -1 THEN least ELSE Quot(i, j), w)
               /\ ref["divu"] = Out(IF j = 0 THEN Pow2[W] - 1 ELSE u(i) \div u(j), w)
               /\ ref["rem"] = Out(IF j = 0 THEN i
                                   ELSE IF i = least /\ j = -1 THEN 0 ELSE i - j * Quot(i, j), w)
               /\ ref["remu"] = Out(IF j = 0 THEN i ELSE u(i) % u(j), w)
  BY DEF Exec, Out

\* The powers a word and half a word are about.
LEMMA WordFacts ==
    /\ W \in Nat \ {0} /\ H \in Nat \ {0}
    /\ Pow2[W] = Pow2[H] * Pow2[H]
    /\ Pow2[W] = 2 * Pow2[W - 1] /\ Pow2[H] = 2 * Pow2[H - 1]
    /\ Pow2[W] \in Nat /\ Pow2[W - 1] \in Nat /\ Pow2[H] \in Nat /\ Pow2[H - 1] \in Nat
    /\ Pow2[H - 1] >= 8 /\ Pow2[W - 1] > Pow2[H]
<1>1. H \in {4, 8, 16, 32} /\ W = 2 * H
  BY Widths
<1>2. Pow2[H + H] = Pow2[H] * Pow2[H]
  <2>1. H \in Nat
    BY <1>1
  <2> QED BY <2>1, Pow2Sum, Zenon
<1>3. Pow2[(W - 1) + 1] = 2 * Pow2[W - 1] /\ Pow2[(H - 1) + 1] = 2 * Pow2[H - 1]
  <2>1. W - 1 \in Nat /\ H - 1 \in Nat
    BY <1>1
  <2> QED BY <2>1, Pow2Step
<1>4. (W - 1) + 1 = W /\ (H - 1) + 1 = H /\ H + H = W
  BY <1>1
<1>5. /\ Pow2[W] \in Nat /\ Pow2[W - 1] \in Nat /\ Pow2[H] \in Nat
      /\ Pow2[H - 1] \in Nat /\ Pow2[H - 4] \in Nat \ {0}
  <2>1. W \in Nat /\ W - 1 \in Nat /\ H \in Nat /\ H - 1 \in Nat /\ H - 4 \in Nat
    BY <1>1
  <2> QED BY <2>1, Pow2Type
<1>6. Pow2[H - 1] >= 8
  <2>1. PICK m \in Nat : H - 1 = m + 3 /\ H - 4 = m
    BY <1>1
  <2>2. Pow2[m + 3] = Pow2[m] * Pow2[3]
    BY Pow2Sum
  <2>3. Pow2[3] = 8
    <3>1. /\ Pow2[0 + 1] = 2 * Pow2[0] /\ Pow2[1 + 1] = 2 * Pow2[1]
          /\ Pow2[2 + 1] = 2 * Pow2[2]
      BY Pow2Step
    <3> QED BY <3>1, Pow2Step
  <2> QED BY <1>5, <2>1, <2>2, <2>3
<1>7. Pow2[W] = Pow2[H] * Pow2[H] /\ Pow2[W] = 2 * Pow2[W - 1] /\ Pow2[H] = 2 * Pow2[H - 1]
  BY <1>2, <1>3, <1>4
<1>8. Pow2[W - 1] > Pow2[H]
  <2>1. Pow2[W - 1] = Pow2[H - 1] * Pow2[H]
    BY <1>5, <1>7
  <2> QED BY <1>5, <1>6, <1>7, <2>1
<1> QED BY <1>1, <1>5, <1>6, <1>7, <1>8

\* On whole words, the cut result; on halves, its sign extension.
LEMMA OutWord == ASSUME NEW z \in Int PROVE Out(z, W) = Cut(z, W)
<1>1. Cut(z, W) \in 0..(Pow2[W] - 1)
  BY WordFacts, CutType
<1> QED BY <1>1, WordFacts, SignedRange DEF Out

\* The result of an operation on halves is sign-extended.
LEMMA OutHalf == ASSUME NEW z \in Int PROVE Out(z, H) = Sext(Cut(z, H))
  BY DEF Out, Sext

\* The amount of a shift is the same for the signed operand.
LEMMA SameAmount ==
    ASSUME NEW w \in {W, H}, NEW x \in 0..(Pow2[w] - 1)
    PROVE  x % w = Signed(x, w) % w /\ x % w \in Nat /\ x % w < w
<1>1. w \in Nat \ {0}
  BY WordFacts
<1>2. PICK c \in Nat : Pow2[w] = c * w
  BY Widths
<1>3. Signed(x, w) = x \/ Signed(x, w) = x - c * w
  BY <1>1, <1>2, SignedRange
<1>4. x \in Int /\ (x + (-c) * w) % w = x % w
  <2>1. x \in Int /\ -c \in Int
    BY <1>1, Pow2Type
  <2> QED BY <1>1, <2>1, ModShift
<1>5. Signed(x, w) % w = x % w
  BY <1>1, <1>3, <1>4
<1>6. x % w \in 0..(w - 1)
  BY <1>1, <1>4, DivModOf
<1> QED BY <1>1, <1>5, <1>6

\* A quotient is not larger than what is divided.
LEMMA DivRange ==
    ASSUME NEW p \in Nat \ {0}, NEW x \in Nat
    PROVE  x \div p \in 0..x
<1> DEFINE d == x \div p
           e == x % p
<1>1. d \in Int /\ e \in 0..(p - 1) /\ x = d * p + e
  BY DivModOf
<1> HIDE DEF d, e
<1>2. d >= 0
  <2>1. ASSUME d <= -1 PROVE d * p <= -p
    BY <1>1, <2>1
  <2> QED BY <1>1, <2>1
<1>3. d * p >= d
  BY <1>1, <1>2
<1>4. d \in 0..x
  BY <1>1, <1>2, <1>3
<1> QED BY <1>4 DEF d

\* Operations on words, one by one.
LEMMA AluWordAgrees ==
    ASSUME NEW x \in Word, NEW y \in Word
    PROVE  Same(Alu(x, y), Ref(x, y), DOMAIN Alu(x, y))
<1> DEFINE M == Pow2[W]
           i == Signed(x, W)
           j == Signed(y, W)
           alu == Alu(x, y)
           ref == Ref(x, y)
           p == Pow2[y % W]
<1>1. /\ W \in Nat \ {0} /\ M \in Nat /\ M > 1
      /\ x \in 0..(M - 1) /\ y \in 0..(M - 1)
  BY WordFacts DEF Word
<1>2. /\ Cut(i, W) = x /\ Cut(j, W) = y /\ Cut(x, W) = x /\ Cut(y, W) = y
      /\ i \in Int /\ j \in Int
  BY <1>1, WordFacts, SignedRange, CutId
<1>3. y % W = j % W /\ p \in Nat \ {0}
  <2>1. y % W = j % W /\ y % W \in Nat
    BY <1>1, SameAmount
  <2> QED BY <2>1, Pow2Type
<1> HIDE DEF M, i, j, p
<1>4. /\ ref["add"] = Out(i + j, W) /\ ref["sub"] = Out(i - j, W)
      /\ ref["sll"] = Out(i * Pow2[j % W], W) /\ ref["slt"] = Out(Bit(i < j), W)
      /\ ref["sltu"] = Out(Bit(Cut(i, W) < Cut(j, W)), W)
      /\ ref["srl"] = Out(Cut(i, W) \div Pow2[j % W], W)
      /\ ref["sra"] = Out(i \div Pow2[j % W], W)
  BY ExecOps DEF Ref, i, j
<1> HIDE DEF ref
<1>5. alu.add = ref["add"] /\ alu.sub = ref["sub"]
  <2>1. i + j \in Int /\ i - j \in Int
    BY <1>2
  <2>2. Cut(x + y, W) = Cut(i + j, W) /\ Cut(x - y, W) = Cut(i - j, W)
    BY <1>1, <1>2, CutSum
  <2> QED BY <1>4, <2>1, <2>2, OutWord DEF Alu
<1>6. alu.sll = ref["sll"]
  <2>1. i * p \in Int /\ p \in Int /\ x \in Int /\ W \in Nat
    BY <1>1, <1>2, <1>3
  <2>2. Cut(x * p, W) = Cut(i * p, W)
    BY <1>2, <2>1, CutProduct, Zenon
  <2> QED BY <1>3, <1>4, <2>1, <2>2, OutWord DEF Alu, p
<1>7. alu.slt = ref["slt"] /\ alu.sltu = ref["sltu"]
  <2>1. \A c \in BOOLEAN : Bit(c) \in 0..1
    BY DEF Bit
  <2>2. \A c \in BOOLEAN : Cut(Bit(c), W) = Bit(c)
    BY <1>1, <2>1, CutId DEF M
  <2>3. (i < j) \in BOOLEAN /\ (x < y) \in BOOLEAN
    BY <1>1, <1>2
  <2>4. Out(Bit(i < j), W) = Bit(i < j) /\ Out(Bit(x < y), W) = Bit(x < y)
    <3>1. Bit(i < j) \in Int /\ Bit(x < y) \in Int
      BY DEF Bit
    <3> QED BY <2>2, <2>3, <3>1, OutWord
  <2> QED BY <1>2, <1>4, <2>4 DEF Alu, i, j
<1>8. alu.srl = ref["srl"]
  <2>1. x \div p \in 0..x
    BY <1>1, <1>3, DivRange
  <2>2. x \div p \in Int /\ Cut(x \div p, W) = x \div p
    BY <1>1, <2>1, CutId DEF M
  <2> QED BY <1>2, <1>3, <1>4, <2>2, OutWord DEF Alu, p
<1>9. alu.sra = ref["sra"]
  <2>1. i \div p \in Int
    BY <1>2, <1>3, DivModOf
  <2> QED BY <1>3, <1>4, <2>1, OutWord DEF Alu, p, i
<1>10. DOMAIN alu = {"add", "sub", "sll", "slt", "sltu", "srl", "sra"}
  BY DEF Alu
<1>11. /\ alu.add = alu["add"] /\ alu.sub = alu["sub"] /\ alu.sll = alu["sll"]
       /\ alu.slt = alu["slt"] /\ alu.sltu = alu["sltu"] /\ alu.srl = alu["srl"]
       /\ alu.sra = alu["sra"]
  OBVIOUS
<1> HIDE DEF alu
<1> QED BY <1>5, <1>6, <1>7, <1>8, <1>9, <1>10, <1>11 DEF Same, alu, ref

\* The lower half of a word fits into half a word.
LEMMA LoType == ASSUME NEW x \in Word PROVE Lo(x) \in 0..(Pow2[H] - 1)
<1>1. x \in Int /\ H \in Nat
  BY WordFacts DEF Word
<1> QED BY <1>1, CutType DEF Lo

\* Operations on half a word, one by one; shift amounts need its lower half only.
LEMMA AluHalfAgrees ==
    ASSUME NEW x \in Word, NEW y \in Word
    PROVE  Same(AluW(x, y), RefW(x, y), DOMAIN AluW(x, y))
<1> DEFINE N == Pow2[H]
           m == Lo(x)
           n == Lo(y)
           i == Signed(m, H)
           j == Signed(n, H)
           alu == AluW(x, y)
           ref == RefW(x, y)
           p == Pow2[y % H]
<1>1. H \in Nat \ {0} /\ N \in Nat /\ m \in 0..(N - 1) /\ n \in 0..(N - 1) /\ y \in Nat
  BY WordFacts, LoType DEF Word
<1>2. /\ Cut(i, H) = m /\ Cut(j, H) = n /\ Cut(m, H) = m /\ Cut(n, H) = n
      /\ i \in Int /\ j \in Int
  BY <1>1, WordFacts, SignedRange, CutId
<1>3. y % H = j % H /\ p \in Nat \ {0}
  <2>1. n % H = j % H
    BY <1>1, SameAmount
  <2>2. PICK c \in Nat : N = c * H
    BY Widths
  <2>3. PICK q \in Int : y = n + q * N
    BY <1>1, CutOff DEF Lo
  <2>4. q * c \in Int /\ y = n + (q * c) * H
    BY <1>1, <2>2, <2>3
  <2>5. y % H = n % H
    <3>1. n \in Int
      BY <1>1
    <3> QED BY <1>1, <2>4, <3>1, ModShift, Zenon
  <2>6. y % H \in Nat
    BY <1>1, DivModOf
  <2> QED BY <2>1, <2>5, <2>6, Pow2Type
<1> HIDE DEF N, i, j, m, n, p
<1>4. /\ ref["add"] = Out(i + j, H) /\ ref["sub"] = Out(i - j, H)
      /\ ref["sll"] = Out(i * Pow2[j % H], H)
      /\ ref["srl"] = Out(Cut(i, H) \div Pow2[j % H], H)
      /\ ref["sra"] = Out(i \div Pow2[j % H], H)
  BY ExecOps DEF RefW, i, j, m, n
<1> HIDE DEF ref
<1>5. alu.add = ref["add"] /\ alu.sub = ref["sub"]
  <2>1. i + j \in Int /\ i - j \in Int
    BY <1>2
  <2>2. Cut(m + n, H) = Cut(i + j, H) /\ Cut(m - n, H) = Cut(i - j, H)
    BY <1>1, <1>2, CutSum
  <2> QED BY <1>4, <2>1, <2>2, OutHalf DEF AluW, m, n
<1>6. alu.sll = ref["sll"]
  <2>1. i * p \in Int /\ p \in Int /\ m \in Int /\ H \in Nat
    BY <1>1, <1>2, <1>3
  <2>2. Cut(m * p, H) = Cut(i * p, H)
    BY <1>2, <2>1, CutProduct, Zenon
  <2> QED BY <1>3, <1>4, <2>1, <2>2, OutHalf DEF AluW, p, m
<1>7. alu.srl = ref["srl"]
  <2>1. m \div p \in 0..m
    BY <1>1, <1>3, DivRange
  <2>2. m \div p \in Int /\ Cut(m \div p, H) = m \div p
    BY <1>1, <2>1, CutId DEF N
  <2> QED BY <1>2, <1>3, <1>4, <2>2, OutHalf DEF AluW, p, m
<1>8. alu.sra = ref["sra"]
  <2>1. i \div p \in Int
    BY <1>2, <1>3, DivModOf
  <2> QED BY <1>3, <1>4, <2>1, OutHalf DEF AluW, p, i, m
<1>9. DOMAIN alu = {"add", "sub", "sll", "srl", "sra"}
  BY DEF AluW
<1>10. /\ alu.add = alu["add"] /\ alu.sub = alu["sub"] /\ alu.sll = alu["sll"]
       /\ alu.srl = alu["srl"] /\ alu.sra = alu["sra"]
  OBVIOUS
<1> HIDE DEF alu
<1> QED BY <1>5, <1>6, <1>7, <1>8, <1>9, <1>10 DEF Same, alu, ref

\* lui, and auipc as far as the sum fits into the lower half.
LEMMA UpperAgrees ==
    ASSUME NEW pc \in Word, NEW immU \in 0..(Pow2[H] - 1)
    PROVE  LET cpu == UpperImm(pc, immU)
               ref == RefUpperImm(pc, immU)
           IN  cpu.lui = ref.lui /\ (ref.auipc < Pow2[H] => cpu.auipc = ref.auipc)
<1> DEFINE v == Cut(Signed(immU, H) + pc, W)
<1>1. /\ H \in Nat \ {0} /\ W \in Nat /\ pc \in Int /\ immU \in Int
      /\ Pow2[W] = Pow2[H] * Pow2[H] /\ Pow2[H] \in Nat
      /\ Cut(Signed(immU, H), H) = Cut(immU, H) /\ Signed(immU, H) \in Int
  BY WordFacts, SignedRange, CutId DEF Word
<1>2. ASSUME v < Pow2[H] PROVE Cut(pc + immU, H) = v
  <2> DEFINE z == Signed(immU, H) + pc
  <2>1. z \in Int /\ v \in 0..(Pow2[W] - 1)
    <3>1. z \in Int
      BY <1>1
    <3> QED BY <1>1, <3>1, CutType, Zenon
  <2>2. PICK q \in Int : z = v + q * Pow2[W]
    BY <1>1, <2>1, CutOff
  <2> HIDE DEF z, v
  <2>3. q * Pow2[H] \in Int /\ z = v + (q * Pow2[H]) * Pow2[H]
    BY <1>1, <2>1, <2>2
  <2>4. Cut(z, H) = Cut(v, H)
    BY <1>1, <2>1, <2>3, CutShift
  <2>5. Cut(v, H) = v
    BY <1>1, <1>2, <2>1, CutId
  <2>6. Cut(z, H) = Cut(immU + pc, H)
    BY <1>1, CutSum DEF z
  <2>7. immU + pc = pc + immU
    BY <1>1
  <2> QED BY <2>4, <2>5, <2>6, <2>7
<1> QED BY <1>2 DEF UpperImm, RefUpperImm, Sext

\* Alu agrees on all operands.
LEMMA AluAgreesTyped ==
    ASSUME a \in Word, b \in Word PROVE AluAgrees
<1>1. Lo(b) \in 0..(Pow2[H] - 1)
  BY LoType
<1> DEFINE ref == RefUpperImm(a, Lo(b))
           cpu == UpperImm(a, Lo(b))
<1>2. cpu.lui = ref.lui /\ (ref.auipc < Pow2[H] => cpu.auipc = ref.auipc)
  BY <1>1, UpperAgrees
<1>3. /\ cpu.lui = cpu["lui"] /\ ref.lui = ref["lui"]
      /\ cpu.auipc = cpu["auipc"] /\ ref.auipc = ref["auipc"]
  OBVIOUS
<1> HIDE DEF ref, cpu
<1>4. Same(cpu, ref, {"lui"} \cup IF ref.auipc < Pow2[H] THEN {"auipc"} ELSE {})
  BY <1>2, <1>3 DEF Same
<1> QED BY <1>4, AluWordAgrees, AluHalfAgrees DEF AluAgrees, ref, cpu
-----------------------------------------------------------------------------
(* Branches and jalr. *)

\* Signed numbers are compared as integers, unsigned ones by their bits.
LEMMA BranchesAgree ==
    ASSUME NEW x \in Word, NEW y \in Word
    PROVE  Bru(x, y) = RefBranch(Signed(x, W), Signed(y, W))
<1> DEFINE i == Signed(x, W)
           j == Signed(y, W)
<1>1. Cut(i, W) = x /\ Cut(j, W) = y /\ (x = y <=> i = j)
  BY WordFacts, SignedRange DEF Word
<1>2. (i # j) = (x # y) /\ (i = j) = (x = y)
  BY <1>1
<1> QED BY <1>1, <1>2 DEF Bru, RefBranch

\* If the target of the reference is aligned, rs1 is even, and the lowest bit of the sum
\* is that of the immediate.
LEMMA JalrAgrees ==
    ASSUME NEW x \in Word, NEW imm \in Word, RefJalrTarget(x, imm) % 4 = 0
    PROVE  JalrTarget(x, imm) = RefJalrTarget(x, imm)
<1> DEFINE M == Pow2[W]
           t == RefJalrTarget(x, imm)
           s == Cut(x + imm, W)
<1>1. /\ W \in Nat /\ x \in Nat /\ imm \in Nat /\ x + imm \in Int /\ x + (imm - (imm % 2)) \in Int
      /\ M \in Nat /\ M % 2 = 0 /\ M > 1
  BY WordFacts DEF Word
<1>2. s \in 0..(M - 1) /\ t \in 0..(M - 1)
  BY <1>1, CutType DEF RefJalrTarget
<1>3. PICK q \in Int : x + imm = s + q * M
  BY <1>1, CutOff
<1>4. PICK r \in Int : x + (imm - (imm % 2)) = t + r * M
  BY <1>1, CutOff DEF RefJalrTarget
<1>5. t % 4 = 0
  OBVIOUS
<1> HIDE DEF M, t, s
<1>6. PICK h \in Nat : M = 2 * h
  BY <1>1
<1>7. r * h \in Int /\ q * h \in Int /\ r * M = 2 * (r * h) /\ q * M = 2 * (q * h)
  BY <1>1, <1>6
<1>8. t % 2 = 0 /\ x % 2 = 0
  <2>1. t % 2 = 0
    BY <1>2, <1>5
  <2>2. PICK k \in Int : t = 2 * k
    BY <1>2, <2>1
  <2>3. x = 2 * (k + r * h - (imm \div 2))
    BY <1>1, <1>4, <1>7, <2>2
  <2> QED BY <1>1, <1>7, <2>1, <2>3
<1>9. s % 2 = imm % 2
  <2>1. PICK k \in Int : x = 2 * k
    BY <1>1, <1>8
  <2>2. s = imm + 2 * (k - q * h)
    BY <1>1, <1>2, <1>3, <1>7, <2>1
  <2> QED BY <1>1, <1>2, <1>7, <2>2
<1>10. s - (s % 2) \in 0..(M - 1)
  BY <1>1, <1>2
<1>11. s - (s % 2) = (x + (imm - (imm % 2))) - q * M
  BY <1>1, <1>2, <1>3, <1>9
<1>12. Cut(s - (s % 2), W) = s - (s % 2)
  BY <1>1, <1>10, CutId DEF M
<1>13. Cut(s - (s % 2), W) = Cut(x + (imm - (imm % 2)), W)
  <2>1. -q \in Int /\ s - (s % 2) = (x + (imm - (imm % 2))) + (-q) * M
    BY <1>1, <1>11
  <2>2. s - (s % 2) \in Int
    BY <1>1, <1>10
  <2> QED BY <1>1, <2>1, <2>2, CutShift, Zenon DEF M
<1> QED BY <1>12, <1>13 DEF JalrTarget, RefJalrTarget, s

\* Branches and jalr agree on all operands.
LEMMA JumpsAgreeTyped ==
    ASSUME a \in Word, b \in Word PROVE JumpsAgree
  BY BranchesAgree, JalrAgrees DEF JumpsAgree
-----------------------------------------------------------------------------
(* Mdu. *)

\* Division towards zero.
LEMMA QuotFacts ==
    ASSUME NEW i \in Int, NEW j \in Int, j # 0
    PROVE  LET abs(z) == IF z < 0 THEN -z ELSE z
           IN  /\ abs(i) \div abs(j) \in 0..abs(i)
               /\ Quot(i, j) = IF (i < 0) # (j < 0) THEN -(abs(i) \div abs(j))
                               ELSE abs(i) \div abs(j)
               /\ Quot(i, j) \in Int
               /\ i - j * Quot(i, j) \in IF i < 0 THEN i..0 ELSE 0..i
<1> DEFINE abs(z) == IF z < 0 THEN -z ELSE z
           n == abs(i)
           d == abs(j)
           q == n \div d
           r == n % d
<1>1. n \in Nat /\ d \in Nat \ {0}
  OBVIOUS
<1>2. q \in 0..n /\ r \in 0..(d - 1) /\ n = q * d + r
  <2>1. n \in Int
    BY <1>1
  <2> HIDE DEF n, d
  <2>2. q \in 0..n
    BY <1>1, DivRange
  <2>3. q \in Int /\ r \in 0..(d - 1) /\ n = q * d + r
    BY <1>1, <2>1, DivModOf
  <2> QED BY <2>2, <2>3
<1>3. Quot(i, j) = IF (i < 0) # (j < 0) THEN -q ELSE q
  BY DEF Quot
<1> HIDE DEF q, r
<1>4. (i < 0 => n = -i) /\ (i >= 0 => n = i) /\ (j < 0 => d = -j) /\ (j >= 0 => d = j)
  OBVIOUS
<1>5. r <= n /\ q * d >= 0
  BY <1>1, <1>2
<1>6. i - j * Quot(i, j) = IF i < 0 THEN -r ELSE r
  <2>1. CASE i < 0 /\ j < 0
    <3>1. Quot(i, j) = q /\ n = -i /\ d = -j
      BY <1>3, <1>4, <2>1
    <3>2. j * q = -(q * d)
      BY <1>1, <1>2, <3>1
    <3> QED BY <1>1, <1>2, <2>1, <3>1, <3>2
  <2>2. CASE i < 0 /\ ~(j < 0)
    <3>1. Quot(i, j) = -q /\ n = -i /\ d = j
      BY <1>3, <1>4, <2>2
    <3>2. j * (-q) = -(q * d)
      BY <1>1, <1>2, <3>1
    <3> QED BY <1>1, <1>2, <2>2, <3>1, <3>2
  <2>3. CASE ~(i < 0) /\ j < 0
    <3>1. Quot(i, j) = -q /\ n = i /\ d = -j
      BY <1>3, <1>4, <2>3
    <3>2. j * (-q) = q * d
      BY <1>1, <1>2, <3>1
    <3> QED BY <1>1, <1>2, <2>3, <3>1, <3>2
  <2>4. CASE ~(i < 0) /\ ~(j < 0)
    <3>1. Quot(i, j) = q /\ n = i /\ d = j
      BY <1>3, <1>4, <2>4
    <3>2. j * q = q * d
      BY <1>1, <1>2, <3>1
    <3> QED BY <1>1, <1>2, <2>4, <3>1, <3>2
  <2> QED BY <2>1, <2>2, <2>3, <2>4
<1>7. Quot(i, j) \in Int /\ i - j * Quot(i, j) \in IF i < 0 THEN i..0 ELSE 0..i
  BY <1>1, <1>2, <1>3, <1>4, <1>5, <1>6
<1> QED BY <1>1, <1>2, <1>3, <1>7 DEF q

\* A division by something larger is zero.
LEMMA QuotSmall ==
    ASSUME NEW i \in Int, NEW j \in Int, (IF i < 0 THEN -i ELSE i) < (IF j < 0 THEN -j ELSE j)
    PROVE  Quot(i, j) = 0
<1> DEFINE n == IF i < 0 THEN -i ELSE i
           d == IF j < 0 THEN -j ELSE j
<1>1. n \in 0..(d - 1) /\ d \in Nat \ {0}
  OBVIOUS
<1>2. (0 * d + n) \div d = 0
  BY <1>1, DivModUnique
<1>3. n \div d = 0
  BY <1>1, <1>2
<1> QED BY <1>3 DEF Quot

\* AbsVal is the absolute value, but for the least number, which it leaves.
LEMMA AbsValFacts ==
    ASSUME NEW w \in Nat \ {0}, NEW x \in 0..(Pow2[w] - 1)
    PROVE  LET i == Signed(x, w)
           IN  AbsVal(x, w) = IF i = -Pow2[w - 1] THEN i ELSE IF i < 0 THEN -i ELSE i
<1> DEFINE i == Signed(x, w)
           h == Pow2[w - 1]
           M == Pow2[w]
<1>1. M = 2 * h /\ h \in Nat \ {0}
  <2>1. w - 1 \in Nat /\ (w - 1) + 1 = w
    OBVIOUS
  <2> QED BY <2>1, Pow2Step, Pow2Type
<1>2. i \in -h..(h - 1) /\ Cut(i, w) = x /\ w \in Nat /\ x \in Int
  BY <1>1, SignedRange
<1>3. Cut(-x, w) = Cut(-i, w)
  <2>1. Cut(x, w) = Cut(i, w)
    BY <1>1, <1>2, CutId
  <2>2. Cut(0 - x, w) = Cut(0 - i, w)
    BY <1>1, <1>2, <2>1, CutSum
  <2> QED BY <1>1, <1>2, <2>2
<1> HIDE DEF i, h, M
<1>4. CASE i >= 0
  BY <1>1, <1>2, <1>4 DEF AbsVal, i, h
<1>5. CASE i < 0 /\ i # -h
  <2>1. -i \in -h..(h - 1)
    BY <1>1, <1>2, <1>5
  <2>2. Signed(Cut(-i, w), w) = -i
    BY <2>1, SignedCut DEF h
  <2> QED BY <1>1, <1>2, <1>3, <1>5, <2>2 DEF AbsVal, i, h
<1>6. CASE i = -h
  <2>1. Cut(-i, w) = h
    BY <1>1, <1>2, <1>6, CutId DEF M
  <2>2. Signed(h, w) = -h
    BY <1>1 DEF Signed, h, M
  <2> QED BY <1>1, <1>2, <1>3, <1>6, <2>1, <2>2 DEF AbsVal, i, h
<1> QED BY <1>1, <1>2, <1>4, <1>5, <1>6

\* Zero has no sign.
LEMMA NegateZero == ASSUME NEW z \in Int, z >= 0, z <= 0 PROVE -z = z
  OBVIOUS

\* The quotient of the absolute values, with the sign of the operands, is the
\* quotient, unless the dividend is the least number.
LEMMA QuotOfAbsVals ==
    ASSUME NEW w \in Nat \ {0}, NEW x \in 0..(Pow2[w] - 1), NEW y \in 0..(Pow2[w] - 1),
           x # Pow2[w - 1], y # 0
    PROVE  LET i == Signed(x, w)
               j == Signed(y, w)
               q == Quot(AbsVal(x, w), AbsVal(y, w))
           IN  /\ q \in 0..(Pow2[w - 1] - 1)
               /\ (IF (i < 0) # (j < 0) THEN -q ELSE q) = Quot(i, j)
               /\ j # 0
<1> DEFINE i == Signed(x, w)
           j == Signed(y, w)
           h == Pow2[w - 1]
           q == Quot(AbsVal(x, w), AbsVal(y, w))
           n == IF i < 0 THEN -i ELSE i
           d == IF j < 0 THEN -j ELSE j
<1>1. h \in Nat \ {0} /\ Pow2[w] = 2 * h
  <2>1. w - 1 \in Nat /\ (w - 1) + 1 = w
    OBVIOUS
  <2> QED BY <2>1, Pow2Step, Pow2Type
<1>2. i \in -h..(h - 1) /\ j \in -h..(h - 1) /\ i # -h /\ j # 0
  <2>1. i \in -h..(h - 1) /\ j \in -h..(h - 1)
    BY SignedRange
  <2> QED BY <1>1, <2>1 DEF Signed
<1>3. AbsVal(x, w) = n /\ AbsVal(y, w) = IF j = -h THEN j ELSE d
  BY <1>2, AbsValFacts
<1> HIDE DEF i, j, h
<1>4. n \in 0..(h - 1) /\ d \in 1..h /\ n \in Int /\ d \in Int
  BY <1>1, <1>2
<1>5. CASE j = -h
  <2>1. q = 0
    <3>1. (IF n < 0 THEN -n ELSE n) < (IF j < 0 THEN -j ELSE j)
      BY <1>1, <1>2, <1>5
    <3>2. n \in Int /\ j \in Int
      BY <1>2, <1>4
    <3> HIDE DEF n
    <3>3. Quot(n, j) = 0
      BY <3>1, <3>2, QuotSmall
    <3> QED BY <1>3, <1>5, <3>3
  <2>2. Quot(i, j) = 0
    <3>1. (IF i < 0 THEN -i ELSE i) < (IF j < 0 THEN -j ELSE j)
      BY <1>1, <1>2, <1>5
    <3> QED BY <1>2, <3>1, QuotSmall
  <2> HIDE DEF q
  <2>3. q \in 0..(h - 1) /\ (IF (i < 0) # (j < 0) THEN -q ELSE q) = Quot(i, j) /\ j # 0
    <3>1. 0 \in 0..(h - 1)
      BY <1>1
    <3>2. q \in Int /\ q >= 0 /\ q <= 0
      BY <2>1
    <3>3. -q = q
      BY <3>2, NegateZero, Zenon
    <3> QED BY <1>2, <2>1, <2>2, <3>1, <3>3, Zenon
  <2> QED BY <2>3 DEF i, j, h, q
<1>6. CASE j # -h
  <2>1. q = n \div d /\ n \div d \in 0..n
    <3>1. q = Quot(n, d)
      BY <1>3, <1>6
    <3> HIDE DEF n, d
    <3>2. n \div d \in 0..n
      BY <1>4, DivRange
    <3> QED BY <1>4, <3>1, <3>2 DEF Quot
  <2>2. Quot(i, j) = IF (i < 0) # (j < 0) THEN -(n \div d) ELSE n \div d
    BY <1>2, QuotFacts
  <2> HIDE DEF n, d, q
  <2>3. q \in 0..(h - 1)
    BY <1>1, <1>4, <2>1
  <2> QED BY <1>2, <2>1, <2>2, <2>3 DEF i, j, h, q
<1> QED BY <1>5, <1>6

\* The upper word of a product cut to two words is the upper word, cut.
LEMMA CutUpper ==
    ASSUME NEW z \in Int
    PROVE  Cut(Cut(z, 2 * W) \div Pow2[W], W) = Cut(z \div Pow2[W], W)
<1> DEFINE M == Pow2[W]
           v == Cut(z, 2 * W)
           d == v \div M
           e == v % M
<1>1. W \in Nat /\ 2 * W \in Nat /\ M \in Nat \ {0} /\ Pow2[2 * W] = M * M
  <2>1. W \in Nat /\ 2 * W \in Nat /\ W + W = 2 * W
    BY WordFacts
  <2>2. Pow2[W + W] = Pow2[W] * Pow2[W] /\ Pow2[W] \in Nat \ {0}
    BY <2>1, Pow2Sum, Pow2Type, Zenon
  <2> QED BY <2>1, <2>2
<1>2. PICK q \in Int : z = v + q * Pow2[2 * W]
  BY <1>1, CutOff
<1>3. v \in Int
  <2>1. v \in 0..(Pow2[2 * W] - 1)
    BY <1>1, CutType, Zenon
  <2> QED BY <1>1, <2>1
<1> HIDE DEF M, v
<1>4. d \in Int /\ e \in 0..(M - 1) /\ v = d * M + e
  BY <1>1, <1>3, DivModOf
<1> HIDE DEF d, e
<1>5. d + q * M \in Int /\ z = (d + q * M) * M + e
  BY <1>1, <1>2, <1>3, <1>4
<1>6. z \div M = d + q * M
  BY <1>1, <1>4, <1>5, DivModUnique
<1>7. Cut(d + q * M, W) = Cut(d, W)
  BY <1>1, <1>4, <1>5, CutShift DEF M
<1> QED BY <1>6, <1>7 DEF d, v, M

\* Products, quotients and remainders of words, one by one.
LEMMA MduWordAgrees ==
    ASSUME NEW x \in Word, NEW y \in Word
    PROVE  Same(Mdu(x, y), Ref(x, y),
                DOMAIN Mdu(x, y) \ IF x = Pow2[W - 1] THEN {"rem"} ELSE {})
<1> DEFINE M == Pow2[W]
           h == Pow2[W - 1]
           i == Signed(x, W)
           j == Signed(y, W)
           mdu == Mdu(x, y)
           ref == Ref(x, y)
<1>1. /\ W \in Nat \ {0} /\ M \in Nat /\ M > 1 /\ h \in Nat /\ M = 2 * h
      /\ x \in 0..(M - 1) /\ y \in 0..(M - 1) /\ h > 1
  BY WordFacts DEF Word
<1>2. /\ Cut(i, W) = x /\ Cut(j, W) = y /\ Cut(x, W) = x /\ Cut(y, W) = y
      /\ i \in -h..(h - 1) /\ j \in -h..(h - 1) /\ i \in Int /\ j \in Int
      /\ (y = 0 <=> j = 0) /\ (x = h <=> i = -h)
  <2>1. /\ Cut(i, W) = x /\ Cut(j, W) = y /\ Cut(x, W) = x /\ Cut(y, W) = y
        /\ i \in -h..(h - 1) /\ j \in -h..(h - 1)
    BY <1>1, SignedRange, CutId
  <2> QED BY <1>1, <2>1 DEF Signed
<1> HIDE DEF M, h, i, j
<1>3. /\ ref["mul"] = Out(i * j, W) /\ ref["mulh"] = Out((i * j) \div M, W)
      /\ ref["mulhu"] = Out((x * y) \div M, W)
      /\ ref["mulhsu"] = Out(Cut(i * y, 2 * W) \div M, W)
      /\ ref["div"] = Out(IF j = 0 THEN -1
                          ELSE IF i = -h /\ j = -1 THEN -h ELSE Quot(i, j), W)
      /\ ref["divu"] = Out(IF j = 0 THEN M - 1 ELSE x \div y, W)
      /\ ref["rem"] = Out(IF j = 0 THEN i
                          ELSE IF i = -h /\ j = -1 THEN 0 ELSE i - j * Quot(i, j), W)
      /\ ref["remu"] = Out(IF j = 0 THEN i ELSE x % y, W)
  <2>1. /\ ref["mul"] = Out(i * j, W) /\ ref["mulh"] = Out((i * j) \div Pow2[W], W)
        /\ ref["mulhu"] = Out((Cut(i, W) * Cut(j, W)) \div Pow2[W], W)
        /\ ref["mulhsu"] = Out(Cut(i * Cut(j, W), 2 * W) \div Pow2[W], W)
        /\ ref["div"] = Out(IF j = 0 THEN -1
                            ELSE IF i = -(Pow2[W - 1]) /\ j = -1 THEN -(Pow2[W - 1])
                                 ELSE Quot(i, j), W)
        /\ ref["divu"] = Out(IF j = 0 THEN Pow2[W] - 1 ELSE Cut(i, W) \div Cut(j, W), W)
        /\ ref["rem"] = Out(IF j = 0 THEN i
                            ELSE IF i = -(Pow2[W - 1]) /\ j = -1 THEN 0
                                 ELSE i - j * Quot(i, j), W)
        /\ ref["remu"] = Out(IF j = 0 THEN i ELSE Cut(i, W) % Cut(j, W), W)
    BY ExecOps DEF Ref, i, j
  <2> HIDE DEF ref
  <2> QED BY <1>2, <2>1 DEF M, h
<1> HIDE DEF ref
<1>4. mdu.mul = ref["mul"]
  <2>1. i * j \in Int /\ x \in Int /\ y \in Int /\ W \in Nat
    BY <1>1, <1>2
  <2>2. Cut(x * y, W) = Cut(i * j, W)
    <3>1. Cut(x, W) = Cut(i, W) /\ Cut(y, W) = Cut(j, W)
      BY <1>2
    <3>2. x \in Int /\ y \in Int /\ i \in Int /\ j \in Int
      BY <1>2, <2>1
    <3>3. Cut(x * y, W) = Cut(i * y, W) /\ Cut(y * i, W) = Cut(j * i, W)
      BY <2>1, <3>1, <3>2, CutProduct, Zenon
    <3>4. i * y = y * i /\ i * j = j * i
      BY <3>2
    <3> QED BY <3>3, <3>4, Zenon
  <2> QED BY <1>3, <2>1, <2>2, OutWord DEF Mdu
<1>5. mdu.mulh = ref["mulh"]
  <2>1. i * j \in Int
    BY <1>2
  <2>2. (i * j) \div M \in Int
    BY <1>1, <2>1, DivModOf
  <2> QED BY <1>3, <2>2, OutWord DEF Mdu, M, i, j
<1>6. mdu.mulhsu = ref["mulhsu"]
  <2>1. i * y \in Int /\ 2 * W \in Nat
    BY <1>1, <1>2
  <2>2. Cut(i * y, 2 * W) \in Int
    <3>1. Cut(i * y, 2 * W) \in 0..(Pow2[2 * W] - 1) /\ Pow2[2 * W] \in Nat
      BY <2>1, CutType, Pow2Type, Zenon
    <3> QED BY <3>1
  <2>3. Cut(i * y, 2 * W) \div M \in Int
    BY <1>1, <2>2, DivModOf
  <2>4. Cut(Cut(i * y, 2 * W) \div M, W) = Cut((i * y) \div M, W)
    BY <2>1, CutUpper DEF M
  <2> QED BY <1>3, <2>3, <2>4, OutWord DEF Mdu, M, i
<1>7. mdu.mulhu = ref["mulhu"]
  <2> DEFINE p == x * y
             d == p \div M
             e == p % M
  <2>1. p \in Nat /\ p < M * M
    BY <1>1
  <2>2. d \in 0..p /\ e \in 0..(M - 1) /\ p = d * M + e
    <3> HIDE DEF p
    <3>1. d \in 0..p
      BY <1>1, <2>1, DivRange
    <3>2. e \in 0..(M - 1) /\ p = d * M + e
      <4>1. p \in Int /\ M \in Nat \ {0}
        BY <1>1, <2>1
      <4> QED BY <4>1, DivModOf
    <3> QED BY <3>1, <3>2
  <2> HIDE DEF p, d, e
  <2>3. d < M
    <3>1. ASSUME d >= M PROVE d * M >= M * M
      BY <1>1, <2>1, <2>2, <3>1
    <3> QED BY <1>1, <2>1, <2>2, <3>1
  <2>4. d \in Int /\ Cut(d, W) = d
    BY <1>1, <2>1, <2>2, <2>3, CutId DEF M
  <2> QED BY <1>3, <2>4, OutWord DEF Mdu, M, d, p
<1>8. mdu.div = ref["div"]
  <2>1. CASE y = 0
    <3>1. Cut(-1, W) = M - 1
      <4>1. Cut(-1 + M, W) = -1 + M
        BY <1>1, CutId DEF M
      <4>2. W \in Nat /\ -1 \in Int /\ -1 + M \in Int /\ 1 \in Int /\ -1 + M = -1 + 1 * M
        BY <1>1
      <4>3. Cut(-1 + M, W) = Cut(-1, W)
        <5>1. \E q \in Int : -1 + M = -1 + q * M
          BY <4>2
        <5> QED BY <4>2, <5>1, CutShift, Zenon DEF M
      <4> QED BY <1>1, <4>1, <4>3
    <3> QED BY <1>2, <1>3, <2>1, <3>1, OutWord DEF Mdu, M
  <2>2. CASE y # 0 /\ i = -h /\ j = -1
    <3>1. Quot(-h, -1) = h
      <4>1. h \div 1 = h
        BY <1>1
      <4> QED BY <1>1, <4>1 DEF Quot
    <3>2. Cut(h, W) = Cut(-h, W)
      <4>1. W \in Nat /\ h \in Int /\ -h \in Int /\ h = -h + 1 * M
        BY <1>1
      <4>2. \E q \in Int : h = -h + q * M
        BY <4>1
      <4> QED BY <4>1, <4>2, CutShift, Zenon DEF M
    <3>3. -h \in Int
      BY <1>1
    <3> QED BY <1>2, <1>3, <2>2, <3>1, <3>2, <3>3, OutWord DEF Mdu, i, j
  <2>3. CASE y # 0 /\ ~(i = -h /\ j = -1)
    <3>1. Quot(i, j) \in Int
      BY <1>2, <2>3, QuotFacts
    <3> QED BY <1>2, <1>3, <2>3, <3>1, OutWord DEF Mdu, i, j
  <2> QED BY <2>1, <2>2, <2>3
<1>9. mdu.divu = ref["divu"]
  <2>1. CASE y = 0
    <3>1. M - 1 \in Int /\ Cut(M - 1, W) = M - 1
      BY <1>1, CutId DEF M
    <3> QED BY <1>2, <1>3, <2>1, <3>1, OutWord DEF Mdu, M
  <2>2. CASE y # 0
    <3>1. x \div y \in 0..x
      BY <1>1, <2>2, DivRange
    <3>2. x \div y \in Int /\ Cut(x \div y, W) = x \div y
      BY <1>1, <3>1, CutId DEF M
    <3> QED BY <1>2, <1>3, <2>2, <3>2, OutWord DEF Mdu
  <2> QED BY <2>1, <2>2
<1>10. mdu.remu = ref["remu"]
  <2>1. CASE y = 0
    BY <1>2, <1>3, <2>1, OutWord DEF Mdu
  <2>2. CASE y # 0
    <3>1. x % y \in 0..(y - 1)
      BY <1>1, <2>2, DivModOf
    <3>2. x % y \in Int /\ Cut(x % y, W) = x % y
      BY <1>1, <3>1, CutId DEF M
    <3> QED BY <1>2, <1>3, <2>2, <3>2, OutWord DEF Mdu
  <2> QED BY <2>1, <2>2
<1>11. x # h => mdu.rem = ref["rem"]
  <2> SUFFICES ASSUME x # h PROVE Rem(x, y) = ref["rem"]
    BY DEF Mdu
  <2>1. i # -h
    BY <1>2
  <2>2. CASE y = 0
    <3> DEFINE c == IF (i < 0) # (j < 0) THEN -1 ELSE 1
    <3>1. c \in Int /\ i - c * j = i
      BY <1>2, <2>2
    <3>2. Rem(x, y) = Cut(i - c * j, W)
      BY <2>2 DEF Rem, i, j
    <3> HIDE DEF c
    <3> QED BY <1>2, <1>3, <2>2, <3>1, <3>2, OutWord
  <2>3. CASE y # 0
    <3> DEFINE q == Quot(AbsVal(x, W), AbsVal(y, W))
               c == IF (i < 0) # (j < 0) THEN -q ELSE q
    <3>1. c = Quot(i, j)
      BY <1>1, <2>3, QuotOfAbsVals DEF i, j, h, M
    <3>2. Quot(i, j) \in Int
      BY <1>2, <2>3, QuotFacts
    <3>3. Rem(x, y) = Cut(i - c * j, W)
      BY <2>3 DEF Rem, i, j
    <3> HIDE DEF c
    <3>4. i - c * j = i - j * Quot(i, j) /\ i - j * Quot(i, j) \in Int
      BY <1>2, <3>1, <3>2
    <3> QED BY <1>2, <1>3, <2>1, <2>3, <3>3, <3>4, OutWord
  <2> QED BY <2>2, <2>3
<1>12. DOMAIN mdu = {"mul", "mulh", "mulhsu", "mulhu", "div", "divu", "rem", "remu"}
  BY DEF Mdu
<1>13. /\ mdu.mul = mdu["mul"] /\ mdu.mulh = mdu["mulh"] /\ mdu.mulhsu = mdu["mulhsu"]
       /\ mdu.mulhu = mdu["mulhu"] /\ mdu.div = mdu["div"] /\ mdu.divu = mdu["divu"]
       /\ mdu.rem = mdu["rem"] /\ mdu.remu = mdu["remu"]
  OBVIOUS
<1> HIDE DEF mdu
<1> QED
  BY <1>4, <1>5, <1>6, <1>7, <1>8, <1>9, <1>10, <1>11, <1>12, <1>13 DEF Same, mdu, ref, h

\* A number that a half can hold is sign-extended as it is.
LEMMA OutSmall ==
    ASSUME NEW z \in -Pow2[H - 1]..(Pow2[H - 1] - 1)
    PROVE  z \in Int /\ Out(z, H) = Cut(z, W)
<1>1. H \in Nat \ {0} /\ Pow2[H - 1] \in Nat
  BY WordFacts
<1>2. Signed(Cut(z, H), H) = z
  BY <1>1, SignedCut
<1> QED BY <1>1, <1>2 DEF Out

\* divw, put together from sign and absolute values, is the signed quotient.
LEMMA DivWordAgrees ==
    ASSUME NEW m \in 0..(Pow2[H] - 1), NEW n \in 0..(Pow2[H] - 1),
           m # Pow2[H - 1], n # 0
    PROVE  DivW(m, n) = Out(Quot(Signed(m, H), Signed(n, H)), H)
<1> DEFINE N == Pow2[H]
           M == Pow2[W]
           g == Pow2[H - 1]
           i == Signed(m, H)
           j == Signed(n, H)
           q == Quot(AbsVal(m, H), AbsVal(n, H))
           sign == (i < 0) # (j < 0)
<1>1. /\ H \in Nat \ {0} /\ W \in Nat /\ N \in Nat /\ M = N * N /\ N = 2 * g /\ g \in Nat
      /\ g >= 8 /\ M \in Nat /\ Pow2[H + 1] = 2 * N /\ H + 1 \in Nat
  BY WordFacts, Pow2Step
<1>2. q \in 0..(g - 1) /\ (IF sign THEN -q ELSE q) = Quot(i, j)
  BY <1>1, QuotOfAbsVals
<1>3. DivW(m, n) = IF Cut(q, H + 1) = 0 THEN 0
                   ELSE IF sign THEN (N - 1) * N + Cut(-Cut(q, H + 1), H)
                   ELSE Cut(Cut(q, H + 1), H)
  BY DEF DivW
<1> HIDE DEF N, M, g, i, j, q, sign
<1>4. q \in Int /\ -q \in Int /\ Cut(q, H + 1) = q /\ Cut(q, H) = q /\ Cut(q, W) = q
  <2>1. q \in 0..(N - 1) /\ q \in 0..(M - 1) /\ q \in 0..(2 * N - 1)
    BY <1>1, <1>2
  <2> QED BY <1>1, <2>1, CutId DEF N, M
<1>5. CASE q = 0
  <2>1. Quot(i, j) = q
    <3>1. q \in Int /\ q >= 0 /\ q <= 0
      BY <1>5
    <3>2. -q = q
      BY <3>1, NegateZero, Zenon
    <3> QED BY <1>2, <3>2, Zenon
  <2>2. q \in -g..(g - 1)
    BY <1>1, <1>2
  <2>3. Out(q, H) = Cut(q, W)
    BY <2>2, OutSmall DEF g
  <2>4. DivW(m, n) = 0
    BY <1>3, <1>4, <1>5
  <2> QED BY <1>4, <1>5, <2>1, <2>3, <2>4 DEF i, j
<1>6. CASE q # 0 /\ sign
  <2>1. Quot(i, j) = -q /\ DivW(m, n) = (N - 1) * N + Cut(-q, H)
    BY <1>2, <1>3, <1>4, <1>6, Zenon
  <2>2. -q \in -g..(g - 1)
    BY <1>1, <1>2
  <2>3. Out(-q, H) = Cut(-q, W)
    BY <2>2, OutSmall DEF g
  <2>4. Cut(-q, H) = N - q
    <3>1. N - q \in 0..(N - 1) /\ N - q \in Int /\ H \in Nat /\ N - q = -q + 1 * N
      BY <1>1, <1>2, <1>6
    <3>2. Cut(N - q, H) = N - q
      BY <3>1, CutId DEF N
    <3>3. \E c \in Int : N - q = -q + c * N
      BY <3>1
    <3>4. Cut(N - q, H) = Cut(-q, H)
      BY <1>4, <3>1, <3>3, CutShift, Zenon DEF N
    <3> QED BY <3>2, <3>4
  <2>5. Cut(-q, W) = M - q
    <3>1. M >= N
      BY <1>1
    <3>2. M - q \in 0..(M - 1) /\ M - q \in Int /\ W \in Nat /\ M - q = -q + 1 * M
      BY <1>1, <1>2, <1>6, <3>1
    <3>3. Cut(M - q, W) = M - q
      BY <3>2, CutId DEF M
    <3>4. \E c \in Int : M - q = -q + c * M
      BY <3>2
    <3>5. Cut(M - q, W) = Cut(-q, W)
      BY <1>4, <3>2, <3>4, CutShift, Zenon DEF M
    <3> QED BY <3>3, <3>5
  <2>6. (N - 1) * N + (N - q) = M - q
    BY <1>1, <1>4
  <2> QED BY <2>1, <2>3, <2>4, <2>5, <2>6, Zenon DEF i, j
<1>7. CASE q # 0 /\ ~sign
  <2>1. Quot(i, j) = q /\ DivW(m, n) = q
    BY <1>2, <1>3, <1>4, <1>7, Zenon
  <2>2. q \in -g..(g - 1)
    BY <1>1, <1>2
  <2>3. Out(q, H) = Cut(q, W)
    BY <2>2, OutSmall DEF g
  <2> QED BY <1>4, <2>1, <2>3, Zenon DEF i, j
<1> QED BY <1>5, <1>6, <1>7

\* Products, quotients and remainders of half words, one by one.
LEMMA MduHalfAgrees ==
    ASSUME NEW x \in Word, NEW y \in Word
    PROVE  Same(MduW(Lo(x), Lo(y)), RefW(x, y),
                DOMAIN MduW(Lo(x), Lo(y)) \ IF Lo(x) = Pow2[H - 1] THEN {"div"} ELSE {})
<1> DEFINE N == Pow2[H]
           M == Pow2[W]
           g == Pow2[H - 1]
           m == Lo(x)
           n == Lo(y)
           i == Signed(m, H)
           j == Signed(n, H)
           least == -(Pow2[W - 1])
           mdu == MduW(m, n)
           ref == RefW(x, y)
<1>1. /\ H \in Nat \ {0} /\ W \in Nat /\ N \in Nat /\ M = N * N /\ N = 2 * g /\ g \in Nat
      /\ g >= 8 /\ M \in Nat /\ m \in 0..(N - 1) /\ n \in 0..(N - 1) /\ Pow2[W - 1] > N
      /\ Pow2[W - 1] \in Nat
  BY WordFacts, LoType
<1>2. /\ Cut(i, H) = m /\ Cut(j, H) = n /\ i \in -g..(g - 1) /\ j \in -g..(g - 1)
      /\ i \in Int /\ j \in Int /\ (n = 0 <=> j = 0) /\ i # least
  <2>1. Cut(i, H) = m /\ Cut(j, H) = n /\ i \in -g..(g - 1) /\ j \in -g..(g - 1)
    BY <1>1, SignedRange
  <2> QED BY <1>1, <2>1 DEF Signed
<1> HIDE DEF N, M, g, m, n, i, j, least
<1>3. /\ ref["mul"] = Out(i * j, H)
      /\ ref["div"] = Out(IF j = 0 THEN -1 ELSE Quot(i, j), H)
      /\ ref["divu"] = Out(IF j = 0 THEN M - 1 ELSE m \div n, H)
      /\ ref["rem"] = Out(IF j = 0 THEN i ELSE i - j * Quot(i, j), H)
      /\ ref["remu"] = Out(IF j = 0 THEN i ELSE m % n, H)
  <2>1. /\ ref["mul"] = Out(i * j, H)
        /\ ref["div"] = Out(IF j = 0 THEN -1
                            ELSE IF i = -(Pow2[W - 1]) /\ j = -1 THEN -(Pow2[W - 1])
                                 ELSE Quot(i, j), H)
        /\ ref["divu"] = Out(IF j = 0 THEN Pow2[W] - 1 ELSE Cut(i, H) \div Cut(j, H), H)
        /\ ref["rem"] = Out(IF j = 0 THEN i
                            ELSE IF i = -(Pow2[W - 1]) /\ j = -1 THEN 0
                                 ELSE i - j * Quot(i, j), H)
        /\ ref["remu"] = Out(IF j = 0 THEN i ELSE Cut(i, H) % Cut(j, H), H)
    BY ExecOps DEF RefW, i, j, m, n
  <2> HIDE DEF ref
  <2> QED BY <1>2, <2>1 DEF M, least
<1> HIDE DEF ref
<1>4. mdu.mul = ref["mul"]
  <2>1. i * j \in Int
    BY <1>2
  <2> QED BY <1>3, <2>1, OutHalf DEF MduW, i, j
<1>5. m # g => mdu.div = ref["div"]
  <2> SUFFICES ASSUME m # g PROVE DivW(m, n) = ref["div"]
    BY DEF MduW
  <2>1. CASE n = 0
    <3>1. -1 \in -g..(g - 1) /\ -1 \in Int /\ N - 1 # 0
      BY <1>1
    <3>2. Out(-1, H) = Cut(-1, W)
      BY <3>1, OutSmall DEF g
    <3>3. Cut(-1, W) = M - 1
      <4>1. M >= N
        BY <1>1
      <4>2. W \in Nat /\ -1 + M \in 0..(M - 1) /\ -1 + M \in Int /\ -1 + M = -1 + 1 * M
        BY <1>1, <4>1
      <4>3. Cut(-1 + M, W) = -1 + M
        BY <4>2, CutId DEF M
      <4>4. \E c \in Int : -1 + M = -1 + c * M
        BY <4>2
      <4>5. Cut(-1 + M, W) = Cut(-1, W)
        BY <3>1, <4>2, <4>4, CutShift, Zenon DEF M
      <4> QED BY <1>1, <4>3, <4>5
    <3>4. DivW(m, n) = M - 1
      BY <2>1, <3>1 DEF DivW, N, M
    <3> QED BY <1>2, <1>3, <2>1, <3>2, <3>3, <3>4
  <2>2. CASE n # 0
    <3>1. DivW(m, n) = Out(Quot(i, j), H)
      BY <1>1, <2>2, DivWordAgrees DEF N, g, i, j
    <3> QED BY <1>2, <1>3, <2>2, <3>1
  <2> QED BY <2>1, <2>2
<1>6. mdu.divu = ref["divu"]
  <2>1. CASE n = 0
    <3>1. M - 1 \in Int /\ N - 1 \in Int /\ N - 1 \in 0..(N - 1) /\ H \in Nat
          /\ M - 1 = (N - 1) + (N - 1) * N
      BY <1>1
    <3>2. \E c \in Int : M - 1 = (N - 1) + c * N
      BY <3>1
    <3>3. Cut(M - 1, H) = Cut(N - 1, H)
      BY <3>1, <3>2, CutShift, Zenon DEF N
    <3>4. Cut(N - 1, H) = N - 1
      BY <3>1, CutId DEF N
    <3>5. ref["divu"] = Sext(N - 1)
      BY <1>2, <1>3, <2>1, <3>1, <3>3, <3>4, OutHalf
    <3> QED BY <2>1, <3>5 DEF MduW, N
  <2>2. CASE n # 0
    <3>1. m \div n \in 0..m
      BY <1>1, <2>2, DivRange
    <3>2. m \div n \in Int /\ m \div n \in 0..(N - 1)
      BY <1>1, <3>1
    <3>3. Cut(m \div n, H) = m \div n
      BY <1>1, <3>2, CutId DEF N
    <3> QED BY <1>2, <1>3, <2>2, <3>2, <3>3, OutHalf DEF MduW
  <2> QED BY <2>1, <2>2
<1>7. mdu.rem = ref["rem"]
  <2>1. CASE n = 0
    <3>1. ref["rem"] = Sext(m)
      BY <1>2, <1>3, <2>1, OutHalf
    <3> QED BY <2>1, <3>1 DEF MduW
  <2>2. CASE n # 0
    <3> DEFINE r == i - j * Quot(i, j)
    <3>1. r \in IF i < 0 THEN i..0 ELSE 0..i
      BY <1>2, <2>2, QuotFacts
    <3>2. mdu.rem = Cut(r, W)
      BY <2>2 DEF MduW, i, j
    <3> HIDE DEF r
    <3>3. r \in -g..(g - 1)
      BY <1>1, <1>2, <3>1
    <3>4. Out(r, H) = Cut(r, W)
      BY <3>3, OutSmall DEF g
    <3> QED BY <1>2, <1>3, <2>2, <3>2, <3>4 DEF r
  <2> QED BY <2>1, <2>2
<1>8. mdu.remu = ref["remu"]
  <2>1. CASE n = 0
    <3>1. ref["remu"] = Sext(m)
      BY <1>2, <1>3, <2>1, OutHalf
    <3> QED BY <2>1, <3>1 DEF MduW
  <2>2. CASE n # 0
    <3>1. m % n \in 0..(n - 1)
      <4>1. m \in Int /\ n \in Nat \ {0}
        BY <1>1, <2>2
      <4> QED BY <4>1, DivModOf
    <3>2. m % n \in Int /\ m % n \in 0..(N - 1)
      BY <1>1, <3>1
    <3>3. Cut(m % n, H) = m % n
      BY <1>1, <3>2, CutId DEF N
    <3> QED BY <1>2, <1>3, <2>2, <3>2, <3>3, OutHalf DEF MduW
  <2> QED BY <2>1, <2>2
<1>9. DOMAIN mdu = {"mul", "div", "divu", "rem", "remu"}
  BY DEF MduW
<1>10. /\ mdu.mul = mdu["mul"] /\ mdu.div = mdu["div"] /\ mdu.divu = mdu["divu"]
       /\ mdu.rem = mdu["rem"] /\ mdu.remu = mdu["remu"]
  OBVIOUS
<1> HIDE DEF mdu
<1> QED
  BY <1>4, <1>5, <1>6, <1>7, <1>8, <1>9, <1>10 DEF Same, mdu, ref, m, n, g

\* Mdu agrees on all operands.
LEMMA MduAgreesTyped ==
    ASSUME a \in Word, b \in Word PROVE MduAgrees
  BY MduWordAgrees, MduHalfAgrees DEF MduAgrees
-----------------------------------------------------------------------------
(* Bytes, stores and loads. *)

\* A number is what lies below a byte, the byte, and what lies above it.
LEMMA ByteParts ==
    ASSUME NEW x \in Int, NEW i \in Nat
    PROVE  /\ Byte(x, i) \in 0..(Pow2[B] - 1)
           /\ \E lo \in 0..(Pow2[B * i] - 1) : \E u \in Int :
                 x = lo + Pow2[B * i] * (Byte(x, i) + Pow2[B] * u)
<1> DEFINE P == Pow2[B * i]
           Q == Pow2[B]
           d == x \div P
           lo == x % P
<1>1. P \in Nat \ {0} /\ Q \in Nat \ {0} /\ B \in Nat
  <2>1. B \in Nat /\ B * i \in Nat
    BY WidthAssumption
  <2> QED BY <2>1, Pow2Type, Zenon
<1> HIDE DEF P, Q
<1>2. d \in Int /\ lo \in 0..(P - 1) /\ x = d * P + lo
  BY <1>1, DivModOf
<1> HIDE DEF d, lo
<1>3. d % Q \in 0..(Q - 1) /\ d \div Q \in Int /\ d = (d \div Q) * Q + (d % Q)
  BY <1>1, <1>2, DivModOf
<1>4. Byte(x, i) = d % Q
  BY DEF Byte, Cut, d, P, Q
<1>5. x = lo + P * (Byte(x, i) + Q * (d \div Q))
  <2> DEFINE e == d % Q
             f == d \div Q
  <2>1. e \in Int /\ f \in Int /\ d = f * Q + e
    BY <1>1, <1>3
  <2> HIDE DEF e, f
  <2>2. x = lo + P * (e + Q * f)
    BY <1>1, <1>2, <2>1
  <2> QED BY <1>4, <2>2 DEF e, f
<1> QED BY <1>2, <1>3, <1>4, <1>5 DEF P, Q

\* These parts determine the byte.
LEMMA ByteOfParts ==
    ASSUME NEW i \in Nat, NEW lo \in 0..(Pow2[B * i] - 1), NEW v \in 0..(Pow2[B] - 1),
           NEW u \in Int, NEW x \in Int, x = lo + Pow2[B * i] * (v + Pow2[B] * u)
    PROVE  Byte(x, i) = v
<1> DEFINE P == Pow2[B * i]
           Q == Pow2[B]
           d == u * Q + v
<1>1. P \in Nat \ {0} /\ Q \in Nat \ {0} /\ B \in Nat
  <2>1. B \in Nat /\ B * i \in Nat
    BY WidthAssumption
  <2> QED BY <2>1, Pow2Type, Zenon
<1>2. lo \in 0..(P - 1) /\ v \in 0..(Q - 1) /\ x = lo + P * (v + Q * u)
  OBVIOUS
<1> HIDE DEF P, Q
<1>3. d \in Int /\ x = d * P + lo
  BY <1>1, <1>2
<1>4. d % Q = v
  BY <1>1, <1>2, DivModUnique
<1> HIDE DEF d
<1>5. x \div P = d
  BY <1>1, <1>2, <1>3, DivModUnique
<1> QED BY <1>4, <1>5 DEF Byte, Cut, P, Q

\* The bytes of a number do not depend on what is above them.
LEMMA ByteBelow ==
    ASSUME NEW x \in Int, NEW q \in Int, NEW n \in Nat, NEW i \in 0..(n - 1)
    PROVE  Byte(x + q * Pow2[B * n], i) = Byte(x, i)
<1> DEFINE P == Pow2[B * i]
           Q == Pow2[B]
           K == Pow2[B * (n - (i + 1))]
           v == Byte(x, i)
           z == x + q * Pow2[B * n]
<1>1. Pow2[B * n] = (P * Q) * K /\ P \in Int /\ Q \in Int /\ K \in Int
  <2>1. B * i \in Nat /\ B \in Nat /\ B * (n - (i + 1)) \in Nat /\ B * i + B \in Nat
        /\ B * n = (B * i + B) + B * (n - (i + 1))
    <3>1. B \in Nat /\ n - (i + 1) \in Nat /\ i \in Nat
      BY WidthAssumption
    <3> QED BY <3>1, WidthAssumption
  <2>2. Pow2[B * i + B] = P * Q
    BY <2>1, Pow2Sum, Zenon
  <2>3. Pow2[(B * i + B) + B * (n - (i + 1))] = Pow2[B * i + B] * K
    BY <2>1, Pow2Sum, Zenon
  <2>4. P \in Nat \ {0} /\ Q \in Nat \ {0} /\ K \in Nat \ {0}
    BY <2>1, Pow2Type, Zenon
  <2> QED BY <2>1, <2>2, <2>3, <2>4
<1>2. i \in Nat /\ v \in 0..(Q - 1)
  <2>1. i \in Nat
    OBVIOUS
  <2> QED BY <2>1, ByteParts
<1>3. PICK lo \in 0..(P - 1), u \in Int : x = lo + P * (v + Q * u)
  BY <1>2, ByteParts
<1> HIDE DEF P, Q, K, v
<1>4. q * K + u \in Int /\ z \in Int /\ z = lo + P * (v + Q * (q * K + u))
  <2> DEFINE M == Pow2[B * n]
  <2>1. M = (P * Q) * K
    BY <1>1
  <2> HIDE DEF M
  <2>2. q * K \in Int /\ q * M = P * (Q * (q * K))
    BY <1>1, <2>1
  <2>3. q * M \in Int
    BY <1>1, <2>1
  <2>4. x + q * M = lo + P * (v + Q * (q * K + u))
    BY <1>1, <1>2, <1>3, <2>2
  <2>5. x + q * M \in Int
    BY <2>3
  <2> QED BY <2>2, <2>4, <2>5 DEF M
<1> HIDE DEF z
<1>5. Byte(z, i) = v
  BY <1>2, <1>3, <1>4, ByteOfParts DEF P, Q
<1> QED BY <1>5 DEF z, v

\* Shifting by j bytes renumbers them.
LEMMA ByteShift ==
    ASSUME NEW x \in Int, NEW i \in Nat, NEW j \in Nat
    PROVE  Byte(x \div Pow2[B * j], i) = Byte(x, i + j)
<1> DEFINE P == Pow2[B * i]
           Q == Pow2[B]
           J == Pow2[B * j]
           d == x \div J
           e == x % J
           v == Byte(d, i)
<1>1. Pow2[B * (i + j)] = P * J /\ P \in Nat \ {0} /\ Q \in Nat \ {0} /\ J \in Nat \ {0}
  <2>1. B * i \in Nat /\ B \in Nat /\ B * j \in Nat /\ B * (i + j) = B * i + B * j
    BY WidthAssumption
  <2>2. Pow2[B * i + B * j] = P * J
    BY <2>1, Pow2Sum, Zenon
  <2>3. P \in Nat \ {0} /\ Q \in Nat \ {0} /\ J \in Nat \ {0}
    BY <2>1, Pow2Type, Zenon
  <2> QED BY <2>1, <2>2, <2>3
<1>2. d \in Int /\ e \in 0..(J - 1) /\ x = d * J + e
  BY <1>1, DivModOf
<1> HIDE DEF d, e
<1>3. v \in 0..(Q - 1)
  BY <1>2, ByteParts
<1>4. PICK lo \in 0..(P - 1), u \in Int : d = lo + P * (v + Q * u)
  BY <1>2, ByteParts
<1> HIDE DEF P, Q, J, v
<1> DEFINE low == e + J * lo
           K == P * J
<1>5. low \in 0..(K - 1) /\ x = low + K * (v + Q * u)
  <2>1. J * lo \in Nat /\ J * lo <= J * (P - 1)
    BY <1>1, <1>4
  <2>2. low \in 0..(K - 1)
    BY <1>1, <1>2, <2>1
  <2>3. x = low + K * (v + Q * u)
    BY <1>1, <1>2, <1>3, <1>4
  <2> QED BY <2>2, <2>3
<1>6. low \in 0..(Pow2[B * (i + j)] - 1) /\ x = low + Pow2[B * (i + j)] * (v + Q * u)
      /\ i + j \in Nat
  BY <1>1, <1>5
<1> HIDE DEF low, K
<1>7. Byte(x, i + j) = v
  BY <1>3, <1>4, <1>6, ByteOfParts DEF Q
<1> QED BY <1>7 DEF v, d, J

\* 2^m - 1 divides 2^(m*c) - 1.
LEMMA Geometric ==
    ASSUME NEW m \in Nat
    PROVE  \A c \in Nat : \E r \in Nat : Pow2[m * c] - 1 = r * (Pow2[m] - 1)
<1> DEFINE T == {c \in Nat : ~\E r \in Nat : Pow2[m * c] - 1 = r * (Pow2[m] - 1)}
<1> SUFFICES ASSUME T # {} PROVE FALSE
  OBVIOUS
<1>1. PICK c \in T : \A l \in T : c <= l
  BY LeastElement
<1> DEFINE P == Pow2[m]
<1>2. P \in Nat \ {0}
  BY Pow2Type
<1>3. c # 0
  <2>1. Pow2[m * 0] - 1 = 0 * (Pow2[m] - 1)
    <3>1. m * 0 = 0
      OBVIOUS
    <3> QED BY <1>2, <3>1, Pow2Step
  <2> QED BY <2>1
<1>4. PICK r \in Nat : Pow2[m * (c - 1)] - 1 = r * (P - 1)
  BY <1>1, <1>3
<1>5. Pow2[m * c] = Pow2[m * (c - 1)] * P /\ Pow2[m * (c - 1)] \in Nat \ {0}
  <2>1. m * (c - 1) \in Nat /\ m * c = m * (c - 1) + m
    <3>1. c - 1 \in Nat
      BY <1>3
    <3> QED BY <3>1
  <2>2. Pow2[m * (c - 1) + m] = Pow2[m * (c - 1)] * P /\ Pow2[m * (c - 1)] \in Nat \ {0}
    BY <2>1, Pow2Sum, Pow2Type, Zenon
  <2> QED BY <2>1, <2>2
<1> DEFINE K == Pow2[m * (c - 1)]
<1> HIDE DEF P, K
<1>6. K * P - 1 = (r + K) * (P - 1)
  <2>1. K - 1 = r * (P - 1) /\ K \in Nat
    BY <1>4, <1>5 DEF K
  <2> QED BY <1>2, <2>1
<1>7. r + K \in Nat /\ Pow2[m * c] - 1 = (r + K) * (P - 1)
  BY <1>5, <1>6 DEF K
<1> QED BY <1>7 DEF P

\* The sizes of accesses, and where aligned ones end.
LEMMA AccessFacts ==
    ASSUME NEW n \in Sizes, NEW off \in Offsets(n)
    PROVE  /\ n \in 1..L /\ off \in Nat /\ off + n <= L
           /\ \E k, c \in Nat : c < k /\ L = n * k /\ off = n * c
<1>1. n \in {1, 2, 4, 8} /\ n <= L /\ off \in 0..(L - 1) /\ off % n = 0 /\ L \in {4, 8}
  BY WidthAssumption DEF Sizes, Offsets, Lanes
<1>2. n \in 1..L /\ off \in Nat /\ off + n <= L
  BY <1>1
<1>3. PICK k \in {1, 2, 4, 8} : L = n * k
  BY <1>1
<1>4. \E c \in Nat : c < k /\ off = n * c
  <2>1. off \div n \in Nat /\ off \div n < k /\ off = n * (off \div n)
    BY <1>1, <1>3
  <2> QED BY <2>1
<1> QED BY <1>2, <1>3, <1>4

\* What is repeated over the lanes is found in each of them.
LEMMA StoreDataBytes ==
    ASSUME NEW y \in Int, NEW n \in Sizes, NEW off \in Offsets(n), NEW t \in 0..(n - 1)
    PROVE  Byte(StoreData(y, n), off + t) = Byte(y, t)
<1>1. PICK k \in Nat, c \in Nat : c < k /\ L = n * k /\ off = n * c
  BY AccessFacts
<1> DEFINE m == B * n
           P == Pow2[m]
           M == Pow2[W]
           C == Pow2[m * c]
           D == Pow2[m * (k - (c + 1))]
           v == Cut(y, m)
<1>2. /\ n \in Nat \ {0} /\ B \in Nat \ {0} /\ m \in Nat \ {0} /\ c \in Nat /\ k - (c + 1) \in Nat
      /\ m * c \in Nat /\ m * (k - (c + 1)) \in Nat /\ t \in Nat /\ m - 1 \in Nat
  <2>1. n \in Nat \ {0} /\ B \in Nat \ {0} /\ c \in Nat /\ k - (c + 1) \in Nat /\ t \in Nat
    BY <1>1, AccessFacts, WidthAssumption
  <2>2. m \in Nat \ {0}
    BY <2>1
  <2> HIDE DEF m
  <2> QED BY <2>1, <2>2
<1>3. M = (C * P) * D
  <2>1. W = m * k /\ m * k = (m * c + m) + m * (k - (c + 1))
    <3>1. B * (n * k) = m * k
      BY <1>1, <1>2
    <3> QED BY <1>1, <1>2, <3>1 DEF W
  <2>2. m * c + m \in Nat
    BY <1>2
  <2>3. Pow2[m * c + m] = C * P /\ Pow2[(m * c + m) + m * (k - (c + 1))] = Pow2[m * c + m] * D
    BY <1>2, <2>2, Pow2Sum, Zenon
  <2> QED BY <2>1, <2>3
<1>4. /\ P \in Nat /\ P > 1 /\ C \in Nat \ {0} /\ D \in Nat \ {0}
      /\ v \in 0..(P - 1) /\ \E q \in Int : y = v + q * P
  <2>1. Pow2[(m - 1) + 1] = 2 * Pow2[m - 1] /\ Pow2[m - 1] \in Nat \ {0}
    BY <1>2, Pow2Step, Pow2Type, Zenon
  <2>2. (m - 1) + 1 = m
    BY <1>2
  <2>3. C \in Nat \ {0} /\ D \in Nat \ {0}
    BY <1>2, Pow2Type, Zenon
  <2>4. v \in 0..(P - 1) /\ \E q \in Int : y = v + q * P
    BY <1>2, CutType, CutOff
  <2> QED BY <2>1, <2>2, <2>3, <2>4
<1>5. PICK r \in Nat : C - 1 = r * (P - 1)
  BY <1>2, Geometric, Zenon
<1>6. PICK s \in Nat : D - 1 = s * (P - 1)
  BY <1>2, Geometric, Zenon
<1> DEFINE R == r + C * (1 + P * s)
<1>7. M - 1 = R * (P - 1) /\ R \in Nat
  <2> HIDE DEF C, D, P, M
  <2>1. (C * (1 + P * s)) * (P - 1) = C * ((P - 1) + P * (D - 1))
    <3>1. (1 + P * s) * (P - 1) = (P - 1) + P * (s * (P - 1))
      BY <1>4
    <3>2. (1 + P * s) * (P - 1) = (P - 1) + P * (D - 1)
      BY <1>6, <3>1
    <3>3. 1 + P * s \in Int /\ P - 1 \in Int
      BY <1>4
    <3> QED BY <1>4, <3>2, <3>3
  <2>2. R * (P - 1) = r * (P - 1) + (C * (1 + P * s)) * (P - 1)
    BY <1>4
  <2>3. R * (P - 1) = (C - 1) + C * ((P - 1) + P * (D - 1))
    BY <1>5, <2>1, <2>2
  <2> QED BY <1>3, <1>4, <2>3
<1>8. StoreData(y, n) = v * R
  <2> DEFINE p == P - 1
  <2>1. p \in Nat \ {0} /\ R \in Int /\ 0 \in 0..(p - 1) /\ M - 1 = R * p + 0
    BY <1>4, <1>7
  <2> HIDE DEF p, R
  <2>2. (R * p + 0) \div p = R
    BY <2>1, DivModUnique
  <2> QED BY <2>1, <2>2 DEF StoreData, p
<1> HIDE DEF v, C, D, P, M, R
<1> DEFINE low == v * r
           u == v * s
           z == v + u * P
<1>9. low \in 0..(C - 1) /\ u \in Int /\ z \in Int /\ v * R = z * C + low
  <2>1. low \in Nat /\ low <= (P - 1) * r /\ (P - 1) * r = C - 1
    BY <1>4, <1>5
  <2>2. u \in Int /\ z \in Int
    BY <1>4
  <2>3. v * R = z * C + low
    BY <1>4, <2>1 DEF R
  <2> QED BY <1>4, <2>1, <2>2, <2>3
<1> HIDE DEF low, u, z
<1>10. (z * C + low) \div C = z
  BY <1>4, <1>9, DivModUnique
<1>11. Byte(v * R, t + off) = Byte(z, t)
  <2> DEFINE x == v * R
  <2>1. x \in Int /\ off \in Nat /\ t \in Nat
    BY <1>1, <1>2, <1>4, <1>7
  <2>2. B * off = m * c
    BY <1>1, <1>2
  <2> HIDE DEF x
  <2>3. Byte(x \div Pow2[B * off], t) = Byte(x, t + off)
    BY <2>1, ByteShift, Zenon
  <2> QED BY <1>9, <1>10, <2>2, <2>3 DEF C, x
<1>12. Byte(z, t) = Byte(v, t)
  BY <1>2, <1>4, <1>9, ByteBelow DEF z, P
<1>13. Byte(v, t) = Byte(y, t)
  <2>1. PICK q \in Int : y = v + q * P
    BY <1>4
  <2>2. v \in Int /\ n \in Nat
    BY <1>2, <1>4
  <2>3. Byte(v + q * Pow2[B * n], t) = Byte(v, t)
    BY <2>2, ByteBelow, Zenon
  <2> QED BY <2>1, <2>3 DEF P
<1>14. t + off = off + t
  BY <1>1, <1>2
<1> QED BY <1>8, <1>11, <1>12, <1>13, <1>14

\* The ranges of the strobes make up the bytes of the access.
LEMMA WrittenLanes ==
    ASSUME NEW n \in Sizes, NEW off \in Offsets(n)
    PROVE  UNION {r[1]..(r[1] + r[2] - 1) : r \in StrbToRange(Strobes(off, n))}
               = off..(off + n - 1)
<1> DEFINE wen == Strobes(off, n)
           one == <<off, n>>
<1>1. n \in 1..L /\ off \in Nat /\ off + n <= L /\ L \in Nat
  BY AccessFacts, WidthAssumption
<1>2. wen = off..(off + n - 1)
  <2>1. ASSUME NEW i \in off..(off + n - 1) PROVE i \in wen
    <3>1. i - off \in 0..(n - 1) /\ i = off + (i - off) /\ i \in Lanes
      BY <1>1 DEF Lanes
    <3> QED BY <3>1 DEF Strobes
  <2>2. ASSUME NEW i \in wen PROVE i \in off..(off + n - 1)
    BY <1>1 DEF Strobes, Lanes
  <2> QED BY <2>1, <2>2
<1> HIDE DEF wen
<1>3. one \in StrbToRange(wen)
  <2>1. one \in Lanes \X (1..L) /\ one[1] = off /\ one[2] = n
    BY <1>1 DEF Lanes
  <2>2. off - 1 \notin wen /\ off + n \notin wen
    BY <1>1, <1>2
  <2> HIDE DEF one
  <2> QED BY <1>2, <2>1, <2>2 DEF StrbToRange
<1>4. \A r \in StrbToRange(wen) : r[1]..(r[1] + r[2] - 1) \subseteq wen
  BY DEF StrbToRange
<1>5. one[1]..(one[1] + one[2] - 1) = wen
  BY <1>2
<1> HIDE DEF one
<1>6. UNION {r[1]..(r[1] + r[2] - 1) : r \in StrbToRange(wen)} = wen
  BY <1>3, <1>4, <1>5, Zenon
<1> QED BY <1>2, <1>6 DEF wen

\* A byte written is a byte of the data at its distance from the offset.
LEMMA StoresAgree ==
    ASSUME NEW line \in Word, NEW y \in Word, NEW n \in Sizes, NEW off \in Offsets(n)
    PROVE  StoreLine(line, y, off, n) = RefStoreLine(line, y, off, n)
<1>1. y \in Int /\ n \in Nat /\ off \in Nat /\ L \in Nat
  BY AccessFacts, WidthAssumption DEF Word
<1>2. ASSUME NEW i \in off..(off + n - 1) PROVE Byte(StoreData(y, n), i) = Byte(y, i - off)
  <2>1. i - off \in 0..(n - 1) /\ off + (i - off) = i
    BY <1>1
  <2>2. Byte(StoreData(y, n), off + (i - off)) = Byte(y, i - off)
    BY <1>1, <2>1, StoreDataBytes, Zenon
  <2> QED BY <2>1, <2>2
<1>3. StoreLine(line, y, off, n)
        = [i \in Lanes |-> Byte(IF i \in off..(off + n - 1) THEN StoreData(y, n) ELSE line, i)]
  BY WrittenLanes DEF StoreLine
<1> QED BY <1>2, <1>3, Zenon DEF RefStoreLine

\* The powers an access to the lowest n bytes is about, and those of a byte above.
LEMMA LanePowers ==
    ASSUME NEW n \in 1..L
    PROVE  /\ Pow2[B] = 2 * Pow2[B - 1] /\ Pow2[B - 1] \in Nat \ {0}
           /\ Pow2[B * n] = Pow2[B * (n - 1)] * Pow2[B] /\ Pow2[B * (n - 1)] \in Nat \ {0}
           /\ Pow2[B * n - 1] = Pow2[B * (n - 1)] * Pow2[B - 1]
           /\ Pow2[W] = Pow2[B * (L - n)] * Pow2[B * n] /\ Pow2[B * (L - n)] \in Nat \ {0}
<1>1. B \in Nat \ {0} /\ L \in Nat /\ n \in Nat \ {0} /\ W = B * L
  BY WidthAssumption DEF W
<1>2. /\ B * n = B * (n - 1) + B /\ B * n - 1 = B * (n - 1) + (B - 1)
      /\ W = B * (L - n) + B * n /\ B = (B - 1) + 1
  BY <1>1
<1>3. /\ B * (n - 1) \in Nat /\ B \in Nat /\ B - 1 \in Nat /\ B * (L - n) \in Nat
      /\ B * n \in Nat
  <2>1. n - 1 \in Nat /\ L - n \in Nat
    BY <1>1
  <2> QED BY <1>1, <2>1
<1>4. /\ Pow2[B * (n - 1) + B] = Pow2[B * (n - 1)] * Pow2[B]
      /\ Pow2[B * (n - 1) + (B - 1)] = Pow2[B * (n - 1)] * Pow2[B - 1]
      /\ Pow2[B * (L - n) + B * n] = Pow2[B * (L - n)] * Pow2[B * n]
  BY <1>3, Pow2Sum, Zenon
<1>5. /\ Pow2[(B - 1) + 1] = 2 * Pow2[B - 1] /\ Pow2[B - 1] \in Nat \ {0}
      /\ Pow2[B * (n - 1)] \in Nat \ {0} /\ Pow2[B * (L - n)] \in Nat \ {0}
  BY <1>3, Pow2Step, Pow2Type, Zenon
<1> QED BY <1>2, <1>4, <1>5, Zenon

\* Above n bytes there are zeros, or ones if a negative number is extended.
LEMMA BytesAbove ==
    ASSUME NEW n \in 1..L, NEW x \in 0..(Pow2[B * n] - 1), NEW i \in Lanes, i >= n
    PROVE  /\ Byte(x, i) = 0
           /\ Byte(x + (Pow2[W] - Pow2[B * n]), i) = Pow2[B] - 1
<1> DEFINE P == Pow2[B * n]
           Q == Pow2[B]
           I == Pow2[B * i]
           F == Pow2[B * (L - (i + 1))]
           G == Pow2[B * (i - n)]
           M == Pow2[W]
<1>1. B \in Nat \ {0} /\ L \in Nat /\ n \in Nat \ {0} /\ W = B * L /\ i \in Nat /\ i < L
  BY WidthAssumption DEF W, Lanes
<1>2. /\ I = P * G /\ M = I * (Q * F) /\ G \in Nat \ {0} /\ P \in Nat \ {0}
      /\ Q \in Nat \ {0} /\ F \in Nat \ {0} /\ I \in Nat \ {0}
  <2>1. /\ B * n \in Nat /\ B * (i - n) \in Nat /\ B * i \in Nat /\ B \in Nat
        /\ B * (L - (i + 1)) \in Nat /\ B + B * (L - (i + 1)) \in Nat
    <3>1. i - n \in Nat /\ L - (i + 1) \in Nat
      BY <1>1
    <3> QED BY <1>1, <3>1
  <2>2. B * i = B * n + B * (i - n) /\ W = B * i + (B + B * (L - (i + 1)))
    BY <1>1
  <2>3. /\ Pow2[B * n + B * (i - n)] = P * G
        /\ Pow2[B * i + (B + B * (L - (i + 1)))] = I * Pow2[B + B * (L - (i + 1))]
        /\ Pow2[B + B * (L - (i + 1))] = Q * F
    BY <2>1, Pow2Sum, Zenon
  <2>4. /\ G \in Nat \ {0} /\ P \in Nat \ {0} /\ Q \in Nat \ {0} /\ F \in Nat \ {0}
        /\ I \in Nat \ {0}
    BY <2>1, Pow2Type, Zenon
  <2> QED BY <2>2, <2>3, <2>4, Zenon
<1>3. x \in 0..(P - 1)
  OBVIOUS
<1> HIDE DEF P, Q, I, F, G, M
<1>4. I >= P
  BY <1>2
<1>5. Byte(x, i) = 0
  <2>1. /\ x \in 0..(I - 1) /\ 0 \in 0..(Q - 1) /\ 0 \in Int /\ x \in Int
        /\ x = x + I * (0 + Q * 0)
    BY <1>2, <1>3, <1>4
  <2> QED BY <1>1, <2>1, ByteOfParts DEF I, Q
<1>6. Byte(x + (M - P), i) = Q - 1
  <2> DEFINE z == x + (M - P)
             lo == x + (I - P)
  <2>1. lo \in 0..(I - 1) /\ Q - 1 \in 0..(Q - 1) /\ F - 1 \in Int /\ z \in Int
    <3>1. M \in Int
      BY <1>2
    <3> QED BY <1>2, <1>3, <1>4, <3>1
  <2>2. z = lo + I * ((Q - 1) + Q * (F - 1))
    <3>1. (Q - 1) + Q * (F - 1) = Q * F - 1
      BY <1>2
    <3>2. I * (Q * F - 1) = I * (Q * F) - I
      BY <1>2
    <3>3. I * (Q * F) \in Int
      BY <1>2
    <3> QED BY <1>2, <1>3, <3>1, <3>2, <3>3
  <2> HIDE DEF z, lo
  <2>3. Byte(z, i) = Q - 1
    BY <1>1, <2>1, <2>2, ByteOfParts DEF I, Q
  <2> QED BY <2>3 DEF z
<1> QED BY <1>5, <1>6 DEF M, P, Q

\* The sign of n bytes is that of the last one.
LEMMA TopByte ==
    ASSUME NEW n \in 1..L, NEW x \in 0..(Pow2[B * n] - 1)
    PROVE  Byte(x, n - 1) >= Pow2[B - 1] <=> x >= Pow2[B * n - 1]
<1> DEFINE P == Pow2[B * n]
           Q == Pow2[B]
           K == Pow2[B * (n - 1)]
           h == Pow2[B - 1]
           v == Byte(x, n - 1)
<1>1. /\ P = K * Q /\ Pow2[B * n - 1] = K * h /\ Q = 2 * h
      /\ K \in Nat \ {0} /\ h \in Nat \ {0} /\ n - 1 \in Nat /\ x \in Int
  <2>1. x \in Int /\ n - 1 \in Nat
    BY WidthAssumption
  <2> QED BY <2>1, LanePowers
<1>2. v \in 0..(Q - 1)
  BY <1>1, ByteParts
<1>3. PICK lo \in 0..(K - 1), u \in Int : x = lo + K * (v + Q * u)
  BY <1>1, ByteParts
<1>4. x \in 0..(P - 1)
  OBVIOUS
<1> HIDE DEF P, Q, K, h, v
<1>5. u = 0
  <2> DEFINE d == v + Q * u
  <2>1. d \in Int
    BY <1>1, <1>2
  <2>2. x = lo + K * d
    BY <1>3
  <2>3. d < Q
    <3> HIDE DEF d
    <3>1. ASSUME d >= Q PROVE K * d >= K * Q
      BY <1>1, <2>1, <3>1
    <3> QED BY <1>1, <1>3, <1>4, <2>1, <2>2, <3>1
  <2>4. d > -1
    <3> HIDE DEF d
    <3>1. ASSUME d <= -1 PROVE K * d <= -K
      BY <1>1, <2>1, <3>1
    <3> QED BY <1>1, <1>3, <1>4, <2>1, <2>2, <3>1
  <2>5. u < 1
    <3>1. ASSUME u >= 1 PROVE Q * u >= Q
      BY <1>1, <3>1
    <3> QED BY <1>1, <1>2, <2>3, <3>1
  <2>6. u > -1
    <3>1. ASSUME u <= -1 PROVE Q * u <= -Q
      BY <1>1, <3>1
    <3> QED BY <1>1, <1>2, <2>4, <3>1
  <2> QED BY <2>5, <2>6
<1>6. x = lo + K * v
  BY <1>1, <1>2, <1>3, <1>5
<1>7. v >= h => K * v >= K * h
  BY <1>1, <1>2
<1>8. v <= h - 1 => K * v <= K * h - K
  BY <1>1, <1>2
<1>9. v >= h <=> x >= K * h
  <2>1. K * v \in Int /\ K * h \in Int
    BY <1>1, <1>2
  <2> QED BY <1>1, <1>2, <1>3, <1>6, <1>7, <1>8, <2>1
<1> QED BY <1>1, <1>9 DEF h, v

\* Bytes read are bytes of the line, those above are zeros or the sign.
LEMMA LoadsAgree ==
    ASSUME NEW line \in Word, NEW n \in Sizes, NEW off \in Offsets(n), NEW signed \in BOOLEAN
    PROVE  InBytes(LoadValue(line, off, n, signed)) = RefLoadValue(line, off, n, signed)
<1> DEFINE m == B * n
           P == Pow2[m]
           M == Pow2[W]
           E == Pow2[B * (L - n)]
           shifted == line \div Pow2[B * off]
           data == Cut(shifted, m)
           top == Byte(line, off + n - 1) >= Pow2[B - 1]
           value == LoadValue(line, off, n, signed)
<1>1. /\ n \in 1..L /\ n \in Nat \ {0} /\ off \in Nat /\ L \in Nat /\ line \in Int
      /\ m \in Nat /\ W \in Nat /\ shifted \in Int
  <2>1. n \in 1..L /\ off \in Nat /\ L \in Nat /\ line \in Int /\ B \in Nat /\ W \in Nat
    BY AccessFacts, WidthAssumption, WordFacts DEF Word
  <2>2. m \in Nat /\ B * off \in Nat
    BY <2>1
  <2>3. Pow2[B * off] \in Nat \ {0}
    BY <2>2, Pow2Type, Zenon
  <2>4. shifted \in Int
    BY <2>1, <2>3, DivModOf
  <2> QED BY <2>1, <2>2, <2>4
<1>2. data \in 0..(P - 1) /\ \E q \in Int : shifted = data + q * P
  BY <1>1, CutType, CutOff
<1>3. M = E * P /\ E \in Nat \ {0} /\ P \in Nat \ {0} /\ M >= P /\ M \in Nat
  <2>1. M = E * P /\ E \in Nat \ {0}
    BY <1>1, LanePowers
  <2>2. P \in Nat \ {0}
    BY <1>1, Pow2Type, Zenon
  <2> HIDE DEF M, E, P
  <2> QED BY <2>1, <2>2
<1>4. value = IF signed THEN Cut(Signed(data, m), W) ELSE data
  BY DEF LoadValue
<1> HIDE DEF P, M, E, m, shifted, data, value
<1>5. ASSUME NEW i \in 0..(n - 1) PROVE Byte(data, i) = Byte(line, off + i)
  <2>1. i \in Nat /\ off + i = i + off /\ data \in Int
    BY <1>1, <1>2, <1>3
  <2>2. Byte(shifted, i) = Byte(line, i + off)
    BY <1>1, <2>1, ByteShift, Zenon DEF shifted
  <2>3. PICK q \in Int : shifted = data + q * P
    BY <1>2
  <2>4. Byte(data + q * P, i) = Byte(data, i)
    <3>1. n \in Nat
      BY <1>1
    <3> QED BY <2>1, <3>1, ByteBelow, Zenon DEF P, m
  <2> QED BY <2>1, <2>2, <2>3, <2>4, Zenon
<1>6. top <=> data >= Pow2[m - 1]
  <2>1. Byte(data, n - 1) >= Pow2[B - 1] <=> data >= Pow2[m - 1]
    BY <1>1, <1>2, TopByte DEF P, m
  <2>2. n - 1 \in 0..(n - 1) /\ off + (n - 1) = off + n - 1
    BY <1>1
  <2>3. Byte(data, n - 1) = Byte(line, off + (n - 1))
    BY <1>5, <2>2
  <2> QED BY <2>1, <2>2, <2>3
<1>7. CASE ~(signed /\ top)
  <2>1. value = data
    <3>1. CASE ~signed
      BY <1>4, <3>1
    <3>2. CASE signed /\ ~top
      <4>1. Signed(data, m) = data
        <5>1. data < Pow2[m - 1]
          <6>1. m - 1 \in Nat
            BY <1>1, WidthAssumption DEF m
          <6>2. Pow2[m - 1] \in Nat
            BY <6>1, Pow2Type
          <6> QED BY <1>2, <1>3, <1>6, <3>2, <6>2
        <5> QED BY <5>1 DEF Signed
      <4>2. Cut(data, W) = data
        BY <1>1, <1>2, <1>3, CutId DEF M
      <4> QED BY <1>4, <3>2, <4>1, <4>2
    <3> QED BY <1>7, <3>1, <3>2
  <2>2. \A i \in Lanes : Byte(data, i) = IF i < n THEN Byte(line, off + i) ELSE 0
    <3> SUFFICES ASSUME NEW i \in Lanes
                 PROVE  Byte(data, i) = IF i < n THEN Byte(line, off + i) ELSE 0
      OBVIOUS
    <3>1. CASE i < n
      BY <1>1, <1>5, <3>1 DEF Lanes
    <3>2. CASE i >= n
      <4>1. Byte(data, i) = 0
        BY <1>1, <1>2, <3>2, BytesAbove DEF P, m
      <4> QED BY <1>1, <3>2, <4>1 DEF Lanes
    <3> QED BY <1>1, <3>1, <3>2 DEF Lanes
  <2>3. RefLoadValue(line, off, n, signed)
            = [i \in Lanes |-> IF i < n THEN Byte(line, off + i) ELSE 0]
    BY <1>7 DEF RefLoadValue
  <2> QED BY <2>1, <2>2, <2>3, Zenon DEF InBytes, value
<1>8. CASE signed /\ top
  <2> DEFINE z == data + (M - P)
  <2>1. value = z
    <3>1. Signed(data, m) = data - P
      <4>1. ~(data < Pow2[m - 1])
        <5>1. m - 1 \in Nat
          BY <1>1, WidthAssumption DEF m
        <5>2. Pow2[m - 1] \in Nat
          BY <5>1, Pow2Type
        <5> QED BY <1>2, <1>3, <1>6, <1>8, <5>2
      <4> QED BY <4>1 DEF Signed, P
    <3>2. data - P \in Int /\ z \in 0..(M - 1) /\ z \in Int /\ z = (data - P) + 1 * M
      BY <1>2, <1>3
    <3> HIDE DEF z
    <3>3. Cut(z, W) = z
      BY <1>1, <3>2, CutId DEF M
    <3>4. Cut(z, W) = Cut(data - P, W)
      <4>1. \E q \in Int : z = (data - P) + q * M
        BY <3>2
      <4> QED BY <1>1, <3>2, <4>1, CutShift, Zenon DEF M
    <3> QED BY <1>4, <1>8, <3>1, <3>3, <3>4
  <2>2. \A i \in Lanes : Byte(z, i) = IF i < n THEN Byte(line, off + i) ELSE Pow2[B] - 1
    <3> SUFFICES ASSUME NEW i \in Lanes
                 PROVE  Byte(z, i) = IF i < n THEN Byte(line, off + i) ELSE Pow2[B] - 1
      OBVIOUS
    <3>1. CASE i < n
      <4>1. i \in 0..(n - 1) /\ n \in Nat /\ data \in Int /\ E - 1 \in Int
        BY <1>1, <1>2, <1>3, <3>1 DEF Lanes
      <4>2. Byte(data + (E - 1) * P, i) = Byte(data, i)
        BY <4>1, ByteBelow, Zenon DEF P, m
      <4>3. z = data + (E - 1) * P
        BY <1>2, <1>3
      <4>4. Byte(data, i) = Byte(line, off + i)
        BY <1>5, <4>1
      <4> QED BY <3>1, <4>2, <4>3, <4>4
    <3>2. CASE i >= n
      <4>1. Byte(z, i) = Pow2[B] - 1
        BY <1>1, <1>2, <3>2, BytesAbove DEF P, m, M
      <4> QED BY <1>1, <3>2, <4>1 DEF Lanes
    <3> QED BY <1>1, <3>1, <3>2 DEF Lanes
  <2>3. RefLoadValue(line, off, n, signed)
            = [i \in Lanes |-> IF i < n THEN Byte(line, off + i) ELSE Pow2[B] - 1]
    BY <1>8 DEF RefLoadValue
  <2> HIDE DEF z
  <2> QED BY <2>1, <2>2, <2>3, Zenon DEF InBytes, value
<1> QED BY <1>7, <1>8

\* Loads and stores agree on all lines and data.
LEMMA AccessesAgreeTyped ==
    ASSUME a \in Word, b \in Word PROVE AccessesAgree
  BY StoresAgree, LoadsAgree DEF AccessesAgree
-----------------------------------------------------------------------------
(* What the runs check. *)

\* Operands fit into a word, and the fields of an instruction into theirs.
UnitsTypeOK == a \in Word /\ b \in Word /\ word \in AnyWord

\* The type invariant, from which everything below follows: each property is about one state.
LEMMA UnitsTypesCorrect == UnitsSpec => []UnitsTypeOK
<1>1. W \in Nat /\ Pow2[W] \in Nat \ {0}
  BY WordFacts, Pow2Type
<1>2. Words \subseteq AnyWord /\ Nop \in AnyWord
  <2>1. \A t \in Triples : t[1] \in 0..31 /\ t[2] \in 0..31 /\ t[3] \in 0..31
    BY FieldAssumption
  <2>2. \A g \in Funct7 : g \in 0..127
    BY FieldAssumption
  <2>3. Words \subseteq AnyWord
    <3> SUFFICES ASSUME NEW w \in Words PROVE w \in AnyWord
      OBVIOUS
    <3>1. PICK o \in Opcodes, f \in 0..7, g \in Funct7, t \in Triples :
             w = [opc |-> o, f3 |-> f, f7 |-> g, rd |-> t[1], rs1 |-> t[2], rs2 |-> t[3]]
      BY DEF Words
    <3> QED BY <2>1, <2>2, <3>1 DEF AnyWord
  <2>4. Nop \in AnyWord
    BY DEF Nop, AnyWord, Opcodes
  <2> QED BY <2>3, <2>4
<1>3. UnitsInit => UnitsTypeOK
  BY <1>1, <1>2 DEF UnitsInit, Init, UnitsTypeOK, Word
<1>4. UnitsTypeOK /\ [UnitsNext]_<<vars, word>> => UnitsTypeOK'
  <2> SUFFICES ASSUME UnitsTypeOK, [UnitsNext]_<<vars, word>> PROVE UnitsTypeOK'
    OBVIOUS
  <2>1. ASSUME NEW x \in Word PROVE (x + 1) % Pow2[W] \in Word
    <3> DEFINE M == Pow2[W]
    <3>1. x + 1 \in Int /\ M \in Nat \ {0}
      BY <1>1 DEF Word
    <3> HIDE DEF M
    <3>2. (x + 1) % M \in 0..(M - 1)
      BY <3>1, DivModOf
    <3> QED BY <3>2 DEF Word, M
  <2>2. CASE word # Nop /\ word' = Nop /\ UNCHANGED vars
    BY <1>2, <2>2 DEF UnitsTypeOK, vars, Word, W
  <2>3. CASE word = Nop /\ Next /\ UNCHANGED word
    BY <2>1, <2>3 DEF UnitsTypeOK, Next, Word, W
  <2>4. CASE UNCHANGED <<vars, word>>
    BY <2>4 DEF UnitsTypeOK, vars, Word, W
  <2> QED BY <2>2, <2>3, <2>4 DEF UnitsNext
<1> QED BY <1>3, <1>4, PTL DEF UnitsSpec

\* Every word the CPU decodes has one row, and operation, registers and immediate
\* of the reference (Decoder.scala:57, rv_core.hpp:133).
THEOREM DecodersMatch == UnitsSpec => []DecodersAgree
<1>1. UnitsTypeOK => DecodersAgree
  BY Decoded DEF UnitsTypeOK, DecodersAgree
<1> QED BY <1>1, UnitsTypesCorrect, PTL

\* What the CPU does not decode is illegal for the reference, but for what the
\* property names (rv_core.hpp:401).
THEOREM RestIsIllegal == UnitsSpec => []OnlyReferenceDecodes
<1>1. UnitsTypeOK => OnlyReferenceDecodes
  BY OnlyReference DEF UnitsTypeOK, OnlyReferenceDecodes
<1> QED BY <1>1, UnitsTypesCorrect, PTL

\* Alu computes what alu_exec computes (Alu.scala:23, rv_core.hpp:1278).
THEOREM AluCorrect == UnitsSpec => []AluAgrees
<1>1. UnitsTypeOK => AluAgrees
  BY AluAgreesTyped DEF UnitsTypeOK
<1> QED BY <1>1, UnitsTypesCorrect, PTL

\* Mdu computes what alu_exec computes, but for the least dividend of rem and divw
\* (Mdu.scala:20, rv_core.hpp:1318).
THEOREM MduCorrect == UnitsSpec => []MduAgrees
<1>1. UnitsTypeOK => MduAgrees
  BY MduAgreesTyped DEF UnitsTypeOK
<1> QED BY <1>1, UnitsTypesCorrect, PTL

\* Branches and jalr go where they go in the reference (Bru.scala:24, rv_core.hpp:212).
THEOREM JumpsCorrect == UnitsSpec => []JumpsAgree
<1>1. UnitsTypeOK => JumpsAgree
  BY JumpsAgreeTyped DEF UnitsTypeOK
<1> QED BY <1>1, UnitsTypesCorrect, PTL

\* Aligned loads and stores do what memcpy does (Lsu.scala:38, nscscc_sram_slave.hpp:55).
THEOREM AccessesCorrect == UnitsSpec => []AccessesAgree
<1>1. UnitsTypeOK => AccessesAgree
  BY AccessesAgreeTyped DEF UnitsTypeOK
<1> QED BY <1>1, UnitsTypesCorrect, PTL
-----------------------------------------------------------------------------
(* The exceptions of MduAgrees. *)

\* No power of two is a multiple of three.
LEMMA NotThree == \A n \in Nat : Pow2[n] % 3 \in {1, 2}
<1> DEFINE T == {n \in Nat : Pow2[n] % 3 \notin {1, 2}}
<1> SUFFICES ASSUME T # {} PROVE FALSE
  OBVIOUS
<1>1. PICK m \in T : \A n \in T : m <= n
  BY LeastElement
<1>2. m # 0 /\ Pow2[m - 1] % 3 \in {1, 2}
  <2>1. m # 0
    BY <1>1, Pow2Step
  <2> QED BY <1>1, <2>1
<1>3. Pow2[m] = 2 * Pow2[m - 1] /\ Pow2[m - 1] \in Nat
  BY <1>2, Pow2Step, Pow2Type
<1>4. Pow2[m] % 3 \in {1, 2}
  BY <1>2, <1>3
<1> QED BY <1>4

\* The exceptions of MduAgrees are needed at every width, the 64 bits of the code among
\* them: divw of the least number by -1 is not sign-extended (Mdu.scala:79), and rem of
\* the least number by 3 is not the remainder (Mdu.scala:57).
THEOREM ExceptionsAreReal ==
    /\ DivW(Pow2[H - 1], Pow2[H] - 1) # Sext(Pow2[H - 1])
    /\ Mdu(Pow2[W - 1], 3)["rem"] # Ref(Pow2[W - 1], 3)["rem"]
<1> DEFINE N == Pow2[H]
           g == Pow2[H - 1]
           M == Pow2[W]
           h == Pow2[W - 1]
<1>1. /\ H \in Nat \ {0} /\ W \in Nat \ {0} /\ N = 2 * g /\ M = N * N /\ M = 2 * h /\ g \in Nat
      /\ h \in Nat /\ g >= 8 /\ h > N /\ Pow2[H + 1] = 2 * N /\ H + 1 \in Nat /\ N \in Nat
  BY WordFacts, Pow2Step
<1>2. DivW(g, N - 1) = g
  <2>1. g \in 0..(N - 1) /\ N - 1 \in 0..(N - 1) /\ N - 1 # 0
    BY <1>1
  <2>2. Signed(g, H) = -g /\ Signed(N - 1, H) = -1
    BY <1>1 DEF Signed
  <2>3. AbsVal(g, H) = -g /\ AbsVal(N - 1, H) = 1
    <3>1. AbsVal(g, H) = IF Signed(g, H) = -g THEN Signed(g, H)
                         ELSE IF Signed(g, H) < 0 THEN -Signed(g, H) ELSE Signed(g, H)
      BY <1>1, <2>1, AbsValFacts
    <3>2. AbsVal(N - 1, H) = IF Signed(N - 1, H) = -g THEN Signed(N - 1, H)
                             ELSE IF Signed(N - 1, H) < 0 THEN -Signed(N - 1, H)
                             ELSE Signed(N - 1, H)
      BY <1>1, <2>1, AbsValFacts
    <3> QED BY <1>1, <2>2, <3>1, <3>2
  <2> HIDE DEF N, g
  <2>4. Quot(-g, 1) = -g
    <3>1. g \div 1 = g
      BY <1>1
    <3> QED BY <1>1, <3>1 DEF Quot
  <2>5. Cut(-g, H + 1) = 3 * g
    <3>1. 3 * g \in 0..(2 * N - 1) /\ 3 * g = -g + 1 * (2 * N) /\ 3 * g \in Int /\ -g \in Int
      BY <1>1
    <3>2. Cut(3 * g, H + 1) = 3 * g
      BY <1>1, <3>1, CutId
    <3>3. \E q \in Int : 3 * g = -g + q * Pow2[H + 1]
      BY <1>1, <3>1
    <3>4. Cut(3 * g, H + 1) = Cut(-g, H + 1)
      BY <1>1, <3>1, <3>3, CutShift, Zenon
    <3> QED BY <3>2, <3>4
  <2>6. Cut(3 * g, H) = g
    <3>1. 3 * g = g + 1 * N /\ 3 * g \in Int /\ g \in Int /\ H \in Nat
      BY <1>1
    <3>2. \E q \in Int : 3 * g = g + q * N
      BY <3>1
    <3>3. Cut(3 * g, H) = Cut(g, H)
      BY <3>1, <3>2, CutShift, Zenon DEF N
    <3>4. Cut(g, H) = g
      BY <1>1, <2>1, CutId DEF N
    <3> QED BY <3>3, <3>4
  <2>7. 3 * g # 0 /\ ((-g < 0) <=> (-1 < 0))
    BY <1>1
  <2> QED BY <2>1, <2>2, <2>3, <2>4, <2>5, <2>6, <2>7 DEF DivW
<1>3. Sext(g) = M - g
  <2>1. Signed(g, H) = -g
    BY <1>1 DEF Signed
  <2> HIDE DEF N, g, M
  <2>2. g <= N /\ N <= M
    BY <1>1
  <2>3. M - g \in 0..(M - 1) /\ M - g \in Int /\ -g \in Int /\ M - g = -g + 1 * M /\ W \in Nat
    BY <1>1, <2>2
  <2>4. Cut(M - g, W) = M - g
    BY <2>3, CutId DEF M
  <2>5. \E q \in Int : M - g = -g + q * M
    BY <2>3
  <2>6. Cut(M - g, W) = Cut(-g, W)
    BY <2>3, <2>5, CutShift, Zenon DEF M
  <2> QED BY <2>1, <2>4, <2>6 DEF Sext
<1>4. DivW(g, N - 1) # Sext(g)
  <2> HIDE DEF N, g, M
  <2>1. M - g # g
    <3>1. N * N >= 16 * N
      BY <1>1
    <3> QED BY <1>1, <3>1
  <2> QED BY <1>2, <1>3, <2>1
<1> DEFINE k == h \div 3
           r == h % 3
<1>5. r \in {1, 2} /\ k \in Int /\ h = 3 * k + r
  <2>1. r \in {1, 2}
    <3>1. W - 1 \in Nat
      BY <1>1
    <3> QED BY <3>1, NotThree
  <2> HIDE DEF h
  <2>2. k \in Int /\ h = 3 * k + r
    BY <1>1
  <2> QED BY <2>1, <2>2
<1>6. Signed(h, W) = -h /\ Signed(3, W) = 3 /\ h \in 0..(M - 1) /\ 3 \in 0..(M - 1)
  BY <1>1 DEF Signed
<1>7. Quot(-h, 3) = -k
  <2> HIDE DEF h
  <2> QED BY <1>1 DEF Quot, k
<1>8. Mdu(h, 3)["rem"] = Cut(-h - 3 * k, W)
  <2>1. AbsVal(h, W) = -h /\ AbsVal(3, W) = 3
    <3>1. AbsVal(h, W) = IF Signed(h, W) = -h THEN Signed(h, W)
                         ELSE IF Signed(h, W) < 0 THEN -Signed(h, W) ELSE Signed(h, W)
      BY <1>1, <1>6, AbsValFacts
    <3>2. AbsVal(3, W) = IF Signed(3, W) = -h THEN Signed(3, W)
                         ELSE IF Signed(3, W) < 0 THEN -Signed(3, W) ELSE Signed(3, W)
      BY <1>1, <1>6, AbsValFacts
    <3> QED BY <1>1, <1>6, <3>1, <3>2
  <2> HIDE DEF h, k, r
  <2>2. Rem(h, 3) = Cut(-h - (-(-k)) * 3, W)
    <3>1. -h < 0 /\ ~(3 < 0) /\ 3 # 0
      BY <1>1
    <3> QED BY <1>6, <1>7, <2>1, <3>1 DEF Rem
  <2>3. -h - (-(-k)) * 3 = -h - 3 * k
    BY <1>1, <1>5
  <2> QED BY <2>2, <2>3 DEF Mdu
<1>9. Ref(h, 3)["rem"] = Cut(-h + 3 * k, W)
  <2> DEFINE ref == Ref(h, 3)
  <2>1. ref["rem"] = Out(IF 3 = 0 THEN -h
                         ELSE IF -h = -h /\ 3 = -1 THEN 0 ELSE -h - 3 * Quot(-h, 3), W)
    BY <1>6, ExecOps DEF Ref
  <2> HIDE DEF h, k, r, ref
  <2>2. ref["rem"] = Out(-h - 3 * (-k), W)
    BY <1>7, <2>1
  <2>3. -h - 3 * (-k) = -h + 3 * k /\ -h + 3 * k \in Int
    BY <1>1, <1>5
  <2> QED BY <2>2, <2>3, OutWord DEF ref
<1>10. Cut(-h - 3 * k, W) # Cut(-h + 3 * k, W)
  <2> HIDE DEF h, k, r, M
  <2>1. -h - 3 * k \in Int /\ -h + 3 * k \in Int /\ W \in Nat
    BY <1>1, <1>5
  <2> SUFFICES ASSUME Cut(-h - 3 * k, W) = Cut(-h + 3 * k, W) PROVE FALSE
    OBVIOUS
  <2>2. \E q \in Int : -h - 3 * k = (-h + 3 * k) + q * M
    BY <2>1, SameCut, Zenon DEF M
  <2>3. PICK q \in Int : -h - 3 * k = (-h + 3 * k) + q * M
    BY <2>2
  <2>4. q * M = 2 * r - M
    BY <1>1, <1>5, <2>3
  <2>5. (q + 1) * M = 2 * r /\ M > 16
    <3>1. (q + 1) * M = q * M + M
      BY <1>1
    <3>2. N >= 16
      BY <1>1
    <3> QED BY <1>1, <1>5, <2>4, <3>1, <3>2
  <2>6. q + 1 > 0
    <3>1. ASSUME q + 1 <= 0 PROVE (q + 1) * M <= 0
      BY <1>1, <3>1
    <3> QED BY <1>5, <2>5, <3>1
  <2>7. (q + 1) * M >= M
    BY <1>1, <2>6
  <2> QED BY <1>1, <1>5, <2>5, <2>7
<1> QED BY <1>4, <1>8, <1>9, <1>10
=============================================================================
