----------------------------- MODULE IsaLemmas -----------------------------
(***************************************************************************)
(* What the decoder, the units and the register file deliver has the type  *)
(* it should, for every data path: lemmas the proofs about the pipeline    *)
(* and about the abstract machines share.                                  *)
(***************************************************************************)
EXTENDS Isa, TLAPS

\* The fields of an instruction have their types, the undecoded one included.
LEMMA InstFields ==
    ASSUME NEW i \in Inst
    PROVE  /\ {i.rd, i.rs1, i.rs2} \subseteq Reg
           /\ i.imm \in Word
           /\ i.fusel \in {"alu", "mdu", "lsu", "bru", "csr"}
           /\ i.type = "S" => i.fusel = "lsu"
           /\ i.fusel = "lsu" => i.type \in {"I", "S"}
  <1>1. CASE i = Undecoded
    BY <1>1, RegAssumption, WordAssumption DEF Undecoded
  <1>2. CASE i # Undecoded
    BY <1>2, InstAssumption DEF DecodeRows
  <1> QED BY <1>1, <1>2

\* The operands and the result of an instruction are words.
LEMMA OperandTypes ==
    ASSUME NEW i \in Inst, NEW rf \in [Reg -> Word]
    PROVE  Src1(i, rf) \in Word /\ Src2(i, rf) \in Word
  BY InstFields, RegAssumption, WordAssumption DEF Src1, Src2

\* Whatever the unit, its result is a word (Fu.scala:26-56).
LEMMA ResultType ==
    ASSUME NEW i \in Inst, NEW p \in Word, NEW a \in Word, NEW b \in Word
    PROVE  Result(i, p, a, b) \in Word
  BY UnitAssumption, PcAssumption, WordAssumption DEF Result

\* A store and a register write keep memory and register file what they are.
LEMMA StoredType ==
    ASSUME NEW i \in Inst, NEW a \in Word, NEW b \in Word, NEW m \in [Line -> Word]
    PROVE  Stored(i, a, b, m) \in [Line -> Word]
  BY UnitAssumption DEF Stored

\* A write leaves a register file a register file (ARegfile.scala:35-37).
LEMMA WrittenType ==
    ASSUME NEW rf \in [Reg -> Word], NEW r \in Reg, NEW v \in Word
    PROVE  Written(rf, r, v) \in [Reg -> Word]
  BY DEF Written

\* The destination of an instruction is a register, none being x0.
LEMMA DestType == \A i \in Inst : Dest(i) \in Reg
  BY InstFields, RegAssumption DEF Dest

\* Two register files that agree on the registers an instruction reads, and on x0,
\* make the same of it: whatever else the multiplexers deliver is not looked at
\* (DecodeUnit.scala:26-46).
LEMMA OnlyReadsMatter ==
    ASSUME NEW i \in Inst, NEW p \in Word, NEW rf \in [Reg -> Word], NEW sf \in [Reg -> Word],
           \A r \in Reads(i) \cup {0} : rf[r] = sf[r],
           NEW a, a = Src1(i, rf), NEW b, b = Src2(i, rf),
           NEW c, c = Src1(i, sf), NEW d, d = Src2(i, sf)
    PROVE  /\ Result(i, p, a, b) = Result(i, p, c, d)
           /\ Branches(i, a, b) = Branches(i, c, d)
           /\ Branches(i, a, b) => Target(i, p, a) = Target(i, p, c)
           /\ IsLoad(i) => a = c
           /\ IsStore(i) => a = c /\ b = d
  <1>1. {a, b, c, d} \subseteq Word
    BY OperandTypes
  <1>2. /\ i.type \in {"I", "N"} \cup {"R", "S", "B"} \cup {"U", "J", "Sys"}
        /\ i.type = "U" => i.fusel = "alu"
        /\ i.type = "J" => i.fusel = "bru"
        /\ i.type = "Sys" => i.fusel = "csr"
    <2>1. CASE i = Undecoded
      BY <2>1 DEF Undecoded
    <2>2. CASE i # Undecoded
      BY <2>2, InstAssumption DEF DecodeRows
    <2> QED BY <2>1, <2>2
  <1>3. CASE i.type \in {"I", "N"} \cup {"R", "S", "B"}
    <2>1. a = c /\ b = d
      BY <1>3 DEF Src1, Src2, Reads
    <2> QED BY <2>1
  <1>4. CASE i.type = "U"
    <2>1. a = c
      BY <1>4 DEF Src1
    <2>2. AluMdu(i, p, a, b) = AluMdu(i, p, a, d)
      BY <1>1, <1>4, OperandAssumption
    <2>3. Result(i, p, a, b) = Result(i, p, c, d)
      BY <1>2, <1>4, <2>1, <2>2 DEF Result
    <2>4. ~Branches(i, a, b) /\ ~Branches(i, c, d) /\ ~IsLoad(i) /\ ~IsStore(i)
      BY <1>2, <1>4 DEF Branches, IsLoad, IsStore
    <2> QED BY <2>3, <2>4 DEF Branches
  <1>5. CASE i.type = "J"
    <2>1. Target(i, p, a) = Target(i, p, c)
      BY <1>1, <1>5, OperandAssumption
    <2>2. Result(i, p, a, b) = Result(i, p, c, d) /\ Branches(i, a, b) /\ Branches(i, c, d)
      BY <1>2, <1>5 DEF Result, Branches
    <2>3. ~IsLoad(i) /\ ~IsStore(i)
      BY <1>5 DEF IsLoad, IsStore
    <2> QED BY <2>1, <2>2, <2>3 DEF Branches
  <1>6. CASE i.type = "Sys"
    <2>1. /\ Result(i, p, a, b) = Result(i, p, c, d)
          /\ ~Branches(i, a, b) /\ ~Branches(i, c, d) /\ ~IsLoad(i) /\ ~IsStore(i)
      BY <1>2, <1>6 DEF Result, Branches, IsLoad, IsStore
    <2> QED BY <2>1 DEF Branches
  <1> QED BY <1>2, <1>3, <1>4, <1>5, <1>6
=============================================================================
