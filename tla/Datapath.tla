------------------------------ MODULE Datapath ------------------------------
(***************************************************************************)
(* The arithmetic of the CPU (Alu, Mdu, Bru, Lsu, M_Lsu) against that of   *)
(* the reference (rv_core), over all operands of a narrow machine: a word  *)
(* has L bytes of B bits, 8 of 8 in the code, and an instruction on half a *)
(* word is what addw and the like are.  and, or and xor are left out.      *)
(*                                                                         *)
(* Words are the bit vectors of Chisel, as numbers; a record has a field   *)
(* for every operation of a unit.                                          *)
(***************************************************************************)
EXTENDS Integers

CONSTANTS B,  \* bits of a byte
          L   \* bytes of a word

ASSUME WidthAssumption == B \in {2, 4, 8} /\ L \in {4, 8}

\* 1 << n
Pow2[n \in Nat] == IF n = 0 THEN 1 ELSE 2 * Pow2[n - 1]

W == B * L
H == W \div 2
Word == 0..(Pow2[W] - 1)

VARIABLES a, b   \* rs1 and rs2

vars == <<a, b>>

Init == a = 0 /\ b = 0

\* Every pair of operands.
Next == \/ a' = (a + 1) % Pow2[W] /\ UNCHANGED b
        \/ b' = (b + 1) % Pow2[W] /\ UNCHANGED a

Spec == Init /\ [][Next]_vars
-----------------------------------------------------------------------------
(* Bit vectors. *)

Cut(x, w)    == x % Pow2[w]                                       \* x(w-1, 0)
Signed(x, w) == IF x < Pow2[w - 1] THEN x ELSE x - Pow2[w]          \* asSInt
Lo(x)        == Cut(x, H)
Sext(x)      == Cut(Signed(x, H), W)    \* Cat(Fill(32, x(31)), x)
Bit(cond)    == IF cond THEN 1 ELSE 0

\* Division of C and of Verilog: towards zero.
Quot(x, y) == LET abs(z) == IF z < 0 THEN -z ELSE z
                  q == abs(x) \div abs(y)
              IN  IF (x < 0) # (y < 0) THEN -q ELSE q

\* Mux(x(w-1), (~x).asSInt + 1.S, x.asSInt), which leaves the least number as it is.
AbsVal(x, w) == Signed(IF Signed(x, w) < 0 THEN Cut(-x, w) ELSE x, w)
-----------------------------------------------------------------------------
(* Alu and Mdu. *)

\* Mutant: srlw shifts zeros into the upper half.
AluWZero(x, y) ==
    [add |-> Sext(Cut(Lo(x) + Lo(y), H)),
     sub |-> Sext(Cut(Lo(x) - Lo(y), H)),
     sll |-> Sext(Cut(Lo(x) * Pow2[y % H], H)),
     srl |-> Lo(x) \div Pow2[y % H],
     sra |-> Sext(Cut(Signed(Lo(x), H) \div Pow2[y % H], H))]

\* addw, subw, sllw, srlw, sraw.
AluW(x, y) ==
    [add |-> Sext(Cut(Lo(x) + Lo(y), H)),
     sub |-> Sext(Cut(Lo(x) - Lo(y), H)),
     sll |-> Sext(Cut(Lo(x) * Pow2[y % H], H)),
     srl |-> Sext(Lo(x) \div Pow2[y % H]),
     sra |-> Sext(Cut(Signed(Lo(x), H) \div Pow2[y % H], H))]

Alu(x, y) ==
    [add  |-> Cut(x + y, W),
     sub  |-> Cut(x - y, W),
     sll  |-> Cut(x * Pow2[y % W], W),
     slt  |-> Bit(Signed(x, W) < Signed(y, W)),
     sltu |-> Bit(x < y),
     srl  |-> x \div Pow2[y % W],
     sra  |-> Cut(Signed(x, W) \div Pow2[y % W], W)]

\* lui and auipc: imm_u is half a word, and so is what auipc keeps of the sum.
UpperImm(pc, immU) == [lui |-> Sext(immU), auipc |-> Cut(pc + immU, H)]

\* Mutant: the quotient has the sign of the dividend.
RemDividendSign(x, y) ==
    LET quotient == IF y = 0 THEN 1 ELSE Quot(AbsVal(x, W), AbsVal(y, W))
        signs    == Signed(x, W) < 0
    IN  Cut(Signed(x, W) - (IF signs THEN -quotient ELSE quotient) * Signed(y, W), W)

\* rem is computed from the quotient of the absolute values.
Rem(x, y) ==
    LET quotient == IF y = 0 THEN 1 ELSE Quot(AbsVal(x, W), AbsVal(y, W))
        signs    == (Signed(x, W) < 0) # (Signed(y, W) < 0)
    IN  Cut(Signed(x, W) - (IF signs THEN -quotient ELSE quotient) * Signed(y, W), W)

Mdu(x, y) ==
    [mul    |-> Cut(x * y, W),
     mulh   |-> Cut((Signed(x, W) * Signed(y, W)) \div Pow2[W], W),
     mulhsu |-> Cut((Signed(x, W) * y) \div Pow2[W], W),
     mulhu  |-> (x * y) \div Pow2[W],
     div    |-> IF y = 0 THEN Pow2[W] - 1 ELSE Cut(Quot(Signed(x, W), Signed(y, W)), W),
     divu   |-> IF y = 0 THEN Pow2[W] - 1 ELSE x \div y,
     rem    |-> Rem(x, y),
     remu   |-> IF y = 0 THEN x ELSE x % y]

\* divw: the sign fills the upper half, the lower half is the quotient of the
\* absolute values, negated if there is a sign; one bit longer than a half.
DivW(x, y) ==
    LET sign == (Signed(x, H) < 0) # (Signed(y, H) < 0)
        quotient == IF y = 0 THEN Pow2[H] - 1 ELSE Cut(Quot(AbsVal(x, H), AbsVal(y, H)), H + 1)
    IN  IF quotient = 0 THEN 0
        ELSE IF y = 0 THEN Pow2[W] - 1
        ELSE IF sign THEN (Pow2[H] - 1) * Pow2[H] + Cut(-quotient, H)
        ELSE Cut(quotient, H)

\* mulw, divw, divuw, remw and remuw.  The remainder of remw is longer than a
\* word already: what is put in front of it is cut off.
MduW(x, y) ==
    [mul  |-> Sext(Cut(Signed(x, H) * Signed(y, H), H)),
     div  |-> DivW(x, y),
     divu |-> Sext(IF y = 0 THEN Pow2[H] - 1 ELSE x \div y),
     rem  |-> IF y = 0 THEN Sext(x)
              ELSE Cut(Signed(x, H) - Signed(y, H) * Quot(Signed(x, H), Signed(y, H)), W),
     remu |-> Sext(IF y = 0 THEN x ELSE x % y)]
-----------------------------------------------------------------------------
(* alu_exec of the reference, on words of w bits, W or H. *)

Exec(i, j, w) ==
    LET least  == -(Pow2[W - 1])                \* LONG_MIN, whatever w is
        u(z)   == Cut(z, w)
        Result == [add    |-> i + j,
                   sub    |-> i - j,
                   sll    |-> i * Pow2[j % w],
                   slt    |-> Bit(i < j),
                   sltu   |-> Bit(Cut(i, W) < Cut(j, W)),
                   srl    |-> u(i) \div Pow2[j % w],
                   sra    |-> i \div Pow2[j % w],
                   mul    |-> i * j,
                   mulh   |-> (i * j) \div Pow2[W],
                   mulhu  |-> (Cut(i, W) * Cut(j, W)) \div Pow2[W],
                   mulhsu |-> Cut(i * Cut(j, W), 2 * W) \div Pow2[W],
                   div    |-> IF j = 0 THEN -1
                              ELSE IF i = least /\ j = -1 THEN least ELSE Quot(i, j),
                   divu   |-> IF j = 0 THEN Pow2[W] - 1 ELSE u(i) \div u(j),
                   rem    |-> IF j = 0 THEN i
                              ELSE IF i = least /\ j = -1 THEN 0 ELSE i - j * Quot(i, j),
                   remu   |-> IF j = 0 THEN i ELSE u(i) % u(j)]
    IN  [op \in DOMAIN Result |-> Cut(Signed(Cut(Result[op], w), w), W)]

Ref(x, y)  == Exec(Signed(x, W), Signed(y, W), W)
RefW(x, y) == Exec(Signed(Lo(x), H), Signed(Lo(y), H), H)

RefUpperImm(pc, immU) == [lui |-> Cut(Signed(immU, H), W), auipc |-> Cut(Signed(immU, H) + pc, W)]

Same(unit, ref, ops) == \A op \in ops : unit[op] = ref[op]
-----------------------------------------------------------------------------
(* Branches: conditions and targets. *)

Bru(x, y) == [beq |-> x = y,
              bne |-> x # y,
              blt |-> Signed(x, W) < Signed(y, W),
              bge |-> Signed(x, W) >= Signed(y, W),
              bltu |-> x < y,
              bgeu |-> x >= y]

RefBranch(i, j) == [beq |-> i = j, bne |-> i # j, blt |-> i < j, bge |-> i >= j,
                    bltu |-> Cut(i, W) < Cut(j, W), bgeu |-> Cut(i, W) >= Cut(j, W)]

\* Mutant: the lowest bit of the sum stays.
JalrTargetOdd(x, imm) == Cut(x + imm, W)

\* jalr clears the lowest bit of the sum; the reference that of the immediate.
JalrTarget(x, imm)    == LET sum == Cut(x + imm, W) IN sum - (sum % 2)
RefJalrTarget(x, imm) == Cut(x + (imm - (imm % 2)), W)
-----------------------------------------------------------------------------
(* Loads and stores in a line of memory, which is a word. *)

Lanes       == 0..(L - 1)
Byte(x, i)  == Cut(x \div Pow2[B * i], B)
Sizes       == {n \in {1, 2, 4, 8} : n <= L}
Offsets(n)  == {off \in Lanes : off % n = 0}     \* aligned
InBytes(x)  == [i \in Lanes |-> Byte(x, i)]

\* Mutant: the data are not repeated over the lanes.
StoreDataOnce(y, n) == Cut(y, B * n)

\* Cat(Fill(8 / n, rs2(8n-1, 0))): the lowest n bytes times 1 + P + P^2 + ... for
\* P = 2^(8n), which is the quotient.
StoreData(y, n) == Cut(y, B * n) * ((Pow2[W] - 1) \div (Pow2[B * n] - 1))

Strobes(off, n) == {off + k : k \in 0..(n - 1)} \cap Lanes

\* strb_to_range: the longest runs of strobes, as first lane and length.
StrbToRange(wen) ==
    {r \in Lanes \X (1..L) :
        /\ r[1] - 1 \notin wen /\ r[1] + r[2] \notin wen
        /\ r[1]..(r[1] + r[2] - 1) \subseteq wen}

StoreLine(line, y, off, n) ==
    LET written == UNION {r[1]..(r[1] + r[2] - 1) : r \in StrbToRange(Strobes(off, n))}
    IN  [i \in Lanes |-> Byte(IF i \in written THEN StoreData(y, n) ELSE line, i)]

\* M_Lsu: shifted to the lowest lanes, cut and extended.
LoadValue(line, off, n, signed) ==
    LET data == Cut(line \div Pow2[B * off], B * n)
    IN  IF signed THEN Cut(Signed(data, B * n), W) ELSE data

\* memcpy from and to the bytes at the address.
RefStoreLine(line, y, off, n) ==
    [i \in Lanes |-> IF i \in off..(off + n - 1) THEN Byte(y, i - off) ELSE Byte(line, i)]

RefLoadValue(line, off, n, signed) ==
    LET top  == Byte(line, off + n - 1) >= Pow2[B - 1]
        fill == IF signed /\ top THEN Pow2[B] - 1 ELSE 0
    IN  [i \in Lanes |-> IF i < n THEN Byte(line, off + i) ELSE fill]
-----------------------------------------------------------------------------
\* Alu computes what alu_exec and the lui and auipc cases of rv_core compute
\* (Alu.scala:23, rv_core.hpp:1278), auipc as far as its sum fits into the lower
\* half: the CPU has 32-bit addresses.
AluAgrees ==
    /\ Same(Alu(a, b), Ref(a, b), DOMAIN Alu(a, b))
    /\ Same(AluW(a, b), RefW(a, b), DOMAIN AluW(a, b))
    /\ LET ref == RefUpperImm(a, Lo(b))
       IN  Same(UpperImm(a, Lo(b)), ref, {"lui"} \cup IF ref.auipc < Pow2[H] THEN {"auipc"} ELSE {})

\* Mdu computes what alu_exec computes (Mdu.scala:20, rv_core.hpp:1318), division by
\* zero and overflow included, but for the least dividend of rem and of divw.
MduAgrees ==
    /\ Same(Mdu(a, b), Ref(a, b),
            DOMAIN Mdu(a, b) \ IF a = Pow2[W - 1] THEN {"rem"} ELSE {})
    /\ Same(MduW(Lo(a), Lo(b)), RefW(a, b),
            DOMAIN MduW(Lo(a), Lo(b)) \ IF Lo(a) = Pow2[H - 1] THEN {"div"} ELSE {})

\* Branches are taken for the same operands (Bru.scala:24, rv_core.hpp:212), and
\* jalr goes where the reference goes if that does not trap.
JumpsAgree ==
    /\ Bru(a, b) = RefBranch(Signed(a, W), Signed(b, W))
    /\ RefJalrTarget(a, b) % 4 = 0 => JalrTarget(a, b) = RefJalrTarget(a, b)

\* An aligned store of b into a line changes the bytes memcpy changes, by way of
\* data repeated over the lanes, strobes and ranges (Lsu.scala:38,
\* nscscc_sram_slave.hpp:55); an aligned load gives what the reference reads.
AccessesAgree ==
    \A n \in Sizes : \A off \in Offsets(n) :
        /\ StoreLine(a, b, off, n) = RefStoreLine(a, b, off, n)
        /\ \A signed \in BOOLEAN :
              InBytes(LoadValue(a, off, n, signed)) = RefLoadValue(a, off, n, signed)

\* divw of the least number by -1 is the least number, sign-extended
\* (test_7 of test/asm/riscv-test/isa/rv64um-p-/rv64um-p-divw).
DivwOverflows ==
    Lo(a) = Pow2[H - 1] /\ Lo(b) = Pow2[H] - 1 => DivW(Lo(a), Lo(b)) = Sext(Lo(a))
=============================================================================
