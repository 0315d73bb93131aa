---------------------------- MODULE RvPrivProofs ----------------------------
(* Proofs about the privileged state: RvPriv, for every set of program       *)
(* counters, vectors and interrupts, and Sv39, for all tables, address       *)
(* spaces and TLB sizes.                                                     *)
EXTENDS RvPriv, Sv39, TLAPS

-----------------------------------------------------------------------------
(* Modes, traps and interrupts. *)

\* Of a set of interrupts that is not empty, int2index picks a member.
LEMMA HighestIsMember ==
    ASSUME NEW S \in SUBSET Interrupts, S # {}
    PROVE  Highest(S) \in S /\ Highest(S) \in Codes
<1> DEFINE First(k) == /\ Priority[k] \in S
                       /\ \A j \in 1..(k - 1) : Priority[j] \notin S
<1>1. \E k \in 1..6 : Priority[k] \in S
  BY CauseAssumption
<1>2. \E k \in 1..6 : First(k)
  <2>1. CASE Priority[1] \in S
    <3>1. First(1)  BY <2>1
    <3> QED  BY <3>1
  <2>2. CASE Priority[1] \notin S /\ Priority[2] \in S
    <3>1. First(2)  BY <2>2
    <3> QED  BY <3>1
  <2>3. CASE Priority[1] \notin S /\ Priority[2] \notin S /\ Priority[3] \in S
    <3>1. \A j \in 1..2 : j = 1 \/ j = 2  OBVIOUS
    <3>2. First(3)  BY <2>3, <3>1
    <3> QED  BY <3>2
  <2>4. CASE /\ Priority[1] \notin S /\ Priority[2] \notin S /\ Priority[3] \notin S
             /\ Priority[4] \in S
    <3>1. \A j \in 1..3 : j = 1 \/ j = 2 \/ j = 3  OBVIOUS
    <3>2. First(4)  BY <2>4, <3>1
    <3> QED  BY <3>2
  <2>5. CASE /\ Priority[1] \notin S /\ Priority[2] \notin S /\ Priority[3] \notin S
             /\ Priority[4] \notin S /\ Priority[5] \in S
    <3>1. \A j \in 1..4 : j = 1 \/ j = 2 \/ j = 3 \/ j = 4  OBVIOUS
    <3>2. First(5)  BY <2>5, <3>1
    <3> QED  BY <3>2
  <2>6. CASE /\ Priority[1] \notin S /\ Priority[2] \notin S /\ Priority[3] \notin S
             /\ Priority[4] \notin S /\ Priority[5] \notin S
    <3>1. \A j \in 1..5 : j = 1 \/ j = 2 \/ j = 3 \/ j = 4 \/ j = 5  OBVIOUS
    <3>2. \A j \in 1..6 : j = 6 \/ j \in 1..5  OBVIOUS
    <3>3. Priority[6] \in S  BY <1>1, <2>6, <3>1, <3>2
    <3>4. First(6)  BY <2>6, <3>1, <3>3
    <3> QED  BY <3>4
  <2> QED  BY <2>1, <2>2, <2>3, <2>4, <2>5, <2>6
<1>3. PICK k \in 1..6 : Highest(S) = Priority[k] /\ First(k)
  BY <1>2 DEF Highest
<1>4. \A n \in 1..6 : Priority[n] \in Codes
  BY DEF Priority, Codes
<1> QED
  BY <1>3, <1>4
-----------------------------------------------------------------------------
(* The invariant. *)

\* At the end of exec the mode differs from the one exec started in only if a
\* trap or a return is on its way, and if the machine mode is entered, at the vector.
EntryInv == stage = "post" /\ priv = "U" /\ nextPriv = "M" =>
                needTrap /\ trapPc = Vector(mtvec, mcause.cause)

\* Outside a call of exec nothing is left of the last one.
RestInv == stage = "pre" => ~needTrap /\ ~newPc

PrivInv == /\ PrivTypeOK
           /\ InterruptBeforeInstruction
           /\ MprvOnlyInMachine
           /\ TrapOncePerCall
           /\ EntryInv
           /\ RestInv

LEMMA InitPrivInv == Init => PrivInv
<1> SUFFICES ASSUME Init PROVE PrivInv
  OBVIOUS
<1>1. PrivTypeOK
  <2>1. status \in [mie : BOOLEAN, mpie : BOOLEAN, mpp : Modes, mprv : BOOLEAN]
    BY DEF Init, Modes
  <2>2. mcause \in [cause : Codes, interrupt : BOOLEAN]
    BY DEF Init, Codes
  <2> QED
    BY <2>1, <2>2, PcAssumption DEF Init, PrivTypeOK, Modes
<1> QED
  BY <1>1 DEF Init, PrivInv, InterruptBeforeInstruction, MprvOnlyInMachine,
              TrapOncePerCall, EntryInv, RestInv

\* The invariant survives the trap that exec raises in mode p, whichever stage it
\* is raised in.
LEMMA RaiseKeepsInv ==
    ASSUME PrivInv, NEW p \in Modes, NEW c \in Codes, NEW i \in BOOLEAN,
           RaiseTrap(p, c, i), priv' \in Modes, ip' \subseteq Interrupts
    PROVE  PrivInv'
<1>1. PrivTypeOK'
  BY PcAssumption DEF PrivInv, PrivTypeOK, RaiseTrap, Modes
<1>2. EntryInv'
  BY <1>1 DEF RaiseTrap, EntryInv, PrivInv, PrivTypeOK
<1> QED
  BY <1>1, <1>2 DEF RaiseTrap, PrivInv, InterruptBeforeInstruction, MprvOnlyInMachine,
                    TrapOncePerCall, RestInv

LEMMA CodesOfInstructions ==
    /\ {InstrMisaligned, InstrAccess, Illegal, Breakpoint} \subseteq Codes
    /\ \A p \in Modes : EcallFrom(p) \in Codes
  BY DEF InstrMisaligned, InstrAccess, Illegal, Breakpoint, EcallFrom, Codes

LEMMA RaiseInStepKeepsInv ==
    ASSUME PrivInv, NEW c \in Codes, Raise(c)
    PROVE  PrivInv'
  BY RaiseKeepsInv DEF Raise, PrivInv, PrivTypeOK

LEMMA NextPrivInv == PrivInv /\ [Next]_vars => PrivInv'
<1> SUFFICES ASSUME PrivInv, [Next]_vars PROVE PrivInv'
  OBVIOUS
<1> USE DEF Modes
<1>1. CASE PreExec
  <2>1. priv' = nextPriv /\ priv' \in Modes
    BY <1>1 DEF PreExec, PrivInv, PrivTypeOK
  <2>2. ip' \subseteq Interrupts
    <3>1. PICK lines \in Lines : ip' = (ip \cap {SupervisorSoft, SupervisorTimer}) \cup lines
      BY <1>1 DEF PreExec
    <3>2. lines \subseteq Interrupts
      BY CauseAssumption
    <3> QED
      BY <3>1, <3>2 DEF PrivInv, PrivTypeOK
  <2>3. CASE Taken(priv', ip') # {}
    <3>1. Taken(priv', ip') \in SUBSET Interrupts
      BY <2>2 DEF Taken
    <3>2. Highest(Taken(priv', ip')) \in Codes
      BY <2>3, <3>1, HighestIsMember
    <3>3. RaiseTrap(priv', Highest(Taken(priv', ip')), TRUE)
      BY <1>1, <2>3 DEF PreExec
    <3> QED
      BY <2>1, <2>2, <3>2, <3>3, RaiseKeepsInv
  <2>4. CASE Taken(priv', ip') = {}
    <3>1. /\ stage = "pre" /\ stage' = "fetch"
          /\ UNCHANGED <<pc, newPc, nextPriv, needTrap, trapPc, status, ie, mtvec, mepc, mcause>>
      BY <1>1, <2>4 DEF PreExec
    <3>2. PrivTypeOK'
      BY <2>1, <2>2, <3>1 DEF PrivInv, PrivTypeOK
    <3>3. InterruptBeforeInstruction'
      BY <2>1, <2>4, <3>1 DEF InterruptBeforeInstruction, Taken
    <3>4. MprvOnlyInMachine' /\ TrapOncePerCall' /\ EntryInv' /\ RestInv'
      BY <2>1, <3>1 DEF PrivInv, MprvOnlyInMachine, TrapOncePerCall, EntryInv, RestInv
    <3> QED
      BY <3>2, <3>3, <3>4 DEF PrivInv
  <2> QED
    BY <2>3, <2>4
<1>2. CASE Fetch
  <2>1. CASE Raise(InstrMisaligned) \/ Raise(InstrAccess)
    BY <2>1, RaiseInStepKeepsInv, CodesOfInstructions
  <2>2. CASE stage = "fetch" /\ stage' = "execute"
             /\ UNCHANGED <<pc, newPc, priv, nextPriv, needTrap, trapPc, csrs>>
    BY <2>2 DEF PrivInv, PrivTypeOK, InterruptBeforeInstruction, MprvOnlyInMachine,
                TrapOncePerCall, EntryInv, RestInv, csrs
  <2> QED
    BY <1>2, <2>1, <2>2 DEF Fetch
<1>3. CASE Plain
  BY <1>3 DEF Plain, PrivInv, PrivTypeOK, InterruptBeforeInstruction, MprvOnlyInMachine,
              TrapOncePerCall, EntryInv, RestInv, csrs
<1>4. CASE Faulting
  BY <1>4, RaiseInStepKeepsInv, CauseAssumption DEF Faulting
<1>5. CASE Ecall
  BY <1>5, RaiseInStepKeepsInv, CodesOfInstructions DEF Ecall, PrivInv, PrivTypeOK
<1>6. CASE Ebreak
  BY <1>6, RaiseInStepKeepsInv, CodesOfInstructions DEF Ebreak
<1>7. CASE Mret
  <2>1. CASE priv # "M"
    BY <1>7, <2>1, RaiseInStepKeepsInv, CodesOfInstructions DEF Mret
  <2>2. CASE priv = "M"
    <3> DEFINE mprvNow == IF status.mpp = "M" THEN status.mprv ELSE FALSE
    <3>1. /\ status' = [mie |-> status.mpie, mpie |-> TRUE, mpp |-> "U", mprv |-> mprvNow]
          /\ nextPriv' = status.mpp
      BY <1>7, <2>2 DEF Mret
    <3>2. status.mpie \in BOOLEAN /\ status.mpp \in Modes /\ status.mprv \in BOOLEAN
      BY DEF PrivInv, PrivTypeOK
    <3>3. mprvNow \in BOOLEAN
      BY <3>2
    <3>4. nextPriv' = "U" => mprvNow = FALSE
      BY <3>1
    <3> HIDE DEF mprvNow
    <3>5. status' \in [mie : BOOLEAN, mpie : BOOLEAN, mpp : Modes, mprv : BOOLEAN]
      BY <3>1, <3>2, <3>3
    <3>6. nextPriv' = "U" => ~status'.mprv
      BY <3>1, <3>4
    <3> QED
      BY <1>7, <2>2, <3>5, <3>6 DEF Mret, PrivInv, PrivTypeOK, InterruptBeforeInstruction,
                      MprvOnlyInMachine, TrapOncePerCall, EntryInv, RestInv
  <2> QED
    BY <2>1, <2>2
<1>8. CASE Sret
  <2>1. CASE priv # "M"
    BY <1>8, <2>1, RaiseInStepKeepsInv, CodesOfInstructions DEF Sret
  <2>2. CASE priv = "M"
    BY <1>8, <2>2, PcAssumption DEF Sret, PrivInv, PrivTypeOK, InterruptBeforeInstruction,
                      MprvOnlyInMachine, TrapOncePerCall, EntryInv, RestInv
  <2> QED
    BY <2>1, <2>2
<1>9. CASE CsrWrite
  <2>1. CASE priv # "M"
    BY <1>9, <2>1, RaiseInStepKeepsInv, CodesOfInstructions DEF CsrWrite
  <2>2. CASE priv = "M"
    <3>1. /\ stage = "execute" /\ stage' = "post" /\ Write
          /\ UNCHANGED <<pc, newPc, priv, nextPriv, needTrap, trapPc>>
      BY <1>9, <2>2 DEF CsrWrite
    <3>2. status' \in [mie : BOOLEAN, mpie : BOOLEAN, mpp : Modes, mprv : BOOLEAN]
      BY <3>1 DEF Write, WrittenStatus, PrivInv, PrivTypeOK
    <3>3. PrivTypeOK'
      BY <3>1, <3>2, CauseAssumption DEF Write, PrivInv, PrivTypeOK
    <3> QED
      BY <2>2, <3>1, <3>3 DEF PrivInv, InterruptBeforeInstruction, MprvOnlyInMachine,
                              TrapOncePerCall, EntryInv, RestInv
  <2> QED
    BY <2>1, <2>2
<1>10. CASE PostExec
  BY <1>10, PcAssumption DEF PostExec, PrivInv, PrivTypeOK, InterruptBeforeInstruction,
              MprvOnlyInMachine, TrapOncePerCall, EntryInv, RestInv, csrs
<1>11. CASE UNCHANGED vars
  BY <1>11 DEF vars, csrs, PrivInv, PrivTypeOK, InterruptBeforeInstruction,
               MprvOnlyInMachine, TrapOncePerCall, EntryInv, RestInv
<1> QED
  BY <1>1, <1>2, <1>3, <1>4, <1>5, <1>6, <1>7, <1>8, <1>9, <1>10, <1>11 DEF Next

\* The invariant, and with it the type of every variable.
THEOREM PrivInvariant == Spec => []PrivInv
  BY InitPrivInv, NextPrivInv, PTL DEF Spec

\* Modes, registers and stage keep their types; mpp is a mode the machine has.
THEOREM PrivTypesCorrect == Spec => []PrivTypeOK
  BY PrivInvariant, PTL DEF PrivInv

\* No trap is pending, and no return either, where a trap may still be raised.
THEOREM TrapsOnce == Spec => []TrapOncePerCall
  BY PrivInvariant, PTL DEF PrivInv

\* No instruction is fetched or executed while an interrupt is due.
THEOREM InterruptsFirst == Spec => []InterruptBeforeInstruction
  BY PrivInvariant, PTL DEF PrivInv

\* The user mode never runs with mprv set.
THEOREM MprvClearInUserMode == Spec => []MprvOnlyInMachine
  BY PrivInvariant, PTL DEF PrivInv
-----------------------------------------------------------------------------
(* Action properties. *)

\* An instruction of the user mode traps or leaves the privileged state alone.
THEOREM UserModeIsConfined == Spec => UserOnlyTraps
<1> DEFINE Confined ==
        priv = "U" /\ stage = "execute" =>
         \/ UNCHANGED <<csrs, nextPriv, needTrap>>
         \/ /\ needTrap' /\ nextPriv' = "M" /\ mepc' = pc /\ ~mcause'.interrupt
            /\ status'.mpp = "U"
            /\ UNCHANGED <<ie, ip, mtvec>>
<1>1. PrivInv /\ [Next]_vars => Confined
  <2> SUFFICES ASSUME PrivInv, [Next]_vars, priv = "U", stage = "execute"
               PROVE  Confined
    OBVIOUS
  <2>1. ASSUME NEW c, Raise(c) PROVE Confined
    <3>1. status'.mpp = "U"
      BY <2>1 DEF Raise, RaiseTrap, PrivInv, PrivTypeOK
    <3> QED
      BY <2>1, <3>1 DEF Raise, RaiseTrap
  <2>2. CASE Plain
    BY <2>2 DEF Plain, csrs
  <2>3. CASE UNCHANGED vars
    BY <2>3 DEF vars, csrs
  <2>4. CASE Faulting \/ Ecall \/ Ebreak \/ Mret \/ Sret \/ CsrWrite
    <3>1. \E c : Raise(c)
      BY <2>4 DEF Faulting, Ecall, Ebreak, Mret, Sret, CsrWrite
    <3> QED
      BY <2>1, <3>1
  <2>5. ~PreExec /\ ~Fetch /\ ~PostExec
    BY DEF PreExec, Fetch, PostExec
  <2> QED
    BY <2>2, <2>3, <2>4, <2>5 DEF Next
<1> QED
  BY <1>1, PrivInvariant, PTL DEF Spec, UserOnlyTraps

\* The machine mode is entered from the user mode at the vector.
THEOREM EntryAtVector == Spec => EntryOnlyAtVector
<1>1. PrivInv /\ [Next]_vars =>
        [priv = "U" /\ stage = "post" /\ nextPriv = "M" =>
            pc' = Vector(mtvec, mcause.cause)]_vars
  <2> SUFFICES ASSUME PrivInv, Next, priv = "U", stage = "post", nextPriv = "M"
               PROVE  pc' = Vector(mtvec, mcause.cause)
    OBVIOUS
  <2>1. PostExec
    BY DEF Next, PreExec, Fetch, Plain, Faulting, Ecall, Ebreak, Mret, Sret, CsrWrite
  <2> QED
    BY <2>1 DEF PostExec, PrivInv, EntryInv
<1> QED
  BY <1>1, PrivInvariant, PTL DEF Spec, EntryOnlyAtVector
-----------------------------------------------------------------------------
(* The one-level stack of modes. *)

LEMMA RaiseIsTrap ==
    ASSUME NEW p, NEW c, NEW i, RaiseTrap(p, c, i), p = nextPriv, PrivTypeOK
    PROVE  Stack!Trap
  BY DEF RaiseTrap, Stack!Trap, PrivTypeOK

\* In the instruction stages, where the mode of the step is the current one.
LEMMA RaiseInStepIsTrap ==
    ASSUME PrivInv, NEW c, Raise(c), stage \in {"fetch", "execute"}
    PROVE  Stack!Next
<1>1. priv = nextPriv
  BY DEF PrivInv, TrapOncePerCall
<1> QED
  BY <1>1, RaiseIsTrap DEF Raise, PrivInv, Stack!Next

LEMMA StackStep == PrivInv /\ [Next]_vars => [Stack!Next]_(Stack!vars)
<1> SUFFICES ASSUME PrivInv, [Next]_vars PROVE [Stack!Next]_(Stack!vars)
  OBVIOUS
<1> USE DEF Stack!vars
<1>1. CASE PreExec
  <2>1. CASE Taken(priv', ip') # {}
    <3>1. RaiseTrap(priv', Highest(Taken(priv', ip')), TRUE) /\ priv' = nextPriv
      BY <1>1, <2>1 DEF PreExec
    <3> QED
      BY <3>1, RaiseIsTrap DEF PrivInv, Stack!Next
  <2>2. CASE Taken(priv', ip') = {}
    BY <1>1, <2>2 DEF PreExec
  <2> QED
    BY <2>1, <2>2
<1>2. CASE Fetch
  <2>1. ASSUME NEW c, Raise(c) PROVE Stack!Next
    BY <1>2, <2>1, RaiseInStepIsTrap DEF Fetch
  <2> QED
    BY <1>2, <2>1 DEF Fetch, csrs
<1>3. CASE Plain \/ PostExec \/ UNCHANGED vars
  BY <1>3 DEF Plain, PostExec, vars, csrs
<1>4. ASSUME NEW c, Raise(c), stage = "execute" PROVE Stack!Next
  BY <1>4, RaiseInStepIsTrap
<1>5. CASE Faulting \/ Ecall \/ Ebreak
  BY <1>4, <1>5 DEF Faulting, Ecall, Ebreak
<1>6. ASSUME Mret \/ Sret \/ CsrWrite, priv # "M" PROVE Stack!Next
  BY <1>4, <1>6 DEF Mret, Sret, CsrWrite
<1>7. ASSUME Mret \/ Sret \/ CsrWrite PROVE stage = "execute"
  BY <1>7 DEF Mret, Sret, CsrWrite
<1>8. ASSUME Mret, priv = "M" PROVE Stack!Return
  <2>1. nextPriv = "M"
    BY <1>7, <1>8 DEF PrivInv, TrapOncePerCall
  <2>2. nextPriv' = status.mpp
    BY <1>8 DEF Mret
  <2>3. status'.mie = status.mpie /\ status'.mpie = TRUE /\ status'.mpp = "U"
    BY <1>8 DEF Mret
  <2> QED
    BY <2>1, <2>2, <2>3 DEF Stack!Return
<1>9. ASSUME Sret, priv = "M" PROVE Stack!Drop
  <2>1. nextPriv = "M"
    BY <1>7, <1>9 DEF PrivInv, TrapOncePerCall
  <2> QED
    BY <1>9, <2>1 DEF Sret, Stack!Drop, PrivInv, PrivTypeOK
<1>10. ASSUME CsrWrite, priv = "M" PROVE Stack!Write
  <2>1. nextPriv = "M" /\ UNCHANGED nextPriv
    BY <1>7, <1>10 DEF PrivInv, TrapOncePerCall, CsrWrite
  <2>2. PrivTypeOK'
    BY NextPrivInv DEF PrivInv
  <2> QED
    BY <2>1, <2>2 DEF Stack!Write, Stack!Saved, Stack!Modes, PrivTypeOK, Modes
<1> QED
  BY <1>1, <1>2, <1>3, <1>5, <1>6, <1>8, <1>9, <1>10 DEF Next, Stack!Next

\* exec, with its stages, interrupts and privileged instructions, implements the
\* one-level stack of modes.
THEOREM StackRefinement == Spec => ImplementsTrapStack
<1>1. Init => Stack!Init
  BY CauseAssumption DEF Init, Stack!Init, Stack!Modes
<1> QED
  BY <1>1, StackStep, PrivInvariant, PTL DEF Spec, ImplementsTrapStack, Stack!Safety
-----------------------------------------------------------------------------
(* Address translation. *)

\* What a leaf says of a page.
Page == [pagesize : 1..3, global : BOOLEAN, data : Data]

LEMMA NoEntryInvalid == NoEntry \in TlbEntry /\ NoEntry.pagesize = 0
<1> DEFINE e == [pagesize |-> 0, vpa |-> [k \in 0..2 |-> 0], asid |-> CHOOSE a \in Asid : TRUE,
                 global |-> FALSE, data |-> CHOOSE d \in Data : TRUE]
<1>1. e \in TlbEntry /\ e.pagesize = 0
  BY Sv39Assumption DEF TlbEntry
<1> QED
  BY <1>1 DEF NoEntry

LEMMA LeafSize ==
    \A p, i : \A page \in LeafAt(p, i) : page.pagesize = i + 1
  BY DEF LeafAt

\* The walk depends on the tables alone.
LEMMA PtwOfTables ==
    ASSUME pt' = pt
    PROVE  \A s \in Asid, va \in Va : Ptw(s, va)' = Ptw(s, va)
BY DEF Ptw, LeafAt

\* The walk ends with one page or none.
LEMMA PtwFindsOne ==
    ASSUME TlbTypeOK, NEW s \in Asid, NEW va \in Va, NEW page \in Ptw(s, va)
    PROVE  page \in Page /\ Ptw(s, va) = {page}
<1>1. \A p \in Pte, i \in 0..2 : \A f \in LeafAt(p, i) : f \in Page /\ LeafAt(p, i) = {f}
  <2> SUFFICES ASSUME NEW p \in Pte, NEW i \in 0..2, NEW f \in LeafAt(p, i)
               PROVE  f \in Page /\ LeafAt(p, i) = {f}
    OBVIOUS
  <2> QED
    BY DEF LeafAt, Pte, Page
<1> DEFINE p2 == pt[Root[s]][va[2]]
           p1 == pt[p2.next][va[1]]
           p0 == pt[p1.next][va[0]]
<1>2. va \in [0..2 -> Index] /\ Root[s] \in Tables
  BY Sv39Assumption
<1>3. \A t \in Tables, k \in 0..2 : pt[t][va[k]] \in Pte
  BY <1>2 DEF TlbTypeOK
<1>4. \A p \in Pte : p.next \in Tables
  BY DEF Pte
<1>5. p2 \in Pte /\ p1 \in Pte /\ p0 \in Pte
  <2>1. p2 \in Pte
    BY <1>2, <1>3
  <2>2. p1 \in Pte
    BY <2>1, <1>3, <1>4
  <2> HIDE DEF p1
  <2>3. p0 \in Pte
    BY <2>2, <1>3, <1>4
  <2> QED
    BY <2>1, <2>2, <2>3
<1>6. \/ Ptw(s, va) = LeafAt(p2, 2)
      \/ Ptw(s, va) = LeafAt(p1, 1)
      \/ Ptw(s, va) = LeafAt(p0, 0)
      \/ Ptw(s, va) = {}
  BY Zenon DEF Ptw
<1> HIDE DEF p2, p1, p0
<1> QED
  BY <1>1, <1>5, <1>6

\* The walk finds the same everywhere on the page it finds.
LEMMA PtwOnPage ==
    ASSUME TlbTypeOK, NEW s \in Asid, NEW va \in Va, NEW vb \in Va, NEW page \in Ptw(s, va),
           PageStart(va, page.pagesize) = PageStart(vb, page.pagesize)
    PROVE  Ptw(s, vb) = Ptw(s, va)
<1> DEFINE p2 == pt[Root[s]][va[2]]
           p1 == pt[p2.next][va[1]]
           p0 == pt[p1.next][va[0]]
<1>1. \A k \in 0..2 : k >= page.pagesize - 1 => va[k] = vb[k]
  <2> SUFFICES ASSUME NEW k \in 0..2, k >= page.pagesize - 1 PROVE va[k] = vb[k]
    OBVIOUS
  <2>1. page.pagesize \in 1..3
    BY PtwFindsOne DEF Page
  <2>2. /\ PageStart(va, page.pagesize)[k] = va[k]
        /\ PageStart(vb, page.pagesize)[k] = vb[k]
    BY <2>1 DEF PageStart
  <2> QED
    BY <2>2
<1>2. CASE p2.kind = "leaf"
  <2>1. Ptw(s, va) = LeafAt(p2, 2)
    BY <1>2 DEF Ptw
  <2>2. va[2] = vb[2]
    BY <1>1, <2>1, LeafSize
  <2> QED
    BY <1>2, <2>2 DEF Ptw
<1>3. CASE p2.kind \notin {"leaf", "fault"} /\ p1.kind = "leaf"
  <2>1. Ptw(s, va) = LeafAt(p1, 1)
    BY <1>3 DEF Ptw
  <2>2. va[2] = vb[2] /\ va[1] = vb[1]
    BY <1>1, <2>1, LeafSize
  <2> QED
    BY <1>3, <2>2 DEF Ptw
<1>4. CASE p2.kind \notin {"leaf", "fault"} /\ p1.kind \notin {"leaf", "fault"}
  <2>1. Ptw(s, va) = IF p0.kind = "leaf" THEN LeafAt(p0, 0) ELSE {}
    BY <1>4 DEF Ptw
  <2> HIDE DEF p2, p1, p0
  <2>2. va[2] = vb[2] /\ va[1] = vb[1] /\ va[0] = vb[0]
    BY <1>1, <2>1, LeafSize
  <2>3. Ptw(s, vb) = IF p0.kind = "leaf" THEN LeafAt(p0, 0) ELSE {}
    BY <1>4, <2>2 DEF Ptw, p2, p1, p0
  <2> QED
    BY <2>1, <2>3
<1>5. p2.kind # "fault" /\ (p2.kind # "leaf" => p1.kind # "fault")
  BY DEF Ptw
<1> QED
  BY <1>2, <1>3, <1>4, <1>5
-----------------------------------------------------------------------------
LEMMA InitTlbInv == TlbInit => TlbInv
<1> SUFFICES ASSUME TlbInit PROVE TlbInv
  OBVIOUS
<1>1. \A i \in Slot : tlb[i] = NoEntry
  BY DEF TlbInit
<1>2. TlbTypeOK
  BY NoEntryInvalid, Sv39Assumption DEF TlbInit, TlbTypeOK, Slot
<1>3. EntriesCurrent
  BY <1>1, NoEntryInvalid DEF EntriesCurrent, Covers
<1>4. NoTwins
  BY <1>1, NoEntryInvalid DEF NoTwins
<1> QED
  BY <1>2, <1>3, <1>4 DEF TlbInv

LEMMA TranslateTlbInv ==
    ASSUME TlbInv, NEW s \in Asid, NEW va \in Va, Translate(s, va)
    PROVE  TlbInv'
<1>1. PICK page \in Ptw(s, va) : tlb' = [tlb EXCEPT ![random] = EntryFor(s, va, page)]
  BY DEF Translate
<1> DEFINE e == EntryFor(s, va, page)
<1>2. TlbTypeOK /\ EntriesCurrent /\ NoTwins
  BY DEF TlbInv
<1>3. page \in Page /\ Ptw(s, va) = {page}
  BY <1>2, PtwFindsOne
<1>4. \A i \in Slot : tlb'[i] = IF i = random THEN e ELSE tlb[i]
  BY <1>1, <1>2 DEF TlbTypeOK
<1>5. e \in TlbEntry
  <2>1. va \in [0..2 -> Index] /\ 0 \in Index
    BY Sv39Assumption
  <2>2. PageStart(va, page.pagesize) \in [0..2 -> Index]
    BY <2>1 DEF PageStart
  <2>3. page.pagesize \in 0..3 /\ page.global \in BOOLEAN /\ page.data \in Data
    BY <1>3 DEF Page
  <2> QED
    BY <2>2, <2>3 DEF EntryFor, TlbEntry
<1>6. TlbTypeOK'
  <2>1. (random + 1) % NrTlbEntry \in Slot
    BY <1>2, Sv39Assumption DEF TlbTypeOK, Slot
  <2>2. tlb' \in [Slot -> TlbEntry]
    BY <1>1, <1>2, <1>5 DEF TlbTypeOK
  <2> QED
    BY <1>2, <2>1, <2>2 DEF TlbTypeOK, Translate
<1>7. \A t \in Asid, vb \in Va : Ptw(t, vb)' = Ptw(t, vb)
  BY PtwOfTables DEF Translate
<1>8. /\ e.pagesize = page.pagesize /\ e.vpa = PageStart(va, page.pagesize)
      /\ e.asid = s /\ e.global = page.global /\ PageOf(e) = page
  BY <1>3 DEF EntryFor, PageOf, Page
<1>9. EntriesCurrent'
  <2> SUFFICES ASSUME NEW i \in Slot, NEW t \in Asid, NEW vb \in Va,
                      tlb'[i].asid = t, Covers(tlb'[i], vb)
               PROVE  \/ vb \in IF tlb'[i].global THEN staleG' ELSE stale'[t]
                      \/ Ptw(t, vb)' = {PageOf(tlb'[i])}
    BY DEF EntriesCurrent
  <2>1. CASE i = random
    <3>1. tlb'[i] = e
      BY <1>4, <2>1
    <3>2. PageStart(va, page.pagesize) = PageStart(vb, page.pagesize)
      BY <1>8, <3>1 DEF Covers
    <3>3. Ptw(s, vb) = {page}
      BY <1>2, <1>3, <3>2, PtwOnPage
    <3> QED
      BY <1>7, <1>8, <3>1, <3>3
  <2>2. CASE i # random
    <3>1. tlb'[i] = tlb[i]
      BY <1>4, <2>2
    <3> QED
      BY <1>2, <1>7, <3>1 DEF EntriesCurrent, Translate
  <2> QED
    BY <2>1, <2>2
<1>10. \A j \in Slot : tlb[j].pagesize = e.pagesize /\ tlb[j].vpa = e.vpa
                       => tlb[j].asid # s /\ ~tlb[j].global
  <2> SUFFICES ASSUME NEW j \in Slot, tlb[j].pagesize = e.pagesize, tlb[j].vpa = e.vpa
               PROVE  tlb[j].asid # s /\ ~tlb[j].global
    OBVIOUS
  <2>1. tlb[j].pagesize # 0
    BY <1>3, <1>8 DEF Page
  <2>2. Covers(tlb[j], va)
    BY <1>8, <2>1 DEF Covers
  <2>3. j \notin Hits(s, va)
    BY DEF Translate
  <2> QED
    BY <2>2, <2>3 DEF Hits
<1>11. NoTwins'
  <2> SUFFICES ASSUME NEW i \in Slot, NEW j \in Slot, i # j, tlb'[i].pagesize # 0,
                      tlb'[i].pagesize = tlb'[j].pagesize, tlb'[i].vpa = tlb'[j].vpa
               PROVE  tlb'[i].asid # tlb'[j].asid /\ ~(tlb'[i].global /\ tlb'[j].global)
    BY DEF NoTwins
  <2> HIDE DEF e
  <2>1. CASE i = random
    BY <1>4, <1>8, <1>10, <2>1
  <2>2. CASE j = random
    BY <1>4, <1>8, <1>10, <2>2
  <2>3. CASE i # random /\ j # random
    BY <1>2, <1>4, <2>3 DEF NoTwins
  <2> QED
    BY <2>1, <2>2, <2>3
<1> QED
  BY <1>6, <1>9, <1>11 DEF TlbInv

LEMMA SfenceTlbInv ==
    ASSUME TlbInv, NEW pages \in {{}} \cup {{va} : va \in Va}, NEW asid \in Asid \cup {0},
           SfenceVma(pages, asid)
    PROVE  TlbInv'
<1> DEFINE done == IF pages = {} THEN Va ELSE pages
<1>1. TlbTypeOK /\ EntriesCurrent /\ NoTwins
  BY DEF TlbInv
<1>2. \A i \in Slot : tlb'[i] = IF Fenced(tlb[i], pages, asid) THEN NoEntry ELSE tlb[i]
  BY DEF SfenceVma
<1>3. /\ stale' = [s \in Asid |-> IF s = asid \/ asid = 0 THEN stale[s] \ done ELSE stale[s]]
      /\ staleG' = IF asid = 0 THEN staleG \ done ELSE staleG
  BY DEF SfenceVma
<1>4. TlbTypeOK'
  <2>1. tlb' \in [Slot -> TlbEntry]
    BY <1>1, NoEntryInvalid DEF SfenceVma, TlbTypeOK
  <2>2. stale' \in [Asid -> SUBSET Va]
    BY <1>1, <1>3 DEF TlbTypeOK
  <2>3. staleG' \subseteq staleG
    BY <1>3
  <2> QED
    BY <1>1, <2>1, <2>2, <2>3 DEF TlbTypeOK, SfenceVma
<1>5. \A t \in Asid, vb \in Va : Ptw(t, vb)' = Ptw(t, vb)
  BY PtwOfTables DEF SfenceVma
<1>6. EntriesCurrent'
  <2> SUFFICES ASSUME NEW i \in Slot, NEW t \in Asid, NEW va \in Va,
                      tlb'[i].asid = t, Covers(tlb'[i], va)
               PROVE  \/ va \in IF tlb'[i].global THEN staleG' ELSE stale'[t]
                      \/ Ptw(t, va)' = {PageOf(tlb'[i])}
    BY DEF EntriesCurrent
  <2>1. tlb'[i] = tlb[i] /\ ~Fenced(tlb[i], pages, asid)
    BY <1>2, NoEntryInvalid DEF Covers
  <2>2. ~(va \in done /\ (t = asid \/ asid = 0))
    BY <2>1 DEF Fenced
  <2>3. CASE va \in IF tlb[i].global THEN staleG ELSE stale[t]
    BY <1>3, <2>1, <2>2, <2>3
  <2>4. CASE Ptw(t, va) = {PageOf(tlb[i])}
    BY <1>5, <2>1, <2>4
  <2> QED
    BY <1>1, <2>1, <2>3, <2>4 DEF EntriesCurrent
<1>7. NoTwins'
  <2> SUFFICES ASSUME NEW i \in Slot, NEW j \in Slot, i # j, tlb'[i].pagesize # 0,
                      tlb'[i].pagesize = tlb'[j].pagesize, tlb'[i].vpa = tlb'[j].vpa
               PROVE  tlb'[i].asid # tlb'[j].asid /\ ~(tlb'[i].global /\ tlb'[j].global)
    BY DEF NoTwins
  <2>1. tlb'[i] = tlb[i] /\ tlb'[j] = tlb[j]
    BY <1>2, NoEntryInvalid
  <2> QED
    BY <1>1, <2>1 DEF NoTwins
<1> QED
  BY <1>4, <1>6, <1>7 DEF TlbInv

LEMMA WriteTlbInv ==
    ASSUME TlbInv, NEW w \in Writes, WritePte(w[1], w[2], w[3])
    PROVE  TlbInv'
<1>1. TlbTypeOK /\ EntriesCurrent /\ NoTwins
  BY DEF TlbInv
<1>2. /\ stale' = [s \in Asid |-> stale[s] \cup {va \in Va : Remapped(s, va)}]
      /\ staleG' = staleG \cup {va \in Va : \E s \in Asid :
                                   /\ Remapped(s, va)
                                   /\ \E page \in Ptw(s, va) : page.global}
      /\ tlb' = tlb
  BY DEF WritePte
<1>3. TlbTypeOK'
  <2>1. w[1] \in Tables /\ w[2] \in Index /\ w[3] \in Pte
    BY Sv39Assumption
  <2>2. pt' \in [Tables -> [Index -> Pte]]
    BY <1>1, <2>1 DEF TlbTypeOK, WritePte
  <2>3. stale' \in [Asid -> SUBSET Va]
    BY <1>1, <1>2 DEF TlbTypeOK
  <2>4. staleG' \subseteq Va
    BY <1>1, <1>2 DEF TlbTypeOK
  <2> QED
    BY <1>1, <2>2, <2>3, <2>4 DEF TlbTypeOK, WritePte
<1>4. EntriesCurrent'
  <2> SUFFICES ASSUME NEW i \in Slot, NEW s \in Asid, NEW va \in Va,
                      tlb[i].asid = s, Covers(tlb[i], va)
               PROVE  \/ va \in IF tlb[i].global THEN staleG' ELSE stale'[s]
                      \/ Ptw(s, va)' = {PageOf(tlb[i])}
    BY <1>2 DEF EntriesCurrent
  <2>1. CASE va \in IF tlb[i].global THEN staleG ELSE stale[s]
    BY <1>2, <2>1
  <2>2. CASE Ptw(s, va) = {PageOf(tlb[i])} /\ Remapped(s, va)
    <3>1. va \in stale'[s]
      BY <1>2, <2>2
    <3>2. ASSUME tlb[i].global PROVE va \in staleG'
      <4>1. PageOf(tlb[i]).global = tlb[i].global
        BY DEF PageOf
      <4> QED
        BY <1>2, <2>2, <3>2, <4>1
    <3> QED
      BY <3>1, <3>2
  <2>3. CASE Ptw(s, va) = {PageOf(tlb[i])} /\ ~Remapped(s, va)
    BY <2>3 DEF Remapped
  <2> QED
    BY <1>1, <2>1, <2>2, <2>3 DEF EntriesCurrent
<1>5. NoTwins'
  BY <1>1, <1>2 DEF NoTwins
<1> QED
  BY <1>3, <1>4, <1>5 DEF TlbInv

LEMMA StepTlbInv == TlbInv /\ [TlbNext]_tlbVars => TlbInv'
<1> SUFFICES ASSUME TlbInv, [TlbNext]_tlbVars PROVE TlbInv'
  OBVIOUS
<1>1. ASSUME NEW s \in Asid, NEW va \in Va, Translate(s, va) PROVE TlbInv'
  BY <1>1, TranslateTlbInv
<1>2. ASSUME NEW pages \in {{}} \cup {{va} : va \in Va}, NEW asid \in Asid \cup {0},
             SfenceVma(pages, asid)
      PROVE  TlbInv'
  BY <1>2, SfenceTlbInv
<1>3. ASSUME NEW w \in Writes, WritePte(w[1], w[2], w[3]) PROVE TlbInv'
  BY <1>3, WriteTlbInv
<1>4. CASE UNCHANGED tlbVars
  <2>1. \A t \in Asid, vb \in Va : Ptw(t, vb)' = Ptw(t, vb)
    BY <1>4, PtwOfTables DEF tlbVars
  <2>2. TlbTypeOK' /\ NoTwins'
    BY <1>4 DEF tlbVars, TlbInv, TlbTypeOK, NoTwins
  <2>3. EntriesCurrent'
    BY <1>4, <2>1 DEF tlbVars, TlbInv, EntriesCurrent
  <2> QED
    BY <2>2, <2>3 DEF TlbInv
<1> QED
  BY <1>1, <1>2, <1>3, <1>4 DEF TlbNext

\* The TLB keeps what the walk found and nothing twice, whatever software writes to
\* its tables and however it fences (rv_sv39.hpp:42, 77).
THEOREM TlbInvariant == TlbSpec => []TlbInv
<1> QED
  BY InitTlbInv, StepTlbInv, PTL DEF TlbSpec
-----------------------------------------------------------------------------
LEMMA HitIsCurrent ==
    ASSUME TlbInv, NEW s \in Asid, NEW va \in Va, RulesKept(s, va), NEW i \in Hits(s, va)
    PROVE  Ptw(s, va) = {PageOf(tlb[i])}
<1>1. i \in Slot /\ Covers(tlb[i], va) /\ (tlb[i].asid = s \/ tlb[i].global)
  BY DEF Hits
<1>2. tlb[i].asid \in Asid
  BY <1>1 DEF TlbInv, TlbTypeOK, TlbEntry
<1>3. va \notin stale[s] /\ va \notin staleG
  BY DEF RulesKept
<1>4. CASE tlb[i].global
  <2>1. Ptw(tlb[i].asid, va) = {PageOf(tlb[i])}
    BY <1>1, <1>2, <1>3, <1>4 DEF TlbInv, EntriesCurrent
  <2>2. PageOf(tlb[i]).global
    BY <1>4 DEF PageOf
  <2>3. Ptw(tlb[i].asid, va) = Ptw(s, va)
    BY <1>2, <2>1, <2>2 DEF RulesKept
  <2> QED
    BY <2>1, <2>3
<1>5. CASE ~tlb[i].global
  BY <1>1, <1>3, <1>5 DEF TlbInv, EntriesCurrent
<1> QED
  BY <1>4, <1>5

\* A hit is what the walk would find, where software keeps the rules (the checks of
\* MM_SANITIZER).
THEOREM HitsStayCurrent == TlbSpec => []HitsAreCurrent
<1>1. TlbInv => HitsAreCurrent
  BY HitIsCurrent DEF HitsAreCurrent
<1> QED
  BY <1>1, TlbInvariant, PTL

\* The assertions of local_tlb_get do not fail where software keeps the rules.
THEOREM AtMostOneMatch == TlbSpec => []OneMatch
<1>1. TlbInv => OneMatch
  <2> SUFFICES ASSUME TlbInv, NEW s \in Asid, NEW va \in Va, RulesKept(s, va),
                      NEW i \in Hits(s, va), NEW j \in Hits(s, va), i # j
               PROVE  FALSE
    BY DEF OneMatch
  <2>1. PageOf(tlb[i]) = PageOf(tlb[j])
    BY HitIsCurrent
  <2>2. tlb[i].pagesize = tlb[j].pagesize /\ tlb[i].global = tlb[j].global
    BY <2>1 DEF PageOf
  <2>3. /\ i \in Slot /\ Covers(tlb[i], va) /\ (tlb[i].asid = s \/ tlb[i].global)
        /\ j \in Slot /\ Covers(tlb[j], va) /\ (tlb[j].asid = s \/ tlb[j].global)
    BY DEF Hits
  <2>4. tlb[i].pagesize # 0 /\ tlb[i].vpa = tlb[j].vpa
    BY <2>2, <2>3 DEF Covers
  <2>5. tlb[i].asid # tlb[j].asid /\ ~(tlb[i].global /\ tlb[j].global)
    BY <2>2, <2>3, <2>4 DEF TlbInv, NoTwins
  <2> QED
    BY <2>2, <2>3, <2>5
<1> QED
  BY <1>1, TlbInvariant, PTL
=============================================================================
