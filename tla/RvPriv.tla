------------------------------- MODULE RvPriv -------------------------------
(***************************************************************************)
(* Privilege modes, traps and interrupts of the reference: rv_priv as      *)
(* rv_core::exec drives it.  A call of exec is a sequence of the stages    *)
(* pre, fetch, execute, post; a trap raised on the way goes to post.  The  *)
(* program is any program: the instruction at pc is chosen when executed.  *)
(*                                                                         *)
(* medeleg, mideleg and satp cannot be written, so no trap is delegated to *)
(* the supervisor mode and no address is translated; sie, spie and spp are *)
(* never looked at and left out, as are the counters and mscratch.         *)
(***************************************************************************)
EXTENDS Integers

CONSTANTS
    Pc,            \* the values of pc, mepc and trap_pc
    StartPc,       \* where riscv_test_run jumps to
    NextPc(_),     \* pc + 4
    Aligned(_),    \* pc is a multiple of 4
    Mapped(_),     \* memory is mapped at pc
    Vector(_, _),  \* base of a vector register, plus 4 * cause when vectored
    Tvecs,         \* the values of mtvec, ZeroTvec among them
    ZeroTvec,
    Interrupts,    \* the interrupts of m_int_mask, out of 1, 3, 5, 7, 9, 11
    Lines,         \* what the caller passes as meip, msip, mtip, seip
    Exceptions,    \* what an instruction may raise besides its own traps
    Causes,        \* the values a program writes into mcause
    OnlyModeM      \* only_modeM && run_riscv_test

SupervisorSoft  == 1
SupervisorTimer == 5

\* Causes of exceptions and interrupts (rv_exc_code, rv_int_code).
Codes == 0..15

\* int2index: decreasing priority.
Priority == <<11, 3, 7, 9, 1, 5>>

InstrMisaligned == 0
InstrAccess     == 1
Illegal         == 2
Breakpoint      == 3
EcallFrom(p)    == IF p = "M" THEN 11 ELSE 8

ASSUME PcAssumption ==
    /\ {0, StartPc} \subseteq Pc
    /\ \A p \in Pc : NextPc(p) \in Pc
    /\ ZeroTvec \in Tvecs
    /\ \A t \in Tvecs, c \in Codes : Vector(t, c) \in Pc

ASSUME CauseAssumption ==
    /\ Interrupts \subseteq {Priority[k] : k \in 1..6}
    /\ Lines \subseteq SUBSET (Interrupts \ {SupervisorSoft, SupervisorTimer})
    /\ Exceptions \subseteq Codes
    /\ Causes \subseteq [cause : Codes, interrupt : BOOLEAN]
    /\ OnlyModeM \in BOOLEAN

VARIABLES
    stage,     \* where exec is
    pc,        \* rv_core.pc
    newPc,     \* new_pc of exec: a jump has set pc
    priv,      \* cur_priv
    nextPriv,  \* next_priv
    needTrap,  \* cur_need_trap
    trapPc,    \* trap_pc
    status,    \* mie, mpie, mpp and mprv of mstatus
    ie, ip,    \* the interrupts enabled and pending, as sets
    mtvec, mepc, mcause

csrs == <<status, ie, ip, mtvec, mepc, mcause>>
vars == <<stage, pc, newPc, priv, nextPriv, needTrap, trapPc, csrs>>

Modes == {"U", "M"}

PrivTypeOK ==
    /\ stage \in {"pre", "fetch", "execute", "post"}
    /\ pc \in Pc
    /\ newPc \in BOOLEAN
    /\ priv \in Modes
    /\ nextPriv \in Modes
    /\ needTrap \in BOOLEAN
    /\ trapPc \in Pc
    /\ status \in [mie : BOOLEAN, mpie : BOOLEAN, mpp : Modes, mprv : BOOLEAN]
    /\ ie \subseteq Interrupts
    /\ ip \subseteq Interrupts
    /\ mtvec \in Tvecs
    /\ mepc \in Pc
    /\ mcause \in [cause : Codes, interrupt : BOOLEAN]

Init ==
    /\ stage = "pre"
    /\ pc = StartPc
    /\ newPc = FALSE
    /\ priv = "M"
    /\ nextPriv = "M"
    /\ needTrap = FALSE
    /\ trapPc = 0
    /\ status = [mie |-> FALSE, mpie |-> FALSE, mprv |-> FALSE,
                 mpp |-> IF OnlyModeM THEN "M" ELSE "U"]
    /\ ie = {}
    /\ ip = {}
    /\ mtvec = ZeroTvec
    /\ mepc = 0
    /\ mcause = [cause |-> 0, interrupt |-> FALSE]
-----------------------------------------------------------------------------
\* Mutant: mie is cleared before it is saved.
RaiseTrapClearsFirst(p, cause, interrupt) ==
    /\ stage' = "post"
    /\ needTrap' = TRUE
    /\ nextPriv' = "M"
    /\ status' = [status EXCEPT !.mpie = FALSE, !.mie = FALSE, !.mpp = p]
    /\ mepc' = pc
    /\ mcause' = [cause |-> cause, interrupt |-> interrupt]
    /\ trapPc' = Vector(mtvec, cause)
    /\ UNCHANGED <<pc, newPc, ie, mtvec>>

\* Mutant: the entry of a vectored table is chosen by the cause of the last trap.
RaiseTrapStaleCause(p, cause, interrupt) ==
    /\ stage' = "post"
    /\ needTrap' = TRUE
    /\ nextPriv' = "M"
    /\ status' = [status EXCEPT !.mpie = status.mie, !.mie = FALSE, !.mpp = p]
    /\ mepc' = pc
    /\ mcause' = [cause |-> cause, interrupt |-> interrupt]
    /\ trapPc' = Vector(mtvec, mcause.cause)
    /\ UNCHANGED <<pc, newPc, ie, mtvec>>

\* Trap into machine mode, out of mode p.
RaiseTrap(p, cause, interrupt) ==
    /\ stage' = "post"
    /\ needTrap' = TRUE
    /\ nextPriv' = "M"
    /\ status' = [status EXCEPT !.mpie = status.mie, !.mie = FALSE, !.mpp = p]
    /\ mepc' = pc
    /\ mcause' = [cause |-> cause, interrupt |-> interrupt]
    /\ trapPc' = Vector(mtvec, cause)
    /\ UNCHANGED <<pc, newPc, ie, mtvec>>

\* Mutant: mie masks the interrupts in every mode.
TakenEnabledOnly(p, pending) == IF ~status.mie THEN {} ELSE pending \cap ie

\* The interrupts to be taken in mode p, of those pending.
Taken(p, pending) == IF p = "M" /\ ~status.mie THEN {} ELSE pending \cap ie

\* int2index.
Highest(S) == LET first == CHOOSE k \in 1..6 : /\ Priority[k] \in S
                                               /\ \A j \in 1..(k - 1) : Priority[j] \notin S
              IN  Priority[first]

\* Mutant: the mode of the last call is kept.
PreExecOldMode ==
    /\ stage = "pre"
    /\ UNCHANGED priv
    /\ \E lines \in Lines :
          ip' = (ip \cap {SupervisorSoft, SupervisorTimer}) \cup lines
    /\ IF Taken(priv', ip') # {}
       THEN RaiseTrap(priv', Highest(Taken(priv', ip')), TRUE)
       ELSE /\ stage' = "fetch"
            /\ UNCHANGED <<pc, newPc, nextPriv, needTrap, trapPc, status, ie, mtvec, mepc, mcause>>

\* The timer and external bits of ip follow the lines, whatever was written.
PreExec ==
    /\ stage = "pre"
    /\ priv' = nextPriv
    /\ \E lines \in Lines :
          ip' = (ip \cap {SupervisorSoft, SupervisorTimer}) \cup lines
    /\ IF Taken(priv', ip') # {}
       THEN RaiseTrap(priv', Highest(Taken(priv', ip')), TRUE)
       ELSE /\ stage' = "fetch"
            /\ UNCHANGED <<pc, newPc, nextPriv, needTrap, trapPc, status, ie, mtvec, mepc, mcause>>

Raise(cause) == RaiseTrap(priv, cause, FALSE) /\ UNCHANGED <<priv, ip>>

Fetch ==
    /\ stage = "fetch"
    /\ IF ~Aligned(pc) THEN Raise(InstrMisaligned)
       ELSE IF ~Mapped(pc) THEN Raise(InstrAccess)
       ELSE stage' = "execute" /\ UNCHANGED <<pc, newPc, priv, nextPriv, needTrap, trapPc, csrs>>
-----------------------------------------------------------------------------
(* The instructions. *)

\* An instruction without effect on the privileged state; a jump sets pc.
Plain ==
    /\ stage = "execute" /\ stage' = "post"
    /\ \/ UNCHANGED <<pc, newPc>>
       \/ newPc' = TRUE /\ pc' \in {p \in Pc : Aligned(p)}
    /\ UNCHANGED <<priv, nextPriv, needTrap, trapPc, csrs>>

\* An illegal instruction, a misaligned jump, a load or store that fails.
Faulting == stage = "execute" /\ \E c \in Exceptions : Raise(c)

Ecall == stage = "execute" /\ Raise(EcallFrom(priv))

Ebreak == stage = "execute" /\ Raise(Breakpoint)

\* A return takes the way of a trap as far as pc is concerned.
Mret ==
    /\ stage = "execute"
    /\ IF priv # "M" THEN Raise(Illegal)
       ELSE /\ stage' = "post"
            /\ needTrap' = TRUE
            /\ trapPc' = mepc
            /\ nextPriv' = status.mpp
            /\ status' = [mie |-> status.mpie, mpie |-> TRUE, mpp |-> "U",
                          mprv |-> IF status.mpp = "M" THEN status.mprv ELSE FALSE]
            /\ UNCHANGED <<pc, newPc, priv, ie, ip, mtvec, mepc, mcause>>

\* Mutant: mprv survives the return.
SretKeepsMprv ==
    /\ stage = "execute"
    /\ IF priv # "M" THEN Raise(Illegal)
       ELSE /\ stage' = "post"
            /\ needTrap' = TRUE
            /\ trapPc' = 0
            /\ nextPriv' = "U"
            /\ UNCHANGED <<pc, newPc, priv, csrs>>

\* sepc and spp keep their reset values, 0 and the user mode.
Sret ==
    /\ stage = "execute"
    /\ IF priv # "M" THEN Raise(Illegal)
       ELSE /\ stage' = "post"
            /\ needTrap' = TRUE
            /\ trapPc' = 0
            /\ nextPriv' = "U"
            /\ status' = [status EXCEPT !.mprv = FALSE]
            /\ UNCHANGED <<pc, newPc, priv, ie, ip, mtvec, mepc, mcause>>

\* Mutant: the mode written is not checked.
WrittenStatusUnchecked(s) ==
    IF OnlyModeM THEN [status EXCEPT !.mie = s.mie, !.mpie = s.mpie] ELSE s

\* What a write of mstatus makes of it: the supervisor mode becomes the user mode.
WrittenStatus(s) ==
    IF OnlyModeM THEN [status EXCEPT !.mie = s.mie, !.mpie = s.mpie]
    ELSE [s EXCEPT !.mpp = IF @ \in Modes THEN @ ELSE "U"]

\* csr_write, one disjunct for each register that is kept.
Write ==
    \/ /\ \E s \in [mie : BOOLEAN, mpie : BOOLEAN, mpp : {"U", "S", "M"}, mprv : BOOLEAN] :
             status' = WrittenStatus(s)
       /\ UNCHANGED <<ie, ip, mtvec, mepc, mcause>>
    \/ /\ ie' \in SUBSET Interrupts
       /\ UNCHANGED <<status, ip, mtvec, mepc, mcause>>
    \/ /\ ip' \in SUBSET Interrupts
       /\ UNCHANGED <<status, ie, mtvec, mepc, mcause>>
    \/ /\ mtvec' \in Tvecs
       /\ UNCHANGED <<status, ie, ip, mepc, mcause>>
    \/ /\ mepc' \in Pc
       /\ UNCHANGED <<status, ie, ip, mtvec, mcause>>
    \/ /\ mcause' \in Causes
       /\ UNCHANGED <<status, ie, ip, mtvec, mepc>>

\* Mutant: no permission check.
CsrWriteUnchecked ==
    /\ stage = "execute" /\ stage' = "post"
    /\ Write
    /\ UNCHANGED <<pc, newPc, priv, nextPriv, needTrap, trapPc>>

\* A CSR instruction that writes: illegal outside machine mode.
CsrWrite ==
    /\ stage = "execute"
    /\ IF priv # "M" THEN Raise(Illegal)
       ELSE /\ stage' = "post"
            /\ Write
            /\ UNCHANGED <<pc, newPc, priv, nextPriv, needTrap, trapPc>>

\* The end of exec, from the label exception on.
PostExec ==
    /\ stage = "post" /\ stage' = "pre"
    /\ pc' = IF needTrap THEN trapPc ELSE IF newPc THEN pc ELSE NextPc(pc)
    /\ needTrap' = FALSE
    /\ newPc' = FALSE
    /\ UNCHANGED <<priv, nextPriv, trapPc, csrs>>

Next == PreExec \/ Fetch \/ Plain \/ Faulting \/ Ecall \/ Ebreak \/ Mret \/ Sret
        \/ CsrWrite \/ PostExec

Spec == Init /\ [][Next]_vars
-----------------------------------------------------------------------------
\* No instruction is fetched or executed while an interrupt that is pending,
\* enabled and not masked by the mode waits (rv_priv.hpp:74-121): not after a
\* return or a drop to the user mode either, where mie does not mask.
InterruptBeforeInstruction ==
    stage \in {"fetch", "execute"} /\ (priv = "U" \/ status.mie) => ip \cap ie = {}

\* mprv makes loads and stores of the machine mode behave like those of mpp; it is
\* clear whenever the user mode runs (rv_priv.hpp:631-661).
MprvOnlyInMachine == nextPriv = "U" => ~status.mprv

\* Before an instruction is fetched and executed no trap is pending and the mode is the
\* one exec started in, so that one it raises is the first (the assert at
\* rv_priv.hpp:672).  An instruction raises at most one by the shape of the model.
TrapOncePerCall == stage \in {"fetch", "execute"} => ~needTrap /\ ~newPc /\ nextPriv = priv

\* What an instruction of the user mode may do to the privileged state is to
\* trap, with itself as mepc; it changes no register of the machine mode otherwise.
UserOnlyTraps ==
    [][priv = "U" /\ stage = "execute" =>
         \/ UNCHANGED <<csrs, nextPriv, needTrap>>
         \/ /\ needTrap' /\ nextPriv' = "M" /\ mepc' = pc /\ ~mcause'.interrupt
            /\ status'.mpp = "U"
            /\ UNCHANGED <<ie, ip, mtvec>>]_vars

\* The machine mode is entered from the user mode at the trap vector and
\* nowhere else: a program of the user mode cannot choose the address.
EntryOnlyAtVector ==
    [][priv = "U" /\ stage = "post" /\ nextPriv = "M" =>
         pc' = Vector(mtvec, mcause.cause)]_vars

\* With -onlymodem the mode is always the machine mode
\* ("-onlymodem ... 只有modeM", sim_mycpu.cpp:431).
OnlyMachineMode == OnlyModeM => nextPriv = "M"

\* The modes of exec behave like the one-level stack of TrapStack.
Stack == INSTANCE TrapStack WITH
            mode    <- nextPriv,
            enabled <- status.mie,
            saved   <- [mode |-> status.mpp, enabled |-> status.mpie]

ImplementsTrapStack == Stack!Safety
=============================================================================
